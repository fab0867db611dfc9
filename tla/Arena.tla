------------------------------- MODULE Arena -------------------------------
(***************************************************************************)
(* leveldb's Arena (util/arena.cc): memory for memtable entries and skip   *)
(* list nodes. An address is a block and an offset in it; every block      *)
(* begins at an aligned address.                                           *)
(***************************************************************************)
EXTENDS Naturals, Sequences

CONSTANTS
  ArenaBlock,   \* kBlockSize
  Align,        \* the alignment of AllocateAligned
  Sizes,        \* sizes that are asked for
  MaxAllocs     \* bound on the number of allocations

ASSUME ArenaAssumption ==
  /\ {ArenaBlock, Align} \cup Sizes \subseteq Nat \ {0} /\ ArenaBlock % Align = 0
  /\ MaxAllocs \in Nat

VARIABLES
  arena,   \* alloc_ptr_ (block and offset), alloc_bytes_remaining_, the blocks' sizes
  allocs   \* history: what was returned

arenaVars == <<arena, allocs>>

-----------------------------------------------------------------------------
ArenaInit ==
  arena = [block |-> 0, offset |-> 0, remaining |-> 0, blocks |-> <<>>] /\ allocs = <<>>

AllocateNewBlock(a, bytes) == [a EXCEPT !.blocks = Append(@, bytes)]

Take(a, bytes) == [a EXCEPT !.offset = @ + bytes, !.remaining = @ - bytes]

\* Mutant: a large object leaves the current block behind, not its counter.
FallbackMixed(a, bytes) ==
  LET n == AllocateNewBlock(a, IF bytes > ArenaBlock \div 4 THEN bytes ELSE ArenaBlock)
      fresh == [n EXCEPT !.block = Len(n.blocks), !.offset = 0]
  IN IF bytes > ArenaBlock \div 4 THEN fresh
     ELSE Take([fresh EXCEPT !.remaining = ArenaBlock], bytes)

\* AllocateFallback: a large object gets a block of its own, and the current
\* block stays; otherwise the rest of the current block is wasted.
AllocateFallback(a, bytes) ==
  IF bytes > ArenaBlock \div 4 THEN AllocateNewBlock(a, bytes)
  ELSE LET n == AllocateNewBlock(a, ArenaBlock)
       IN Take([n EXCEPT !.block = Len(n.blocks), !.offset = 0, !.remaining = ArenaBlock], bytes)

Returned(block, offset, bytes, aligned) ==
  allocs' = Append(allocs, [block |-> block, offset |-> offset, bytes |-> bytes, aligned |-> aligned])

\* Allocate (slop 0) and AllocateAligned, with the slop before the object.
AllocateAt(bytes, slop, aligned) ==
  IF bytes + slop <= arena.remaining
    THEN /\ arena' = Take(arena, bytes + slop)
         /\ Returned(arena.block, arena.offset + slop, bytes, aligned)
    ELSE /\ arena' = AllocateFallback(arena, bytes)
         /\ Returned(Len(arena.blocks) + 1, 0, bytes, aligned)

Allocate == Len(allocs) < MaxAllocs /\ \E bytes \in Sizes : AllocateAt(bytes, 0, FALSE)

AllocateAligned ==
  /\ Len(allocs) < MaxAllocs
  /\ \E bytes \in Sizes :
       AllocateAt(bytes, IF arena.offset % Align = 0 THEN 0 ELSE Align - (arena.offset % Align), TRUE)

ArenaNext == Allocate \/ AllocateAligned

ArenaSpec == ArenaInit /\ [][ArenaNext]_arenaVars

-----------------------------------------------------------------------------
\* Objects lie inside their blocks, do not overlap, and are aligned when that
\* was asked for; what the arena will give out next is free.
ObjectsAreDisjoint ==
  LET Bytes(x) == {<<x.block, i>> : i \in x.offset..(x.offset + x.bytes - 1)}
      free == {<<arena.block, i>> : i \in arena.offset..(arena.offset + arena.remaining - 1)}
  IN \A i \in DOMAIN allocs :
       /\ allocs[i].block \in DOMAIN arena.blocks
       /\ allocs[i].offset + allocs[i].bytes <= arena.blocks[allocs[i].block]
       /\ allocs[i].aligned => allocs[i].offset % Align = 0
       /\ Bytes(allocs[i]) \cap free = {}
       /\ \A j \in 1..(i - 1) : Bytes(allocs[i]) \cap Bytes(allocs[j]) = {}
=============================================================================
