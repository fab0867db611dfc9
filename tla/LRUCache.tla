------------------------------ MODULE LRUCache ------------------------------
(***************************************************************************)
(* A shard of leveldb's LRU cache (util/cache.cc) and its two users:       *)
(* TableCache::FindTable (db/table_cache.cc), which caches open tables,    *)
(* and Table::BlockReader (table/table.cc), which caches blocks. Each call *)
(* of the cache holds the shard's mutex; between the Lookup that misses    *)
(* and the Insert of what was loaded other threads run.                    *)
(*                                                                         *)
(* An entry is its address, which is used again once it was freed.         *)
(***************************************************************************)
EXTENDS Naturals, Sequences, FiniteSets
LOCAL INSTANCE SequencesExt

CONSTANTS
  Threads,       \* the threads that read through the cache
  CacheKeys,     \* file numbers, or cache ids with block offsets
  HashOf,        \* the hash of each key
  Charges,       \* charges of entries: 1 for a table, its size for a block
  Capacity,      \* capacity_ of the shard
  InitialLength  \* the least length of the hash table, 4

\* Every thread holds at most one entry that is no longer in the cache.
Addresses == 1..(Capacity + Cardinality(Threads) + 1)

ASSUME LRUCacheAssumption ==
  /\ Capacity \in Nat /\ InitialLength \in Nat \ {0}
  /\ HashOf \in [CacheKeys -> Nat] /\ Charges \subseteq Nat \ {0}

VARIABLES
  heap,    \* address -> the entry, or Freed
  lru,     \* the list, oldest first
  hashes,  \* HandleTable: list_, a sequence of buckets
  usage,   \* usage_
  caller,  \* thread -> what it is doing
  latest   \* history: key -> the entry the last Insert made, 0 once it was erased

cacheVars == <<heap, lru, hashes, usage, caller, latest>>

-----------------------------------------------------------------------------
Freed == [key |-> "none", charge |-> 0, refs |-> 0]
Idle == [pc |-> "idle", key |-> "none", handle |-> 0]

-----------------------------------------------------------------------------
(* HandleTable, as functions of its state (buckets t, entries e). *)
Elems(t) == LET n[i \in 0..Len(t)] == IF i = 0 THEN 0 ELSE n[i - 1] + Len(t[i]) IN n[Len(t)]
BucketOf(t, key) == (HashOf[key] % Len(t)) + 1

\* FindPointer: the position in the bucket, past its end if there is none.
FindPointer(t, e, key) ==
  LET bucket == t[BucketOf(t, key)]
      is == {i \in DOMAIN bucket : e[bucket[i]].key = key}
  IN IF is = {} THEN Len(bucket) + 1 ELSE CHOOSE i \in is : \A j \in is : i <= j

HashLookup(t, e, key) ==
  LET bucket == t[BucketOf(t, key)]
      i == FindPointer(t, e, key)
  IN IF i > Len(bucket) THEN 0 ELSE bucket[i]

\* Resize: the entries of each bucket go, in order, to the front of their new
\* bucket.
Resize(t, e) ==
  LET n == Elems(t)
      lengths == {InitialLength * 2 ^ i : i \in 0..n}
      length == CHOOSE l \in lengths : l >= n /\ \A m \in lengths : m >= n => l <= m
      moved == FlattenSeq(t)
  IN [b \in 1..length |-> Reverse(SelectSeq(moved, LAMBDA a : HashOf[e[a].key] % length = b - 1))]

HashInsert(t, e, a) ==
  LET key == e[a].key
      b == BucketOf(t, key)
      i == FindPointer(t, e, key)
      u == [t EXCEPT ![b] = IF i > Len(@) THEN Append(@, a) ELSE [@ EXCEPT ![i] = a]]
  IN IF Elems(u) > Elems(t) /\ Elems(u) > Len(u) THEN Resize(u, e) ELSE u

HashRemove(t, e, key) ==
  LET i == FindPointer(t, e, key)
  IN [t EXCEPT ![BucketOf(t, key)] = IF i > Len(@) THEN @ ELSE RemoveAt(@, i)]

-----------------------------------------------------------------------------
(* LRUCache: c is its whole state. *)
Cache == [heap |-> heap, lru |-> lru, hashes |-> hashes, usage |-> usage]

LRU_Remove(c, a) == [c EXCEPT !.lru = SelectSeq(@, LAMBDA x : x # a)]
LRU_Append(c, a) == [c EXCEPT !.lru = Append(@, a)]

Unref(c, a) ==
  IF c.heap[a].refs = 1
    THEN [c EXCEPT !.heap[a] = Freed, !.usage = @ - c.heap[a].charge]
    ELSE [c EXCEPT !.heap[a].refs = @ - 1]

\* Mutant: a hit does not count the new user.
LookupUncounted(c, a) == LRU_Append(LRU_Remove(c, a), a)

Hit(c, a) == LRU_Append(LRU_Remove([c EXCEPT !.heap[a].refs = @ + 1], a), a)

\* The loop of Insert: the oldest entries leave, in use or not.
EvictOldest(c) ==
  LET old == Head(c.lru)
  IN Unref([LRU_Remove(c, old) EXCEPT !.hashes = HashRemove(@, c.heap, c.heap[old].key)], old)

Shrink(c) ==
  LET after[i \in 0..Len(c.lru)] == IF i = 0 THEN c
                                     ELSE IF after[i - 1].usage <= Capacity THEN after[i - 1]
                                     ELSE EvictOldest(after[i - 1])
  IN after[Len(c.lru)]

\* The entry an Insert displaced.
DropOld(c, old) == IF old = 0 THEN c ELSE Unref(LRU_Remove(c, old), old)

Inserted(c, a, key, charge) ==
  LET new == LRU_Append([c EXCEPT !.heap[a] = [key |-> key, charge |-> charge, refs |-> 2],
                                  !.usage = @ + charge], a)
      old == HashLookup(c.hashes, c.heap, key)
  IN Shrink(DropOld([new EXCEPT !.hashes = HashInsert(@, new.heap, a)], old))

Erased(c, key) ==
  LET a == HashLookup(c.hashes, c.heap, key)
  IN IF a = 0 THEN c ELSE Unref(LRU_Remove([c EXCEPT !.hashes = HashRemove(@, c.heap, key)], a), a)

SetCache(c) ==
  /\ heap' = c.heap /\ lru' = c.lru /\ hashes' = c.hashes /\ usage' = c.usage

-----------------------------------------------------------------------------
CacheInit ==
  /\ heap = [a \in Addresses |-> Freed]
  /\ lru = <<>> /\ hashes = [b \in 1..InitialLength |-> <<>>] /\ usage = 0
  /\ caller = [t \in Threads |-> Idle]
  /\ latest = [k \in CacheKeys |-> 0]

\* FindTable, BlockReader: Lookup.
Lookup(t, key) ==
  LET a == HashLookup(hashes, heap, key) IN
  /\ caller[t].pc = "idle"
  /\ SetCache(IF a = 0 THEN Cache ELSE Hit(Cache, a))
  /\ caller' = [caller EXCEPT ![t] = IF a = 0 THEN [pc |-> "load", key |-> key, handle |-> 0]
                                     ELSE [pc |-> "use", key |-> key, handle |-> a]]
  /\ UNCHANGED latest

\* The table cannot be opened, or the block read: nothing is cached.
LoadFails(t) ==
  /\ caller[t].pc = "load"
  /\ caller' = [caller EXCEPT ![t] = Idle]
  /\ UNCHANGED <<heap, lru, hashes, usage, latest>>

\* BlockReader without fill_cache, or with contents that are not cachable:
\* the block belongs to the iterator.
LoadUncached(t) ==
  /\ caller[t].pc = "load"
  /\ caller' = [caller EXCEPT ![t].pc = "use"]
  /\ UNCHANGED <<heap, lru, hashes, usage, latest>>

Insert(t) ==
  /\ caller[t].pc = "load"
  /\ \E charge \in Charges :
       LET a == CHOOSE x \in Addresses : heap[x] = Freed /\ \A y \in Addresses : heap[y] = Freed => x <= y
           key == caller[t].key
       IN /\ SetCache(Inserted(Cache, a, key, charge))
          /\ caller' = [caller EXCEPT ![t] = [pc |-> "use", key |-> key, handle |-> a]]
          /\ latest' = [latest EXCEPT ![key] = a]

\* UnrefEntry, ReleaseBlock, the end of TableCache::Get; or DeleteBlock.
Release(t) ==
  /\ caller[t].pc = "use"
  /\ IF caller[t].handle = 0 THEN UNCHANGED <<heap, lru, hashes, usage>>
     ELSE SetCache(Unref(Cache, caller[t].handle))
  /\ caller' = [caller EXCEPT ![t] = Idle]
  /\ UNCHANGED latest

\* TableCache::Evict, when the file was deleted.
Erase(key) ==
  /\ SetCache(Erased(Cache, key))
  /\ latest' = [latest EXCEPT ![key] = 0]
  /\ UNCHANGED caller

CacheNext ==
  \/ \E t \in Threads, key \in CacheKeys : Lookup(t, key)
  \/ \E t \in Threads : LoadFails(t) \/ LoadUncached(t) \/ Insert(t) \/ Release(t)
  \/ \E key \in CacheKeys : Erase(key)

CacheSpec == CacheInit /\ [][CacheNext]_cacheVars

-----------------------------------------------------------------------------
(* Properties. *)
CachedEntries == {lru[i] : i \in DOMAIN lru}
Holders(a) == {t \in Threads : caller[t].pc = "use" /\ caller[t].handle = a}
Alive == {a \in Addresses : heap[a] # Freed}

\* An entry is alive exactly as long as the cache or a thread has it: no
\* thread uses a freed table or block, and none is leaked.
EntriesLiveWhileUsed ==
  \A a \in Addresses :
    heap[a].refs = Cardinality(Holders(a)) + (IF a \in CachedEntries THEN 1 ELSE 0)

\* The list and the hash table hold the same entries, one for each key, and
\* every one is found in its bucket, also after the table grew.
ListAndTableAgree ==
  /\ Elems(hashes) = Len(lru)
  /\ \A a \in CachedEntries : a \in Alive /\ HashLookup(hashes, heap, heap[a].key) = a

\* What is counted is what is alive, and more than the capacity is kept only
\* for threads that still use it.
CapacityBoundsCache ==
  /\ usage = MapThenFoldSet(LAMBDA x, y : x + y, 0, LAMBDA a : heap[a].charge,
                            LAMBDA S : CHOOSE a \in S : TRUE, Alive)
  /\ usage > Capacity => lru = <<>>

\* The entry found for a key is the last one inserted, and none is found for
\* an erased key.
FindsTheLatest ==
  \A k \in CacheKeys : HashLookup(hashes, heap, k) \in {0, latest[k]}

\* The shared cache finds the latest entry, and never frees one in use.
CacheIsRight ==
  /\ EntriesLiveWhileUsed
  /\ ListAndTableAgree
  /\ CapacityBoundsCache
  /\ FindsTheLatest
=============================================================================
