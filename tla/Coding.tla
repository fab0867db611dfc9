------------------------------- MODULE Coding -------------------------------
(***************************************************************************)
(* util/coding.cc: varints, and strings with their length in front.  The   *)
(* widths of the integers are scaled down, the bytes are not.  A Get       *)
(* returns the value and the rest of the input, or ok = FALSE.             *)
(***************************************************************************)
EXTENDS Integers, Sequences

CONSTANTS Bits32, Bits64       \* the widths of uint32_t and uint64_t

RECURSIVE PutVarint(_), GetVarint(_, _, _, _)

\* PutVarint32 and PutVarint64.
PutVarint(v) == IF v < 128 THEN <<v>> ELSE <<128 + (v % 128)>> \o PutVarint(v \div 128)

Got(v, rest) == [ok |-> TRUE, v |-> v, rest |-> rest]
NotGot(input) == [ok |-> FALSE, v |-> 0, rest |-> input]

\* GetVarint32Ptr and GetVarint64Ptr: bits that do not fit are shifted out.
GetVarint(input, bits, shift, result) ==
    IF input = <<>> \/ shift >= bits THEN NotGot(input)
    ELSE LET v == (result + (input[1] % 128) * 2^shift) % 2^bits
         IN IF input[1] >= 128 THEN GetVarint(Tail(input), bits, shift + 7, v)
            ELSE Got(v, Tail(input))

GetVarint32(input) == GetVarint(input, Bits32, 0, 0)
GetVarint64(input) == GetVarint(input, Bits64, 0, 0)

PutLengthPrefixedSlice(bytes) == PutVarint(Len(bytes)) \o bytes

\* What there is of it (a mistake).
GetPrefixOfSlice(input) ==
    LET n == GetVarint32(input)
        m == IF Len(n.rest) < n.v THEN Len(n.rest) ELSE n.v
    IN IF ~n.ok THEN n
       ELSE Got(SubSeq(n.rest, 1, m), SubSeq(n.rest, m + 1, Len(n.rest)))

GetLengthPrefixedSlice(input) ==
    LET n == GetVarint32(input)
    IN IF ~n.ok \/ Len(n.rest) < n.v THEN NotGot(n.rest)
       ELSE Got(SubSeq(n.rest, 1, n.v), SubSeq(n.rest, n.v + 1, Len(n.rest)))
=============================================================================
