---------------------------- MODULE InternalKeys ----------------------------
(***************************************************************************)
(* leveldb's keys: the bytewise comparator (util/comparator.cc), the       *)
(* comparator and filter policy of internal keys (db/dbformat.cc) and the  *)
(* bloom filter (util/bloom.cc).                                           *)
(*                                                                         *)
(* A user key is a sequence of bytes 0..MaxByte. An internal key is a user *)
(* key with its tag (sequence number and type, eight bytes in the file) as *)
(* one more element. A word of the hash is two halves of HashHalf.         *)
(***************************************************************************)
EXTENDS Naturals, Sequences, FiniteSets

CONSTANTS
  MaxByte,      \* 0xff
  MaxTag,       \* kMaxSequenceNumber with kValueTypeForSeek
  HashHalf,     \* a hash is below HashHalf * HashHalf
  BitsPerKey,   \* bits_per_key_
  MinBits,      \* the least length of a filter, 64
  ByteBits,     \* bits of a byte of the filter
  Probes        \* k_

ASSUME InternalKeysAssumption ==
  /\ {MaxByte, MaxTag, BitsPerKey, Probes} \subseteq Nat
  /\ {HashHalf, MinBits, ByteBits} \subseteq Nat \ {0}

-----------------------------------------------------------------------------
Shorter(a, b) == IF Len(a) <= Len(b) THEN Len(a) ELSE Len(b)

\* The length of the common prefix.
SharedLength(a, b) ==
  CHOOSE n \in 0..Shorter(a, b) :
    /\ \A i \in 1..n : a[i] = b[i]
    /\ n < Shorter(a, b) => a[n + 1] # b[n + 1]

BytewiseLess(a, b) ==
  LET n == SharedLength(a, b) IN n < Len(b) /\ (IF n = Len(a) THEN TRUE ELSE a[n + 1] < b[n + 1])

\* BytewiseComparatorImpl::FindShortestSeparator
UserSeparator(start, limit) ==
  LET n == SharedLength(start, limit) IN
  IF n < Shorter(start, limit) /\ start[n + 1] < MaxByte /\ start[n + 1] + 1 < limit[n + 1]
    THEN Append(SubSeq(start, 1, n), start[n + 1] + 1)
    ELSE start

\* BytewiseComparatorImpl::FindShortSuccessor
UserSuccessor(key) ==
  LET below == {i \in DOMAIN key : key[i] # MaxByte}
      i == CHOOSE j \in below : \A l \in below : j <= l
  IN IF below = {} THEN key ELSE Append(SubSeq(key, 1, i - 1), key[i] + 1)

-----------------------------------------------------------------------------
ExtractUserKey(ikey) == SubSeq(ikey, 1, Len(ikey) - 1)
Tag(ikey) == ikey[Len(ikey)]

\* InternalKeyComparator::Compare: newer entries of a user key come first.
InternalLess(a, b) ==
  LET ua == ExtractUserKey(a)
      ub == ExtractUserKey(b)
  IN BytewiseLess(ua, ub) \/ (ua = ub /\ Tag(a) > Tag(b))

\* The shortened user key gets the earliest tag; one that did not become
\* shorter and larger is not used.
Shortened(ikey, tmp) ==
  IF Len(tmp) < Len(ExtractUserKey(ikey)) /\ BytewiseLess(ExtractUserKey(ikey), tmp)
    THEN Append(tmp, MaxTag)
    ELSE ikey

FindShortestSeparator(start, limit) ==
  Shortened(start, UserSeparator(ExtractUserKey(start), ExtractUserKey(limit)))

FindShortSuccessor(ikey) == Shortened(ikey, UserSuccessor(ExtractUserKey(ikey)))

-----------------------------------------------------------------------------
\* Some function of the bytes of the key, as Hash is for this purpose.
BloomHash(key) ==
  LET h[i \in 0..Len(key)] == IF i = 0 THEN 5 ELSE (h[i - 1] * 11 + key[i] + 3) % (HashHalf * HashHalf)
  IN h[Len(key)]

\* Double hashing: the j-th probe of a key in a filter of n bits.
Probe(key, j, n) ==
  LET h == BloomHash(key)
      delta == (h \div HashHalf) + (h % HashHalf) * HashHalf
  IN ((h + j * delta) % (HashHalf * HashHalf)) % n

\* A filter: its length in bits, 0 for an empty one, and the bits that are set.
EmptyFilter == [bits |-> 0, set |-> {}]

\* InternalFilterPolicy::CreateFilter
CreateFilter(ikeys) ==
  LET wanted == IF Len(ikeys) * BitsPerKey < MinBits THEN MinBits ELSE Len(ikeys) * BitsPerKey
      n == ((wanted + ByteBits - 1) \div ByteBits) * ByteBits
  IN [bits |-> n,
      set |-> {Probe(ExtractUserKey(ikeys[i]), j, n) : i \in DOMAIN ikeys, j \in 0..(Probes - 1)}]

\* InternalFilterPolicy::KeyMayMatch
FilterMayMatch(ikey, f) ==
  f.bits # 0 /\ \A j \in 0..(Probes - 1) : Probe(ExtractUserKey(ikey), j, f.bits) \in f.set
=============================================================================
