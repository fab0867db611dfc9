------------------------- MODULE Compaction_proofs -------------------------
(***************************************************************************)
(* Proofs about the levels of leveldb and its compactions (version_set.cc, *)
(* db_impl.cc), for any keys, levels, sizes of files and snapshots.        *)
(***************************************************************************)
EXTENDS Compaction, FiniteSetTheorems, SequenceTheorems, WellFoundedInduction, NaturalsInduction,
        TLAPS

\* The order of the naturals is well founded.
LEMMA LeastNat ==
  ASSUME NEW T \in SUBSET Nat, T # {}
  PROVE  \E x \in T : \A y \in T : x <= y
<1> DEFINE R == {ss \in Nat \X Nat : ss[1] < ss[2]}
<1>1. R = OpToRel(<, Nat)
  BY Zenon DEF OpToRel
<1>2. IsWellFoundedOn(R, Nat)
  BY <1>1, NatLessThanWellFounded, Zenon
<1>3. ASSUME NEW x \in Nat, NEW y \in Nat, y < x PROVE <<y, x>> \in R
  <2>1. <<y, x>>[1] < <<y, x>>[2]
    BY <1>3, Zenon
  <2>2. <<y, x>> \in Nat \X Nat
    OBVIOUS
  <2> QED
    BY <2>1, <2>2, Zenon
<1> HIDE DEF R
<1>4. PICK x \in T : \A y \in T : ~(<<y, x>> \in R)
  BY <1>2, WFMin
<1>5. ASSUME NEW y \in T PROVE x <= y
  <2>1. x \in Nat /\ y \in Nat
    OBVIOUS
  <2>2. ~(y < x)
    BY <1>3, <1>4, <2>1, Zenon
  <2> QED
    BY <2>1, <2>2
<1> QED
  BY <1>5

-----------------------------------------------------------------------------
(* Sorting. *)

StrictOrder(S, R) ==
  /\ \A x \in S : <<x, x>> \notin R
  /\ \A x, y \in S : x = y \/ <<x, y>> \in R \/ <<y, x>> \in R
  /\ \A x, y, z \in S : <<x, y>> \in R /\ <<y, z>> \in R => <<x, z>> \in R

\* q holds the elements of S in the order R.
InSequence(q, S, R) ==
  /\ q \in Seq(S) /\ Len(q) = Cardinality(S)
  /\ \A x \in S : \E i \in 1..Len(q) : q[i] = x
  /\ \A i, j \in 1..Len(q) : i < j => <<q[i], q[j]>> \in R

\* A function on 1..n is a sequence.
LEMMA FcnIsSeq ==
  ASSUME NEW S, NEW n \in Nat, NEW q \in [1..n -> S]
  PROVE  q \in Seq(S) /\ Len(q) = n
<1>1. q \in Seq(S)
  BY SeqDef
<1>2. PICK m \in Nat : m = Len(q) /\ 1..m = 1..n
  BY <1>1, LenProperties
<1>3. m = n
  <2>1. \A i \in Nat : (1 <= i /\ i <= m) <=> (1 <= i /\ i <= n)
    BY <1>2
  <2> QED
    BY <2>1
<1> QED
  BY <1>1, <1>2, <1>3

\* The elements of a finite set by the number of those before them.
LEMMA RankOrder ==
  ASSUME NEW S, IsFiniteSet(S), NEW R, StrictOrder(S, R), NEW q,
         q = [i \in 1..Cardinality(S) |-> q[i]],
         \A i \in 1..Cardinality(S) : \A x \in S : Cardinality({y \in S : <<y, x>> \in R}) = i - 1 =>
           q[i] \in S /\ Cardinality({y \in S : <<y, q[i]>> \in R}) = i - 1
  PROVE  InSequence(q, S, R)
<1> DEFINE n == Cardinality(S)
           Pred(x) == {y \in S : <<y, x>> \in R}
           Rank(x) == Cardinality(Pred(x))
<1>1. n \in Nat
  BY FS_CardinalityType
<1>2. \A x \in S : Pred(x) \in SUBSET S /\ x \notin Pred(x) /\ IsFiniteSet(Pred(x))
  BY FS_Subset DEF StrictOrder
<1>3. \A x \in S : Rank(x) \in 0..(n - 1)
  <2> SUFFICES ASSUME NEW x \in S PROVE Rank(x) \in 0..(n - 1)
    OBVIOUS
  <2>1. Rank(x) \in Nat
    BY <1>2, FS_CardinalityType
  <2>2. Rank(x) <= n /\ (Rank(x) = n => Pred(x) = S)
    <3> HIDE DEF Pred
    <3> QED
      BY <1>2, FS_Subset
  <2>3. Rank(x) # n
    BY <2>2, <1>2
  <2> HIDE DEF n, Rank
  <2> QED
    BY <2>1, <2>2, <2>3, <1>1
<1>4. ASSUME NEW x \in S, NEW y \in S, <<x, y>> \in R PROVE Rank(x) < Rank(y)
  <2>1. Pred(x) \subseteq Pred(y) /\ x \in Pred(y)
    BY <1>4 DEF StrictOrder
  <2>2. Pred(x) # Pred(y)
    BY <2>1, <1>2
  <2> HIDE DEF Pred
  <2>3. Rank(x) <= Rank(y) /\ Rank(x) # Rank(y)
    BY <2>1, <2>2, <1>2, FS_Subset
  <2> QED
    BY <2>3, <1>2, FS_CardinalityType
<1> HIDE DEF Rank
<1>5. \A x, y \in S : Rank(x) = Rank(y) => x = y
  <2> SUFFICES ASSUME NEW x \in S, NEW y \in S, x # y, Rank(x) = Rank(y) PROVE FALSE
    OBVIOUS
  <2>1. <<x, y>> \in R \/ <<y, x>> \in R
    BY DEF StrictOrder
  <2>2. Rank(x) < Rank(y) \/ Rank(y) < Rank(x)
    BY <2>1, <1>4
  <2>3. Rank(x) \in 0..(n - 1) /\ Rank(y) \in 0..(n - 1)
    BY <1>3
  <2> HIDE DEF n
  <2> QED
    BY <2>2, <2>3, <1>1
<1>6. \A k \in 0..(n - 1) : \E x \in S : Rank(x) = k
  <2> DEFINE f == [x \in S |-> Rank(x)]
             T == {Rank(x) : x \in S}
  <2>1. f \in Bijection(S, T)
    <3>1. f \in [S -> T]
      OBVIOUS
    <3>2. \A a, b \in S : f[a] = f[b] => a = b
      BY <1>5
    <3>3. \A t \in T : \E x \in S : f[x] = t
      OBVIOUS
    <3> QED
      BY <3>1, <3>2, <3>3 DEF Bijection, Injection, Surjection, IsInjective
  <2>2. IsFiniteSet(T) /\ Cardinality(T) = n
    <3> HIDE DEF f, T
    <3> QED
      BY <2>1, FS_Bijection DEF ExistsBijection
  <2>3. T \subseteq 0..(n - 1)
    BY <1>3
  <2>4. IsFiniteSet(0..(n - 1)) /\ Cardinality(0..(n - 1)) = n
    <3> HIDE DEF n
    <3>1. 0 \in Int /\ n - 1 \in Int
      BY <1>1
    <3>2. IsFiniteSet(0..(n - 1)) /\ Cardinality(0..(n - 1)) = IF 0 > n - 1 THEN 0 ELSE (n - 1) - 0 + 1
      BY <3>1, FS_Interval
    <3> QED
      BY <3>2, <1>1
  <2>5. T = 0..(n - 1)
    <3> HIDE DEF T, n
    <3> QED
      BY <2>2, <2>3, <2>4, FS_Subset
  <2> QED
    BY <2>5
<1>7. \A i \in 1..n : \A x \in S : Rank(x) = i - 1 => q[i] \in S /\ Rank(q[i]) = i - 1
  BY DEF Rank
<1>8. q = [i \in 1..n |-> q[i]]
  OBVIOUS
<1>9. \A i \in 1..n : q[i] \in S /\ Rank(q[i]) = i - 1
  <2> SUFFICES ASSUME NEW i \in 1..n PROVE q[i] \in S /\ Rank(q[i]) = i - 1
    OBVIOUS
  <2>1. i - 1 \in 0..(n - 1)
    BY <1>1
  <2>2. \E x \in S : Rank(x) = i - 1
    BY <2>1, <1>6
  <2> QED
    BY <2>2, <1>7
<1> HIDE DEF n
<1>10. q \in Seq(S) /\ Len(q) = n
  <2>1. q \in [1..n -> S]
    BY <1>8, <1>9
  <2> QED
    BY <2>1, <1>1, FcnIsSeq
<1>11. ASSUME NEW x \in S PROVE \E i \in 1..n : q[i] = x
  <2>1. PICK k \in 0..(n - 1) : k = Rank(x)
    BY <1>3
  <2>2. PICK i \in 1..n : i - 1 = k
    <3>1. k + 1 \in 1..n /\ (k + 1) - 1 = k
      BY <1>1
    <3> QED
      BY <3>1
  <2>3. q[i] \in S /\ Rank(q[i]) = Rank(x)
    BY <2>1, <2>2, <1>9
  <2> QED
    BY <2>2, <2>3, <1>5
<1>12. ASSUME NEW i \in 1..n, NEW j \in 1..n, i < j PROVE <<q[i], q[j]>> \in R
  <2>1. Rank(q[i]) = i - 1 /\ Rank(q[j]) = j - 1 /\ q[i] \in S /\ q[j] \in S
    BY <1>9
  <2>2. q[i] # q[j]
    BY <2>1, <1>12, <1>1
  <2>3. ~(<<q[j], q[i]>> \in R)
    <3>1. <<q[j], q[i]>> \in R => Rank(q[j]) < Rank(q[i])
      BY <2>1, <1>4
    <3> QED
      BY <3>1, <2>1, <1>1, <1>12
  <2> QED
    BY <2>1, <2>2, <2>3 DEF StrictOrder
<1> QED
  BY <1>10, <1>11, <1>12 DEF InSequence, n

-----------------------------------------------------------------------------
(* Entries and files. *)

\* Entries have different sequence numbers.
EntriesOK(H) ==
  H \subseteq Entry /\ IsFiniteSet(H) /\ \A e, g \in H : e.seq = g.seq => e = g

\* A file of entries of H, with its bounds.
FileIs(f, H) ==
  /\ f.number \in Nat /\ f.entries \subseteq H
  /\ f.smallest \in f.entries /\ f.largest \in f.entries
  /\ \A e \in f.entries : ~Before(e, f.smallest) /\ ~Before(f.largest, e)

FilesAre(S, H) ==
  /\ IsFiniteSet(S) /\ \A f \in S : FileIs(f, H)
  /\ \A f, g \in S : f.number = g.number => f = g

\* Internal keys are ordered.
LEMMA EntryOrder ==
  ASSUME NEW H, EntriesOK(H)
  PROVE  /\ \A e \in H : e.key \in Nat /\ e.seq \in Nat /\ e.key \in Key /\ e.seq \in 1..MaxSeq
         /\ \A e \in H : ~Before(e, e)
         /\ \A e, g \in H : Before(e, g) => ~Before(g, e)
         /\ \A e, g \in H : e = g \/ Before(e, g) \/ Before(g, e)
         /\ \A e, g, h \in H : Before(e, g) /\ Before(g, h) => Before(e, h)
<1>1. \A e \in H : e.key \in Nat /\ e.seq \in Nat /\ e.key \in Key /\ e.seq \in 1..MaxSeq
  BY VersionAssumption DEF EntriesOK, Entry, Key
<1>2. \A e \in H : ~Before(e, e)
  BY <1>1 DEF Before
<1>3. \A e, g \in H : Before(e, g) => ~Before(g, e)
  BY <1>1 DEF Before
<1>4. \A e, g \in H : e = g \/ Before(e, g) \/ Before(g, e)
  <2>1. \A e, g \in H : e.seq = g.seq => e = g
    BY DEF EntriesOK
  <2> QED
    BY <1>1, <2>1 DEF Before
<1>5. \A e, g, h \in H : Before(e, g) /\ Before(g, h) => Before(e, h)
  BY <1>1 DEF Before
<1> QED
  BY <1>1, <1>2, <1>3, <1>4, <1>5

\* The merged inputs of a compaction.
LEMMA EntriesInOrder ==
  ASSUME NEW H, EntriesOK(H), NEW E \in SUBSET H
  PROVE  LET q == InOrder(E, Before)
         IN /\ q \in Seq(E) /\ Len(q) = Cardinality(E) /\ IsFiniteSet(E)
            /\ \A x \in E : \E i \in 1..Len(q) : q[i] = x
            /\ \A i, j \in 1..Len(q) : i < j => Before(q[i], q[j])
<1> DEFINE R == {p \in E \X E : Before(p[1], p[2])}
           q == InOrder(E, Before)
<1>1. \A x, y \in E : <<x, y>> \in R <=> Before(x, y)
  OBVIOUS
<1>2. \A x, y, z \in E : /\ ~Before(x, x) /\ (x = y \/ Before(x, y) \/ Before(y, x))
                         /\ (Before(x, y) /\ Before(y, z) => Before(x, z))
  BY EntryOrder
<1> HIDE DEF R
<1>3. StrictOrder(E, R)
  BY <1>1, <1>2 DEF StrictOrder
<1>4. \A x \in E : {y \in E : Before(y, x)} = {y \in E : <<y, x>> \in R}
  BY <1>1
<1>5. /\ q = [i \in 1..Cardinality(E) |-> q[i]]
      /\ \A i \in 1..Cardinality(E) : \A x \in E : Cardinality({y \in E : <<y, x>> \in R}) = i - 1 =>
           q[i] \in E /\ Cardinality({y \in E : <<y, q[i]>> \in R}) = i - 1
  <2> DEFINE Rank(x) == Cardinality({y \in E : Before(y, x)})
  <2>1. q = [i \in 1..Cardinality(E) |-> CHOOSE x \in E : Rank(x) = i - 1]
    BY DEF InOrder
  <2>2. \A x \in E : Rank(x) = Cardinality({y \in E : <<y, x>> \in R})
    BY <1>4
  <2> HIDE DEF q, Rank
  <2>3. \A i \in 1..Cardinality(E) : \A x \in E : Rank(x) = i - 1 => q[i] \in E /\ Rank(q[i]) = i - 1
    BY <2>1
  <2>4. q = [i \in 1..Cardinality(E) |-> q[i]]
    BY <2>1
  <2> QED
    BY <2>2, <2>3, <2>4
<1>6. IsFiniteSet(E)
  BY FS_Subset DEF EntriesOK
<1> HIDE DEF q
<1>7. InSequence(q, E, R)
  BY <1>3, <1>5, <1>6, RankOrder
<1>8. q \in Seq(E) /\ Len(q) = Cardinality(E) /\ \A x \in E : \E i \in 1..Len(q) : q[i] = x
  BY <1>7 DEF InSequence
<1>9. ASSUME NEW i \in 1..Len(q), NEW j \in 1..Len(q), i < j PROVE Before(q[i], q[j])
  <2>1. q[i] \in E /\ q[j] \in E
    BY <1>8, ElementOfSeq
  <2>2. <<q[i], q[j]>> \in R
    BY <1>7, <1>9 DEF InSequence
  <2> QED
    BY <1>1, <2>1, <2>2
<1> QED
  BY <1>6, <1>8, <1>9 DEF q

\* The bounds of a table.
LEMMA Bounds ==
  ASSUME NEW H, EntriesOK(H), NEW E \in SUBSET H, E # {}
  PROVE  /\ First(E) \in E /\ Final(E) \in E
         /\ \A e \in E : ~Before(e, First(E)) /\ ~Before(Final(E), e)
<1> DEFINE q == InOrder(E, Before)
           n == Len(q)
<1>1. /\ q \in Seq(E) /\ n \in Nat
      /\ \A x \in E : \E i \in 1..n : q[i] = x
      /\ \A i, j \in 1..n : i < j => Before(q[i], q[j])
  <2>1. /\ q \in Seq(E)
        /\ \A x \in E : \E i \in 1..Len(q) : q[i] = x
        /\ \A i, j \in 1..Len(q) : i < j => Before(q[i], q[j])
    BY EntriesInOrder
  <2> HIDE DEF q
  <2> QED
    BY <2>1, LenProperties
<1> HIDE DEF q, n
<1>2. n >= 1 /\ 1 \in 1..n /\ n \in 1..n
  BY <1>1
<1>3. \A i \in 1..n : q[i] \in E
  BY <1>1, ElementOfSeq DEF n
<1>4. ASSUME NEW e \in E PROVE ~Before(e, q[1]) /\ ~Before(q[n], e)
  <2>1. PICK i \in 1..n : q[i] = e
    BY <1>1
  <2>2. i = 1 \/ Before(q[1], e)
    BY <2>1, <1>1, <1>2
  <2>3. i = n \/ Before(e, q[n])
    BY <2>1, <1>1, <1>2
  <2> QED
    BY <2>1, <2>2, <2>3, <1>2, <1>3, EntryOrder
<1>5. First(E) \in E /\ \A e \in E : ~Before(e, First(E))
  <2>1. \E x \in E : \A e \in E : ~Before(e, x)
    BY <1>2, <1>3, <1>4
  <2> QED
    BY <2>1 DEF First
<1>6. Final(E) \in E /\ \A e \in E : ~Before(Final(E), e)
  <2>1. \E x \in E : \A e \in E : ~Before(x, e)
    BY <1>2, <1>3, <1>4
  <2> QED
    BY <2>1 DEF Final
<1> QED
  BY <1>5, <1>6

\* Builder: the tables that are written have their bounds.
LEMMA TableIsFile ==
  ASSUME NEW H, EntriesOK(H), NEW E \in SUBSET H, E # {}, NEW n \in Nat
  PROVE  FileIs(FileMetaData(n, E), H) /\ FileMetaData(n, E).number = n
         /\ FileMetaData(n, E).entries = E
<1> DEFINE f == FileMetaData(n, E)
<1>1. f.number = n /\ f.entries = E /\ f.smallest = First(E) /\ f.largest = Final(E)
  BY DEF FileMetaData
<1> HIDE DEF f
<1>2. FileIs(f, H)
  BY <1>1, Bounds DEF FileIs
<1> QED
  BY <1>1, <1>2 DEF f

\* The files of a level in their order.
LEMMA FilesInOrder ==
  ASSUME NEW H, EntriesOK(H), NEW S, FilesAre(S, H)
  PROVE  LET q == FileOrder(S)
         IN /\ q \in Seq(S) /\ Len(q) = Cardinality(S) /\ ToSet(q) = S
            /\ DOMAIN q = 1..Len(q) /\ \A i \in 1..Len(q) : q[i] \in S
            /\ \A i, j \in 1..Len(q) : i < j => BySmallestKey(q[i], q[j])
<1> DEFINE R == {p \in S \X S : BySmallestKey(p[1], p[2])}
           q == FileOrder(S)
<1>1. \A x, y \in S : <<x, y>> \in R <=> BySmallestKey(x, y)
  OBVIOUS
<1>2. \A f \in S : f.smallest \in H /\ f.number \in Nat
  BY DEF FilesAre, FileIs
<1>3. \A f, g \in S : f.number = g.number => f = g
  BY DEF FilesAre
<1>4. \A x \in S : ~BySmallestKey(x, x)
  BY <1>2, EntryOrder DEF BySmallestKey
<1>5. \A x, y \in S : x = y \/ BySmallestKey(x, y) \/ BySmallestKey(y, x)
  <2> SUFFICES ASSUME NEW x \in S, NEW y \in S, x # y
               PROVE  BySmallestKey(x, y) \/ BySmallestKey(y, x)
    OBVIOUS
  <2>1. x.number < y.number \/ y.number < x.number
    BY <1>2, <1>3
  <2>2. x.smallest = y.smallest \/ Before(x.smallest, y.smallest) \/ Before(y.smallest, x.smallest)
    BY <1>2, EntryOrder
  <2> QED
    BY <2>1, <2>2 DEF BySmallestKey
<1>6. \A x, y, z \in S : BySmallestKey(x, y) /\ BySmallestKey(y, z) => BySmallestKey(x, z)
  <2> SUFFICES ASSUME NEW x \in S, NEW y \in S, NEW z \in S, BySmallestKey(x, y), BySmallestKey(y, z)
               PROVE  BySmallestKey(x, z)
    OBVIOUS
  <2>1. x.number \in Nat /\ y.number \in Nat /\ z.number \in Nat
    BY <1>2
  <2>2. x.number < y.number /\ y.number < z.number => x.number < z.number
    BY <2>1
  <2>3. Before(x.smallest, y.smallest) /\ Before(y.smallest, z.smallest) => Before(x.smallest, z.smallest)
    BY <1>2, EntryOrder
  <2> QED
    BY <2>2, <2>3 DEF BySmallestKey
<1> HIDE DEF R
<1>7. StrictOrder(S, R)
  BY <1>1, <1>4, <1>5, <1>6 DEF StrictOrder
<1>8. \A x \in S : {y \in S : BySmallestKey(y, x)} = {y \in S : <<y, x>> \in R}
  BY <1>1
<1>9. /\ q = [i \in 1..Cardinality(S) |-> q[i]]
      /\ \A i \in 1..Cardinality(S) : \A x \in S : Cardinality({y \in S : <<y, x>> \in R}) = i - 1 =>
           q[i] \in S /\ Cardinality({y \in S : <<y, q[i]>> \in R}) = i - 1
  <2> DEFINE Rank(x) == Cardinality({y \in S : BySmallestKey(y, x)})
  <2>1. q = [i \in 1..Cardinality(S) |-> CHOOSE x \in S : Rank(x) = i - 1]
    BY DEF FileOrder, InOrder
  <2>2. \A x \in S : Rank(x) = Cardinality({y \in S : <<y, x>> \in R})
    BY <1>8
  <2> HIDE DEF q, Rank
  <2>3. \A i \in 1..Cardinality(S) : \A x \in S : Rank(x) = i - 1 => q[i] \in S /\ Rank(q[i]) = i - 1
    BY <2>1
  <2>4. q = [i \in 1..Cardinality(S) |-> q[i]]
    BY <2>1
  <2> QED
    BY <2>2, <2>3, <2>4
<1> HIDE DEF q
<1>10. InSequence(q, S, R)
  BY <1>7, <1>9, RankOrder DEF FilesAre
<1>11. q \in Seq(S) /\ Len(q) = Cardinality(S) /\ \A x \in S : \E i \in 1..Len(q) : q[i] = x
  BY <1>10 DEF InSequence
<1>12. DOMAIN q = 1..Len(q) /\ \A i \in 1..Len(q) : q[i] \in S
  BY <1>11, ElementOfSeq, LenProperties
<1>13. ToSet(q) = S
  BY <1>11, <1>12 DEF ToSet
<1>14. ASSUME NEW i \in 1..Len(q), NEW j \in 1..Len(q), i < j PROVE BySmallestKey(q[i], q[j])
  <2>1. <<q[i], q[j]>> \in R
    BY <1>10, <1>14 DEF InSequence
  <2> QED
    BY <1>1, <1>12, <2>1
<1> QED
  BY <1>11, <1>12, <1>13, <1>14 DEF q

-----------------------------------------------------------------------------
(* Recursion. *)

IsAFcn(f, D) == f = [r \in D |-> f[r]]
IsSearch(f, D, T, val, nx) ==
  IsAFcn(f, D) /\ \A r \in D : f[r] = IF r \in T THEN val[r] ELSE f[nx[r]]
IsLoop(f, n, V, v0, step) ==
  /\ IsAFcn(f, 0..n)
  /\ \A i \in 0..n : f[i] \in V /\ f[i] = IF i = 0 THEN v0 ELSE step[i][f[i - 1]]

\* A search whose turns have ever smaller ranges is defined.
LEMMA SearchDefined ==
  ASSUME NEW D, NEW N \in Nat, NEW m \in [D -> 0..N], NEW nx \in [D -> D], NEW T, NEW val,
         \A r \in D : r \notin T => m[nx[r]] < m[r]
  PROVE  \E f : IsSearch(f, D, T, val, nx)
<1> DEFINE Turn(f, r) == IF r \in T THEN val[r] ELSE f[nx[r]]
           Upto(f, k) == \A r \in D : m[r] < k => f[r] = Turn(f, r)
           Bad == {k \in Nat : ~\E f : f = [r \in D |-> f[r]] /\ Upto(f, k)}
<1>1. ASSUME NEW f, NEW g, NEW k \in Nat, NEW r \in D, m[r] < k + 1,
             \A p \in D : m[p] < k => g[p] = f[p]
      PROVE  Turn(g, r) = Turn(f, r)
  <2>1. CASE r \in T
    BY <2>1
  <2>2. CASE r \notin T
    <3>1. m[nx[r]] \in 0..N /\ m[r] \in 0..N /\ nx[r] \in D
      OBVIOUS
    <3>2. m[nx[r]] < k
      BY <3>1, <2>2, <1>1
    <3> QED
      BY <3>1, <3>2, <2>2, <1>1
  <2> QED
    BY <2>1, <2>2
<1> HIDE DEF Turn
<1>2. 0 \notin Bad
  <2> DEFINE f == [r \in D |-> Turn(D, r)]
  <2>1. f = [r \in D |-> f[r]] /\ Upto(f, 0)
    OBVIOUS
  <2> QED
    BY <2>1
<1>3. ASSUME NEW k \in Nat, k \notin Bad PROVE k + 1 \notin Bad
  <2>1. PICK f : f = [r \in D |-> f[r]] /\ Upto(f, k)
    BY <1>3
  <2> DEFINE g == [r \in D |-> Turn(f, r)]
  <2>2. \A p \in D : m[p] < k => g[p] = f[p]
    BY <2>1
  <2>3. ASSUME NEW r \in D, m[r] < k + 1 PROVE g[r] = Turn(g, r)
    <3> HIDE DEF g
    <3>1. Turn(g, r) = Turn(f, r)
      BY <2>2, <2>3, <1>1
    <3> QED
      BY <3>1 DEF g
  <2>4. g = [r \in D |-> g[r]] /\ Upto(g, k + 1)
    BY <2>3
  <2> QED
    BY <2>4
<1>4. Bad = {}
  <2> SUFFICES ASSUME Bad # {} PROVE FALSE
    OBVIOUS
  <2>1. PICK k \in Bad : \A j \in Bad : k <= j
    <3>1. Bad \in SUBSET Nat
      OBVIOUS
    <3> HIDE DEF Bad
    <3> QED
      BY <3>1, LeastNat
  <2>2. k \in Nat /\ k # 0
    BY <1>2
  <2> HIDE DEF Bad
  <2>3. k - 1 \in Nat /\ k - 1 \notin Bad
    BY <2>1, <2>2
  <2> QED
    BY <2>1, <2>2, <2>3, <1>3
<1>5. PICK f : f = [r \in D |-> f[r]] /\ Upto(f, N + 1)
  <2>1. N + 1 \in Nat /\ N + 1 \notin Bad
    BY <1>4
  <2> HIDE DEF Upto
  <2> QED
    BY <2>1
<1>6. \A r \in D : m[r] < N + 1
  OBVIOUS
<1>7. \A r \in D : f[r] = Turn(f, r)
  BY <1>5, <1>6
<1> QED
  BY <1>5, <1>7 DEF Turn, IsAFcn, IsSearch

\* A loop of n turns over values of V is defined.
LEMMA LoopDefined ==
  ASSUME NEW V, NEW n \in Nat, NEW v0 \in V, NEW step \in [1..n -> [V -> V]]
  PROVE  \E f : IsLoop(f, n, V, v0, step)
<1> DEFINE Turn(f, i) == IF i = 0 THEN v0 ELSE step[i][f[i - 1]]
           Upto(f, k) == \A i \in 0..n : i < k => f[i] = Turn(f, i) /\ f[i] \in V
           Bad == {k \in Nat : ~\E f : f = [i \in 0..n |-> f[i]] /\ Upto(f, k)}
<1>1. ASSUME NEW f, NEW g, NEW k \in Nat, NEW i \in 0..n, i < k + 1,
             Upto(f, k), \A p \in 0..n : p < k => g[p] = f[p]
      PROVE  Turn(g, i) = Turn(f, i) /\ Turn(f, i) \in V
  <2>1. CASE i = 0
    BY <2>1
  <2>2. CASE i # 0
    <3>1. i - 1 \in 0..n /\ i - 1 < k /\ i \in 1..n
      BY <2>2, <1>1
    <3>2. g[i - 1] = f[i - 1] /\ f[i - 1] \in V
      BY <3>1, <1>1
    <3>3. step[i] \in [V -> V]
      BY <3>1
    <3>4. step[i][f[i - 1]] \in V
      BY <3>2, <3>3
    <3> QED
      BY <3>2, <3>4, <2>2
  <2> QED
    BY <2>1, <2>2
<1> HIDE DEF Turn
<1>2. 0 \notin Bad
  <2> DEFINE f == [i \in 0..n |-> 0]
  <2>1. f = [i \in 0..n |-> f[i]] /\ Upto(f, 0)
    OBVIOUS
  <2> QED
    BY <2>1
<1>3. ASSUME NEW k \in Nat, k \notin Bad PROVE k + 1 \notin Bad
  <2>1. PICK f : f = [i \in 0..n |-> f[i]] /\ Upto(f, k)
    BY <1>3
  <2> DEFINE g == [i \in 0..n |-> Turn(f, i)]
  <2>2. \A p \in 0..n : p < k => g[p] = f[p]
    BY <2>1
  <2>3. ASSUME NEW i \in 0..n, i < k + 1 PROVE g[i] = Turn(g, i) /\ g[i] \in V
    <3>1. g[i] = Turn(f, i)
      OBVIOUS
    <3> HIDE DEF g, Upto
    <3>2. Turn(g, i) = Turn(f, i) /\ Turn(f, i) \in V
      BY <2>1, <2>2, <2>3, <1>1
    <3> QED
      BY <3>1, <3>2
  <2>4. g = [i \in 0..n |-> g[i]] /\ Upto(g, k + 1)
    BY <2>3
  <2> QED
    BY <2>4
<1>4. Bad = {}
  <2> SUFFICES ASSUME Bad # {} PROVE FALSE
    OBVIOUS
  <2>1. PICK k \in Bad : \A j \in Bad : k <= j
    <3>1. Bad \in SUBSET Nat
      OBVIOUS
    <3> HIDE DEF Bad
    <3> QED
      BY <3>1, LeastNat
  <2>2. k \in Nat /\ k # 0
    BY <1>2
  <2> HIDE DEF Bad
  <2>3. k - 1 \in Nat /\ k - 1 \notin Bad
    BY <2>1, <2>2
  <2> QED
    BY <2>1, <2>2, <2>3, <1>3
<1>5. PICK f : f = [i \in 0..n |-> f[i]] /\ Upto(f, n + 1)
  <2>1. n + 1 \in Nat /\ n + 1 \notin Bad
    BY <1>4
  <2> HIDE DEF Upto
  <2> QED
    BY <2>1
<1>6. \A i \in 0..n : f[i] = Turn(f, i) /\ f[i] \in V
  BY <1>5
<1> QED
  BY <1>5, <1>6 DEF Turn, IsAFcn, IsLoop

\* A property of the values of a loop that every turn keeps.
LEMMA LoopKeeps ==
  ASSUME NEW V, NEW n \in Nat, NEW f, f[0] \in V,
         \A i \in 1..n : f[i - 1] \in V => f[i] \in V
  PROVE  \A i \in 0..n : f[i] \in V
<1> DEFINE Bad == {i \in 0..n : f[i] \notin V}
<1>1. Bad \in SUBSET Nat
  OBVIOUS
<1>2. ASSUME NEW i \in Bad, \A j \in Bad : i <= j PROVE FALSE
  <2>1. i \in 1..n /\ i - 1 \in 0..n /\ i - 1 < i
    BY <1>2
  <2>2. f[i - 1] \in V
    BY <2>1, <1>2
  <2> QED
    BY <2>1, <2>2, <1>2
<1>3. Bad = {}
  <2> HIDE DEF Bad
  <2> QED
    BY <1>1, <1>2, LeastNat
<1> QED
  BY <1>3

-----------------------------------------------------------------------------
(* FindFile and GetOverlappingInputs. *)

\* The turns of the binary search that follow have smaller ranges.
LEMMA SearchShrinks ==
  ASSUME NEW n \in Nat, NEW a \in 0..n, NEW b \in 0..n, a < b, NEW mid, mid = (a + b) \div 2
  PROVE  /\ mid \in a..(b - 1) /\ mid + 1 \in 0..n /\ mid \in 0..n /\ mid + 1 <= b
         /\ b - (mid + 1) < b - a /\ mid - a < b - a
OBVIOUS

\* The largest keys of the files are in order, as seen from key.
Sorted(files, key) ==
  \A i, j \in 1..Len(files) :
    i < j /\ Before(files[j].largest, key) => Before(files[i].largest, key)

\* The search ends, with an index of a file or one past the last; all files it
\* skips are before the key.
LEMMA FindFileIndex ==
  ASSUME NEW files, NEW key, Len(files) \in Nat
  PROVE  /\ FindFile(files, key) \in 1..(Len(files) + 1)
         /\ Sorted(files, key) =>
              \A i \in 1..(FindFile(files, key) - 1) : Before(files[i].largest, key)
         /\ FindFile(files, key) <= Len(files) => ~Before(files[FindFile(files, key)].largest, key)
<1>1. PICK n \in Nat : n = Len(files)
  OBVIOUS
<1> DEFINE D == (0..n) \X (0..n)
           Mid(r) == (r[1] + r[2]) \div 2
           Left(r) == Before(files[Mid(r) + 1].largest, key)
           Turn(f, r) == IF r[1] >= r[2] THEN r[2]
                         ELSE IF Left(r) THEN f[<<Mid(r) + 1, r[2]>>] ELSE f[<<r[1], Mid(r)>>]
           P(f) == f = [r \in D |-> Turn(f, r)]
           T == {r \in D : r[1] >= r[2]}
           nx == [r \in D |-> IF r \in T THEN r ELSE IF Left(r) THEN <<Mid(r) + 1, r[2]>> ELSE <<r[1], Mid(r)>>]
           m == [r \in D |-> IF r \in T THEN 0 ELSE r[2] - r[1]]
           val == [r \in D |-> r[2]]
<1>2. ASSUME NEW r \in D, r \notin T
      PROVE  /\ <<Mid(r) + 1, r[2]>> \in D /\ <<r[1], Mid(r)>> \in D
             /\ r[2] - (Mid(r) + 1) < r[2] - r[1] /\ Mid(r) - r[1] < r[2] - r[1]
             /\ Mid(r) + 1 <= r[2] /\ r[1] <= Mid(r) /\ r[1] \in 0..n /\ r[2] \in 0..n /\ Mid(r) \in 0..n
  <2>1. PICK a \in 0..n, b \in 0..n : r = <<a, b>> /\ r[1] = a /\ r[2] = b
    OBVIOUS
  <2>2. a < b
    BY <2>1, <1>2
  <2>3. PICK mid : mid = (a + b) \div 2 /\ mid = Mid(r)
    BY <2>1
  <2>4. /\ mid \in a..(b - 1) /\ mid + 1 \in 0..n /\ mid \in 0..n /\ mid + 1 <= b
        /\ b - (mid + 1) < b - a /\ mid - a < b - a
    BY <2>2, <2>3, SearchShrinks
  <2> HIDE DEF Mid
  <2> QED
    BY <2>1, <2>3, <2>4
<1> HIDE DEF Mid, Left
<1>3. nx \in [D -> D]
  BY <1>2
<1>4. m \in [D -> 0..n] /\ \A r \in D : m[r] = IF r \in T THEN 0 ELSE r[2] - r[1]
  <2>1. ASSUME NEW r \in D PROVE (IF r \in T THEN 0 ELSE r[2] - r[1]) \in 0..n
    BY <1>2
  <2> QED
    BY <2>1
<1>5. ASSUME NEW r \in D, r \notin T PROVE m[nx[r]] < m[r]
  <2>1. nx[r] \in D /\ m[r] = r[2] - r[1] /\ r[2] - r[1] > 0
    BY <1>2, <1>3, <1>4, <1>5
  <2>2. m[nx[r]] = IF nx[r] \in T THEN 0 ELSE nx[r][2] - nx[r][1]
    BY <2>1, <1>4
  <2>3. nx[r] = IF Left(r) THEN <<Mid(r) + 1, r[2]>> ELSE <<r[1], Mid(r)>>
    BY <1>5
  <2>4. nx[r][2] - nx[r][1] < r[2] - r[1]
    <3>1. CASE Left(r)
      <4>1. nx[r] = <<Mid(r) + 1, r[2]>>
        BY <2>3, <3>1
      <4>2. nx[r][1] = Mid(r) + 1 /\ nx[r][2] = r[2]
        BY <4>1
      <4> QED
        BY <4>2, <1>2, <1>5
    <3>2. CASE ~Left(r)
      <4>1. nx[r] = <<r[1], Mid(r)>>
        BY <2>3, <3>2
      <4>2. nx[r][1] = r[1] /\ nx[r][2] = Mid(r)
        BY <4>1
      <4> QED
        BY <4>2, <1>2, <1>5
    <3> QED
      BY <3>1, <3>2
  <2> QED
    BY <2>1, <2>2, <2>4
<1>6. \E f : P(f)
  <2>1. PICK f : IsSearch(f, D, T, val, nx)
    <3> HIDE DEF D, m, nx, T, val
    <3>1. m \in [D -> 0..n] /\ \A r \in D : r \notin T => m[nx[r]] < m[r]
      BY <1>4, <1>5
    <3> QED
      BY <1>3, <3>1, SearchDefined
  <2>2. ASSUME NEW r \in D PROVE (IF r \in T THEN val[r] ELSE f[nx[r]]) = Turn(f, r)
    OBVIOUS
  <2>3. f = [r \in D |-> Turn(f, r)]
    <3> HIDE DEF Turn, T, val, nx
    <3> QED
      BY <2>1, <2>2 DEF IsAFcn, IsSearch
  <2> QED
    BY <2>3
<1>7. PICK f : P(f) /\ FindFile(files, key) = f[<<0, n>>] + 1
  <2>1. FindFile(files, key) = (CHOOSE f : P(f))[<<0, n>>] + 1
    BY <1>1, Zenon DEF FindFile, Mid, Left
  <2> HIDE DEF P
  <2>2. P(CHOOSE f : P(f))
    BY <1>6, Zenon
  <2> QED
    BY <2>1, <2>2
<1>8. \A r \in D : f[r] = IF r \in T THEN r[2] ELSE f[nx[r]]
  BY <1>7
<1> DEFINE B(i) == Before(files[i].largest, key)
           Skipped(x) == \A i \in 1..x : B(i)
           Stop(x) == x < n => ~B(x + 1)
           Good(r) == /\ f[r] \in 0..n
                      /\ r[1] <= r[2] /\ Stop(r[2]) => Stop(f[r])
                      /\ Sorted(files, key) /\ r[1] <= r[2] /\ Skipped(r[1]) => Skipped(f[r])
           Bad == {k \in 0..n : \E r \in D : m[r] = k /\ ~Good(r)}
<1>8a. \A r \in D : r[1] \in 0..n /\ r[2] \in 0..n /\ (r \in T <=> r[1] >= r[2])
  OBVIOUS
<1>8b. ASSUME NEW r \in D, r \notin T, Good(nx[r]) PROVE Good(r)
  <2>1. f[r] = f[nx[r]] /\ f[r] \in 0..n
    BY <1>8, <1>8b
  <2>2. /\ Mid(r) + 1 <= r[2] /\ r[1] <= Mid(r) /\ r[1] \in 0..n /\ r[2] \in 0..n /\ Mid(r) \in 0..n
    BY <1>2, <1>8b
  <2>3. ASSUME Sorted(files, key), Skipped(r[1]) PROVE Skipped(f[r])
    <3>1. CASE Left(r)
      <4>1. nx[r] = <<Mid(r) + 1, r[2]>>
        BY <3>1, <1>8b
      <4>2. nx[r][1] = Mid(r) + 1 /\ nx[r][2] = r[2]
        BY <4>1
      <4>3. B(Mid(r) + 1)
        BY <3>1 DEF Left
      <4>4. Skipped(Mid(r) + 1)
        <5> SUFFICES ASSUME NEW i \in 1..(Mid(r) + 1) PROVE B(i)
          OBVIOUS
        <5>1. i = Mid(r) + 1 \/ i < Mid(r) + 1
          BY <2>2
        <5>2. i \in 1..n /\ Mid(r) + 1 \in 1..n
          BY <2>2
        <5> QED
          BY <5>1, <5>2, <4>3, <2>3, <1>1 DEF Sorted
      <4> HIDE DEF Skipped
      <4> QED
        BY <4>2, <4>4, <2>1, <2>2, <2>3, <1>8b
    <3>2. CASE ~Left(r)
      <4>1. nx[r] = <<r[1], Mid(r)>>
        BY <3>2, <1>8b
      <4>2. nx[r][1] = r[1] /\ nx[r][2] = Mid(r)
        BY <4>1
      <4> HIDE DEF Skipped
      <4> QED
        BY <4>2, <2>1, <2>2, <2>3, <1>8b
    <3> QED
      BY <3>1, <3>2
  <2>4. ASSUME Stop(r[2]) PROVE Stop(f[r])
    <3>1. CASE Left(r)
      <4>1. nx[r] = <<Mid(r) + 1, r[2]>>
        BY <3>1, <1>8b
      <4>2. nx[r][1] = Mid(r) + 1 /\ nx[r][2] = r[2]
        BY <4>1
      <4> HIDE DEF Stop, Skipped
      <4> QED
        BY <4>2, <2>1, <2>2, <2>4, <1>8b
    <3>2. CASE ~Left(r)
      <4>1. nx[r] = <<r[1], Mid(r)>>
        BY <3>2, <1>8b
      <4>2. nx[r][1] = r[1] /\ nx[r][2] = Mid(r)
        BY <4>1
      <4>3. Stop(Mid(r))
        BY <3>2 DEF Left
      <4> HIDE DEF Stop, Skipped
      <4> QED
        BY <4>2, <4>3, <2>1, <2>2, <1>8b
    <3> QED
      BY <3>1, <3>2
  <2> HIDE DEF Stop, Skipped
  <2> QED
    BY <2>1, <2>3, <2>4
<1>8c. ASSUME NEW r \in T PROVE Good(r)
  <2>1. r \in D /\ r[1] \in 0..n /\ r[2] \in 0..n /\ r[1] >= r[2]
    OBVIOUS
  <2>2. f[r] = r[2]
    BY <2>1, <1>8
  <2>3. r[1] <= r[2] => r[1] = r[2]
    BY <2>1
  <2> HIDE DEF Skipped, Stop
  <2> QED
    BY <2>1, <2>2, <2>3
<1>9. ASSUME NEW k \in Bad, \A j \in Bad : k <= j PROVE FALSE
  <2>1. PICK r \in D : m[r] = k /\ ~Good(r)
    OBVIOUS
  <2> HIDE DEF D, m, nx, T, Good
  <2>2. r \notin T /\ ~Good(nx[r])
    BY <2>1, <1>8b, <1>8c
  <2>3. m[nx[r]] < k /\ nx[r] \in D /\ m[nx[r]] \in 0..n
    BY <2>1, <2>2, <1>3, <1>4, <1>5
  <2>4. m[nx[r]] \in Bad
    BY <2>2, <2>3
  <2> QED
    BY <2>3, <2>4, <1>9
<1>10. Bad = {}
  <2>1. Bad \in SUBSET Nat
    OBVIOUS
  <2> HIDE DEF Bad
  <2> QED
    BY <2>1, <1>9, LeastNat
<1>11. Good(<<0, n>>)
  <2>1. <<0, n>> \in D
    OBVIOUS
  <2> HIDE DEF D, m, Good
  <2> QED
    BY <2>1, <1>4, <1>10
<1>12. Skipped(0) /\ Stop(n) /\ <<0, n>>[1] = 0 /\ <<0, n>>[2] = n /\ 0 <= n
  OBVIOUS
<1>13. f[<<0, n>>] \in 0..n /\ (Sorted(files, key) => Skipped(f[<<0, n>>])) /\ Stop(f[<<0, n>>])
  <2> HIDE DEF Skipped, Stop
  <2> QED
    BY <1>11, <1>12
<1>14. /\ (f[<<0, n>>] + 1) - 1 = f[<<0, n>>] /\ f[<<0, n>>] + 1 \in 1..(n + 1)
       /\ f[<<0, n>>] + 1 <= n => f[<<0, n>>] < n
  BY <1>13
<1> QED
  BY <1>1, <1>7, <1>13, <1>14

\* Smallest and greatest of a set of bounded numbers.
LEMMA MinMax ==
  ASSUME NEW N \in Nat, NEW S \in SUBSET (0..N), S # {}
  PROVE  /\ Min(S) \in S /\ \A x \in S : Min(S) <= x
         /\ Max(S) \in S /\ \A x \in S : x <= Max(S)
<1>1. \E x \in S : \A y \in S : x <= y
  <2>1. S \in SUBSET Nat
    OBVIOUS
  <2> QED
    BY <2>1, LeastNat
<1>2. \E x \in S : \A y \in S : y <= x
  <2> DEFINE T == {N - x : x \in S}
  <2>1. T \in SUBSET Nat /\ T # {}
    <3>1. \A x \in S : N - x \in Nat
      OBVIOUS
    <3>2. PICK y \in S : TRUE
      OBVIOUS
    <3>3. N - y \in T
      OBVIOUS
    <3> QED
      BY <3>1, <3>3
  <2>2. PICK t \in T : \A u \in T : t <= u
    <3> HIDE DEF T
    <3> QED
      BY <2>1, LeastNat
  <2>3. PICK x \in S : t = N - x
    BY <2>2
  <2>4. ASSUME NEW y \in S PROVE y <= x
    <3>1. N - y \in T
      OBVIOUS
    <3>2. N - x <= N - y
      BY <3>1, <2>2, <2>3
    <3>3. x \in 0..N /\ y \in 0..N
      OBVIOUS
    <3> QED
      BY <3>2, <3>3
  <2> QED
    BY <2>4
<1>3. Min(S) \in S /\ \A x \in S : Min(S) <= x
  BY <1>1 DEF Min
<1>4. Max(S) \in S /\ \A x \in S : x <= Max(S)
  BY <1>2 DEF Max
<1> QED
  BY <1>3, <1>4

Ranges == (0..NoEnd) \X (0..NoEnd)

\* A range grows when it is extended.
LEMMA ExtendedRangeGrows ==
  ASSUME NEW H, EntriesOK(H), NEW v, NEW l, FilesAre(ToSet(v[l]), H), NEW r \in Ranges
  PROVE  LET x == ExtendedRange(v, l, r)
         IN /\ x \in Ranges /\ x[1] <= r[1] /\ r[2] <= x[2]
            /\ x[1] = r[1] \/ \E f \in InRange(v, l, r[1], r[2]) : f.smallest.key = x[1]
            /\ x[2] = r[2] \/ \E f \in InRange(v, l, r[1], r[2]) : f.largest.key = x[2]
            /\ \A f \in InRange(v, l, r[1], r[2]) : x[1] <= f.smallest.key /\ f.largest.key <= x[2]
<1> DEFINE S == InRange(v, l, r[1], r[2])
           A == {f.smallest.key : f \in S} \cup {r[1]}
           B == {f.largest.key : f \in S} \cup {r[2]}
<1>1. NoEnd \in Nat /\ \A k \in Key : k \in 0..NoEnd
  BY VersionAssumption DEF NoEnd, Key
<1>2. \A f \in ToSet(v[l]) : f.smallest.key \in Key /\ f.largest.key \in Key
  <2> SUFFICES ASSUME NEW f \in ToSet(v[l]) PROVE f.smallest.key \in Key /\ f.largest.key \in Key
    OBVIOUS
  <2>1. f.smallest \in H /\ f.largest \in H
    BY DEF FilesAre, FileIs
  <2> QED
    BY <2>1, EntryOrder
<1>3. r[1] \in 0..NoEnd /\ r[2] \in 0..NoEnd
  BY DEF Ranges
<1>4. A \in SUBSET (0..NoEnd) /\ B \in SUBSET (0..NoEnd)
  BY <1>1, <1>2, <1>3 DEF InRange
<1>5. r[1] \in A /\ r[2] \in B
  OBVIOUS
<1>6. ExtendedRange(v, l, r) = <<Min(A), Max(B)>>
  BY DEF ExtendedRange
<1>5a. /\ \A x \in A : x = r[1] \/ \E f \in S : f.smallest.key = x
       /\ \A x \in B : x = r[2] \/ \E f \in S : f.largest.key = x
       /\ \A f \in S : f.smallest.key \in A /\ f.largest.key \in B
  OBVIOUS
<1> HIDE DEF A, B
<1>7. Min(A) \in 0..NoEnd /\ Max(B) \in 0..NoEnd /\ Min(A) <= r[1] /\ r[2] <= Max(B)
      /\ Min(A) \in A /\ Max(B) \in B
      /\ (\A x \in A : Min(A) <= x) /\ (\A x \in B : x <= Max(B))
  <2>1. Min(A) \in A /\ Min(A) <= r[1] /\ \A x \in A : Min(A) <= x
    BY <1>1, <1>4, <1>5, MinMax
  <2>2. Max(B) \in B /\ r[2] <= Max(B) /\ \A x \in B : x <= Max(B)
    BY <1>1, <1>4, <1>5, MinMax
  <2> QED
    BY <2>1, <2>2, <1>4
<1> HIDE DEF S
<1>8. PICK x : x = ExtendedRange(v, l, r) /\ x[1] = Min(A) /\ x[2] = Max(B)
  BY <1>6
<1>9. x \in Ranges
  BY <1>6, <1>7, <1>8 DEF Ranges
<1>10. /\ x[1] = r[1] \/ \E f \in S : f.smallest.key = x[1]
       /\ x[2] = r[2] \/ \E f \in S : f.largest.key = x[2]
       /\ \A f \in S : x[1] <= f.smallest.key /\ f.largest.key <= x[2]
  BY <1>5a, <1>7, <1>8
<1> QED
  BY <1>7, <1>8, <1>9, <1>10 DEF S

\* A larger range overlaps the same files and perhaps more.
LEMMA InRangeGrows ==
  ASSUME NEW H, EntriesOK(H), NEW v, NEW l, FilesAre(ToSet(v[l]), H),
         NEW a \in 0..NoEnd, NEW b \in 0..NoEnd, NEW c \in 0..NoEnd, NEW d \in 0..NoEnd,
         c <= a, b <= d
  PROVE  InRange(v, l, a, b) \subseteq InRange(v, l, c, d)
<1>1. NoEnd \in Nat /\ NoBegin = 0
  BY VersionAssumption DEF NoEnd, NoBegin
<1> SUFFICES ASSUME NEW f \in ToSet(v[l]), ~AfterFile(a, f), ~BeforeFile(b, f)
             PROVE  ~AfterFile(c, f) /\ ~BeforeFile(d, f)
  BY DEF InRange
<1>2. f.smallest.key \in Nat /\ f.largest.key \in Nat
  <2>1. f.smallest \in H /\ f.largest \in H
    BY DEF FilesAre, FileIs
  <2> QED
    BY <2>1, EntryOrder
<1> QED
  BY <1>1, <1>2 DEF AfterFile, BeforeFile

\* No user key is in the ranges of both files.
KeysApart(f, g) == f.largest.key < g.smallest.key \/ g.largest.key < f.smallest.key

\* Files of level 0 that no other file of the level overlaps.
Closed(v, S) == \A f \in ToSet(v[0]) \ S : \A g \in S : KeysApart(f, g)

\* A range that its files do not extend leaves out only files apart from them.
LEMMA RangeIsClosed ==
  ASSUME NEW H, EntriesOK(H), NEW v, FilesAre(ToSet(v[0]), H), NEW r \in Ranges,
         ExtendedRange(v, 0, r) = r
  PROVE  Closed(v, InRange(v, 0, r[1], r[2]))
<1>1. PICK S : S = InRange(v, 0, r[1], r[2])
  OBVIOUS
<1>2. \A g \in S : r[1] <= g.smallest.key /\ g.largest.key <= r[2]
  BY <1>1, ExtendedRangeGrows
<1>3. r[1] \in Nat /\ r[2] \in Nat
  BY VersionAssumption DEF Ranges, NoEnd
<1>4. \A f \in ToSet(v[0]) : f.smallest.key \in Nat /\ f.largest.key \in Nat
  <2>1. \A f \in ToSet(v[0]) : f.smallest \in H /\ f.largest \in H
    BY DEF FilesAre, FileIs
  <2> QED
    BY <2>1, EntryOrder
<1>5. \A f \in ToSet(v[0]) \ S : r[1] > f.largest.key \/ r[2] < f.smallest.key
  BY <1>1 DEF InRange, AfterFile, BeforeFile
<1>6. S \subseteq ToSet(v[0])
  BY <1>1 DEF InRange
<1>7. ASSUME NEW f \in ToSet(v[0]) \ S, NEW g \in S PROVE KeysApart(f, g)
  <2>1. r[1] > f.largest.key \/ r[2] < f.smallest.key
    BY <1>5
  <2>2. r[1] <= g.smallest.key /\ g.largest.key <= r[2] /\ g \in ToSet(v[0])
    BY <1>2, <1>6
  <2> QED
    BY <2>1, <2>2, <1>3, <1>4 DEF KeysApart
<1> QED
  BY <1>1, <1>7 DEF Closed

\* The ranges of K are extended to ranges of K.
Extends(v, l, K) == \A r \in K : ExtendedRange(v, l, r) \in K

\* GetOverlappingInputs ends with the range r, which comes from [b, e].
IsOverlap(v, l, b, e, r) ==
  /\ r \in Ranges /\ r[1] <= b /\ e <= r[2]
  /\ GetOverlappingInputs(v, l, b, e) = FileOrder(InRange(v, l, r[1], r[2]))
  /\ l > 0 => r = <<b, e>>
  /\ l > 0 \/ ExtendedRange(v, l, r) = r
  /\ \A K : Extends(v, l, K) /\ <<b, e>> \in K => r \in K

\* The files GetOverlappingInputs returns are files of the level, those of the
\* range among them.
LEMMA OverlappingInputs ==
  ASSUME NEW H, EntriesOK(H), NEW v, NEW l, FilesAre(ToSet(v[l]), H),
         NEW b \in 0..NoEnd, NEW e \in 0..NoEnd
  PROVE  \E r : IsOverlap(v, l, b, e, r)
<1> DEFINE D == Ranges
           X(r) == ExtendedRange(v, l, r)
           In(r) == InRange(v, l, r[1], r[2])
           Turn(f, r) == IF l > 0 \/ X(r) = r THEN FileOrder(In(r)) ELSE f[X(r)]
           P(f) == f = [r \in D |-> Turn(f, r)]
           T == {r \in D : l > 0 \/ X(r) = r}
           nx == [r \in D |-> X(r)]
           m == [r \in D |-> r[1] + (NoEnd - r[2])]
           val == [r \in D |-> FileOrder(In(r))]
<1>1. NoEnd \in Nat
  BY VersionAssumption DEF NoEnd
<1>2. ASSUME NEW r \in D PROVE X(r) \in D /\ X(r)[1] <= r[1] /\ r[2] <= X(r)[2]
  BY ExtendedRangeGrows
<1>3. \A r \in D : r[1] \in 0..NoEnd /\ r[2] \in 0..NoEnd /\ r = <<r[1], r[2]>>
  BY DEF Ranges
<1>4. ASSUME NEW r \in D PROVE In(r) \subseteq In(X(r)) /\ In(r) \subseteq ToSet(v[l])
  <2>1. /\ r[1] \in 0..NoEnd /\ r[2] \in 0..NoEnd /\ X(r)[1] \in 0..NoEnd /\ X(r)[2] \in 0..NoEnd
        /\ X(r)[1] <= r[1] /\ r[2] <= X(r)[2]
    BY <1>2, <1>3
  <2> HIDE DEF X
  <2>2. In(r) \subseteq In(X(r))
    BY <2>1, InRangeGrows
  <2> QED
    BY <2>2 DEF InRange
<1> HIDE DEF D, X, In
<1>5. nx \in [D -> D] /\ \A r \in D : nx[r] = X(r)
  BY <1>2
<1>6. m \in [D -> 0..(2 * NoEnd)] /\ \A r \in D : m[r] = r[1] + (NoEnd - r[2])
  <2>1. ASSUME NEW r \in D PROVE r[1] + (NoEnd - r[2]) \in 0..(2 * NoEnd)
    BY <1>1, <1>3
  <2> QED
    BY <2>1
<1>7. ASSUME NEW r \in D, r \notin T PROVE m[nx[r]] < m[r]
  <2>1. X(r) \in D /\ X(r) # r /\ nx[r] = X(r)
    BY <1>2, <1>7
  <2>2. m[X(r)] = X(r)[1] + (NoEnd - X(r)[2]) /\ m[r] = r[1] + (NoEnd - r[2])
    BY <2>1, <1>6
  <2>3. X(r)[1] # r[1] \/ X(r)[2] # r[2]
    BY <2>1, <1>3
  <2>4. /\ X(r)[1] \in 0..NoEnd /\ X(r)[2] \in 0..NoEnd /\ r[1] \in 0..NoEnd /\ r[2] \in 0..NoEnd
        /\ X(r)[1] <= r[1] /\ r[2] <= X(r)[2]
    BY <2>1, <1>2, <1>3
  <2> HIDE DEF m, nx, T
  <2> QED
    BY <2>1, <2>2, <2>3, <2>4, <1>1
<1>8. \E f : P(f)
  <2>1. PICK f : IsSearch(f, D, T, val, nx)
    <3>1. 2 * NoEnd \in Nat
      BY <1>1
    <3> HIDE DEF D, m, nx, T, val
    <3>2. m \in [D -> 0..(2 * NoEnd)] /\ nx \in [D -> D] /\ \A r \in D : r \notin T => m[nx[r]] < m[r]
      BY <1>5, <1>6, <1>7
    <3> QED
      BY <3>1, <3>2, SearchDefined
  <2>2. ASSUME NEW r \in D PROVE (IF r \in T THEN val[r] ELSE f[nx[r]]) = Turn(f, r)
    OBVIOUS
  <2>3. f = [r \in D |-> Turn(f, r)]
    <3> HIDE DEF Turn, T, val, nx
    <3> QED
      BY <2>1, <2>2 DEF IsAFcn, IsSearch
  <2> QED
    BY <2>3
<1>9. PICK f : P(f) /\ GetOverlappingInputs(v, l, b, e) = f[<<b, e>>]
  <2>1. GetOverlappingInputs(v, l, b, e) = (CHOOSE f : P(f))[<<b, e>>]
    BY Zenon DEF GetOverlappingInputs, D, Ranges, X, In
  <2> HIDE DEF P
  <2>2. P(CHOOSE f : P(f))
    BY <1>8, Zenon
  <2> QED
    BY <2>1, <2>2
<1>10. \A r \in D : f[r] = IF r \in T THEN FileOrder(In(r)) ELSE f[X(r)]
  BY <1>9
<1> DEFINE End(r, x) == /\ x[1] <= r[1] /\ r[2] <= x[2] /\ f[r] = FileOrder(In(x))
                        /\ l > 0 => x = r
                        /\ l > 0 \/ X(x) = x
                        /\ \A K : Extends(v, l, K) /\ r \in K => x \in K
           Good(r) == \E x \in D : End(r, x)
           Bad == {k \in 0..(2 * NoEnd) : \E r \in D : m[r] = k /\ ~Good(r)}
<1>11. ASSUME NEW k \in Bad, \A j \in Bad : k <= j PROVE FALSE
  <2>1. PICK r \in D : m[r] = k /\ ~Good(r)
    OBVIOUS
  <2>2. CASE r \in T
    <3>1. f[r] = FileOrder(In(r)) /\ r[1] <= r[1] /\ r[2] <= r[2] /\ (l > 0 \/ X(r) = r)
      BY <2>2, <1>3, <1>10
    <3>2. End(r, r)
      BY <3>1
    <3> HIDE DEF End
    <3> QED
      BY <3>2, <2>1
  <2>3. CASE r \notin T
    <3>1. f[r] = f[X(r)] /\ X(r) \in D /\ nx[r] = X(r) /\ ~(l > 0)
      BY <2>3, <1>2, <1>10
    <3> HIDE DEF m, nx, T
    <3>2. m[X(r)] < k /\ m[X(r)] \in 0..(2 * NoEnd) /\ k \in 0..(2 * NoEnd)
      BY <2>1, <2>3, <3>1, <1>6, <1>7
    <3>3. ASSUME NEW x \in D, End(X(r), x) PROVE FALSE
      <4>1. \A K : Extends(v, l, K) /\ r \in K => X(r) \in K
        BY DEF Extends, X
      <4>2. /\ X(r)[1] \in 0..NoEnd /\ X(r)[2] \in 0..NoEnd /\ r[1] \in 0..NoEnd /\ r[2] \in 0..NoEnd
            /\ X(r)[1] <= r[1] /\ r[2] <= X(r)[2] /\ x[1] \in 0..NoEnd /\ x[2] \in 0..NoEnd
        BY <3>1, <1>2, <1>3
      <4>3. x[1] <= X(r)[1] /\ X(r)[2] <= x[2]
        BY <3>3
      <4>4. x[1] <= r[1] /\ r[2] <= x[2]
        BY <4>2, <4>3, <1>1
      <4>5. End(r, x)
        BY <3>1, <3>3, <4>1, <4>4
      <4> HIDE DEF End
      <4> QED
        BY <4>5, <2>1
    <3>4. ~Good(X(r))
      BY <3>3
    <3> HIDE DEF Good
    <3>5. m[X(r)] \in Bad
      BY <3>1, <3>2, <3>4
    <3> HIDE DEF Bad
    <3> QED
      BY <3>2, <3>5, <1>11, <1>1
  <2> QED
    BY <2>2, <2>3
<1>12. Bad = {}
  <2>1. Bad \in SUBSET Nat
    BY <1>1
  <2> HIDE DEF Bad
  <2> QED
    BY <2>1, <1>11, LeastNat
<1>13. Good(<<b, e>>)
  <2>1. <<b, e>> \in D
    BY DEF D, Ranges
  <2> HIDE DEF m, Good
  <2> QED
    BY <2>1, <1>6, <1>12
<1>14. PICK x \in D : End(<<b, e>>, x)
  BY <1>13
<1>15. <<b, e>>[1] = b /\ <<b, e>>[2] = e
  OBVIOUS
<1>16. IsOverlap(v, l, b, e, x)
  BY <1>9, <1>14, <1>15 DEF In, D, X, IsOverlap
<1> QED
  BY <1>16

-----------------------------------------------------------------------------
(* Connected sets of files. *)

\* The user keys of a file and its entries.
LEMMA FileKeys ==
  ASSUME NEW H, EntriesOK(H), NEW f, FileIs(f, H)
  PROVE  /\ f.smallest.key \in Key /\ f.largest.key \in Key /\ f.smallest \in H /\ f.largest \in H
         /\ f.smallest.key \in Nat /\ f.largest.key \in Nat /\ f.smallest.key <= f.largest.key
         /\ \A e \in f.entries : /\ e \in H /\ e.key \in Nat
                                 /\ f.smallest.key <= e.key /\ e.key <= f.largest.key
<1>1. f.entries \subseteq H /\ f.smallest \in f.entries /\ f.largest \in f.entries
  BY DEF FileIs
<1>2. \A e \in f.entries : e \in H /\ e.key \in Nat /\ e.key \in Key
  BY <1>1, EntryOrder
<1>3. \A e \in f.entries : f.smallest.key <= e.key /\ e.key <= f.largest.key
  BY <1>1, <1>2 DEF FileIs, Before
<1> QED
  BY <1>1, <1>2, <1>3

\* Every user key between two keys of the files is within one of them.
Connected(C) ==
  \A f, g \in C : \A k \in Nat :
    f.smallest.key <= k /\ k <= g.largest.key =>
      \E h \in C : h.smallest.key <= k /\ k <= h.largest.key

\* Files that overlap the range of a connected set can be added to it.
LEMMA ConnectedGrows ==
  ASSUME NEW H, EntriesOK(H), NEW C, NEW S, \A f \in C \cup S : FileIs(f, H), Connected(C),
         \A f \in S : /\ \E x \in C : x.smallest.key <= f.largest.key
                      /\ \E y \in C : f.smallest.key <= y.largest.key
  PROVE  Connected(C \cup S)
<1> SUFFICES ASSUME NEW f \in C \cup S, NEW g \in C \cup S, NEW k \in Nat,
                    f.smallest.key <= k, k <= g.largest.key
             PROVE  \E h \in C \cup S : h.smallest.key <= k /\ k <= h.largest.key
  BY DEF Connected
<1>1. \A h \in C \cup S : h.smallest.key \in Nat /\ h.largest.key \in Nat
  BY FileKeys
<1>2. CASE (\E x \in C : x.smallest.key <= k) /\ (\E y \in C : k <= y.largest.key)
  BY <1>2 DEF Connected
<1>3. CASE ~\E x \in C : x.smallest.key <= k
  <2>1. f \in S
    BY <1>3
  <2>2. PICK x \in C : x.smallest.key <= f.largest.key
    BY <2>1
  <2>3. k <= f.largest.key
    BY <2>2, <1>1, <1>3
  <2> QED
    BY <2>3
<1>4. CASE ~\E y \in C : k <= y.largest.key
  <2>1. g \in S
    BY <1>4
  <2>2. PICK y \in C : g.smallest.key <= y.largest.key
    BY <2>1
  <2>3. g.smallest.key <= k
    BY <2>2, <1>1, <1>4
  <2> QED
    BY <2>3
<1> QED
  BY <1>2, <1>3, <1>4

\* A file that overlaps a range of user keys.
LEMMA InRangeMeets ==
  ASSUME NEW v, NEW l, NEW b \in Key, NEW e \in Key
  PROVE  \A f \in ToSet(v[l]) : f \in InRange(v, l, b, e) <=> ~(b > f.largest.key) /\ ~(e < f.smallest.key)
<1>1. b # NoBegin /\ e # NoEnd
  BY VersionAssumption DEF Key, NoBegin, NoEnd
<1> QED
  BY <1>1 DEF InRange, AfterFile, BeforeFile

\* What GetOverlappingInputs finds stays connected, also when it starts again
\* with a larger range.
LEMMA OverlappingConnected ==
  ASSUME NEW H, EntriesOK(H), NEW v, NEW l, FilesAre(ToSet(v[l]), H),
         NEW C, \A f \in C : FileIs(f, H), Connected(C), NEW b \in Key, NEW e \in Key,
         \E x \in C : x.smallest.key <= b, \E y \in C : e <= y.largest.key
  PROVE  Connected(C \cup ToSet(GetOverlappingInputs(v, l, b, e)))
<1> DEFINE In(r) == InRange(v, l, r[1], r[2])
           Within(r, D) == (\E x \in D : x.smallest.key <= r[1]) /\ (\E y \in D : r[2] <= y.largest.key)
           K == {r \in Key \X Key : Connected(C \cup In(r)) /\ Within(r, C \cup In(r))}
<1>1. \A r : In(r) \subseteq ToSet(v[l]) /\ \A f \in C \cup In(r) : FileIs(f, H)
  BY DEF InRange, FilesAre
<1>2. Key \subseteq 0..NoEnd /\ Key \subseteq Nat
  BY VersionAssumption DEF Key, NoEnd
<1>3. \A r \in Key \X Key : r \in Ranges /\ r[1] \in Key /\ r[2] \in Key
  BY <1>2 DEF Ranges
<1>4. ASSUME NEW r \in Key \X Key, NEW D, \A f \in D : FileIs(f, H), Connected(D), Within(r, D)
      PROVE  Connected(D \cup In(r))
  <2>1. PICK S : S = In(r)
    OBVIOUS
  <2>2. \A f \in D \cup S : FileIs(f, H)
    BY <2>1, <1>1, <1>4
  <2>3. \A f \in D \cup S : f.smallest.key \in Nat /\ f.largest.key \in Nat
    BY <2>2, FileKeys
  <2>4. \A f \in S : ~(r[1] > f.largest.key) /\ ~(r[2] < f.smallest.key)
    BY <2>1, <1>1, <1>3, InRangeMeets
  <2>5. r[1] \in Nat /\ r[2] \in Nat
    BY <1>2, <1>3
  <2>6. \A f \in S : (\E x \in D : x.smallest.key <= f.largest.key) /\ (\E y \in D : f.smallest.key <= y.largest.key)
    BY <2>3, <2>4, <2>5, <1>4
  <2> QED
    BY <2>1, <2>2, <2>6, <1>4, ConnectedGrows
<1>5. <<b, e>> \in K
  <2>1. PICK r : r = <<b, e>>
    OBVIOUS
  <2>2. r \in Key \X Key /\ r[1] = b /\ r[2] = e
    BY <2>1
  <2>3. Within(r, C)
    BY <2>2
  <2>4. Connected(C \cup In(r))
    BY <2>2, <2>3, <1>4
  <2>5. Within(r, C \cup In(r))
    BY <2>3
  <2> QED
    BY <2>1, <2>2, <2>4, <2>5
<1>6. ASSUME NEW r \in K PROVE ExtendedRange(v, l, r) \in K
  <2>1. r \in Key \X Key /\ Connected(C \cup In(r)) /\ Within(r, C \cup In(r))
    OBVIOUS
  <2>2. PICK x : x = ExtendedRange(v, l, r)
    OBVIOUS
  <2>3. PICK D : D = C \cup In(r)
    OBVIOUS
  <2>4. /\ x \in Ranges /\ x[1] <= r[1] /\ r[2] <= x[2]
        /\ x[1] = r[1] \/ \E f \in In(r) : f.smallest.key = x[1]
        /\ x[2] = r[2] \/ \E f \in In(r) : f.largest.key = x[2]
    BY <2>1, <2>2, <1>3, ExtendedRangeGrows
  <2>5. \A f \in D : FileIs(f, H) /\ f.smallest.key \in Key /\ f.largest.key \in Key /\ f.smallest.key \in Nat /\ f.largest.key \in Nat
    BY <2>3, <1>1, FileKeys
  <2>6. r[1] \in Key /\ r[2] \in Key
    BY <2>1
  <2> HIDE DEF K, In
  <2>7. x[1] \in Key /\ x[2] \in Key /\ x \in Key \X Key
    <3>1. x[1] \in Key /\ x[2] \in Key
      BY <2>3, <2>4, <2>5, <2>6
    <3> QED
      BY <3>1, <2>4 DEF Ranges
  <2>8. Within(x, D)
    <3>1. \E y \in D : y.smallest.key <= x[1]
      <4>1. CASE x[1] = r[1]
        BY <4>1, <2>1, <2>3
      <4>2. CASE \E f \in In(r) : f.smallest.key = x[1]
        BY <4>2, <2>3, <2>5
      <4> QED
        BY <4>1, <4>2, <2>4
    <3>2. \E y \in D : x[2] <= y.largest.key
      <4>1. CASE x[2] = r[2]
        BY <4>1, <2>1, <2>3
      <4>2. CASE \E f \in In(r) : f.largest.key = x[2]
        BY <4>2, <2>3, <2>5
      <4> QED
        BY <4>1, <4>2, <2>4
    <3> QED
      BY <3>1, <3>2
  <2>9. Connected(D \cup In(x))
    BY <2>1, <2>3, <2>5, <2>7, <2>8, <1>4
  <2>10. In(r) \subseteq In(x)
    <3>1. /\ r[1] \in 0..NoEnd /\ r[2] \in 0..NoEnd /\ x[1] \in 0..NoEnd /\ x[2] \in 0..NoEnd
      BY <2>6, <2>7, <1>2
    <3> QED
      BY <3>1, <2>4, InRangeGrows DEF In
  <2>11. D \cup In(x) = C \cup In(x) /\ D \subseteq C \cup In(x)
    BY <2>3, <2>10
  <2>12. Within(x, C \cup In(x))
    BY <2>8, <2>11
  <2> QED
    BY <2>2, <2>7, <2>9, <2>11, <2>12 DEF K
<1>7. b \in 0..NoEnd /\ e \in 0..NoEnd
  BY <1>2
<1>8. PICK r : IsOverlap(v, l, b, e, r)
  BY <1>7, OverlappingInputs
<1>9. r \in K
  <2> HIDE DEF K
  <2> QED
    BY <1>5, <1>6, <1>8 DEF IsOverlap, Extends
<1>10. GetOverlappingInputs(v, l, b, e) = FileOrder(In(r)) /\ Connected(C \cup In(r))
  BY <1>8, <1>9 DEF IsOverlap
<1>11. PICK S : S = In(r)
  OBVIOUS
<1>12. FilesAre(S, H)
  BY <1>1, <1>11, FS_Subset DEF FilesAre
<1>13. ToSet(FileOrder(S)) = S
  BY <1>12, FilesInOrder
<1> QED
  BY <1>10, <1>11, <1>13

-----------------------------------------------------------------------------
(* Finalize: the level that needs a compaction most. *)

\* The limit of a level is not 0.
LEMMA MaxBytesPositive ==
  ASSUME NEW l \in Level
  PROVE  MaxBytesForLevel(l) \in Nat \ {0}
<1> DEFINE n == kNumLevels - 1
           V == Nat \ {0}
           Turn(f, i) == IF i <= 1 THEN MaxBytesForLevel1 ELSE 10 * f[i - 1]
           P(f) == f = [i \in Level |-> Turn(f, i)]
           step == [i \in 1..n |-> [x \in V |-> IF i <= 1 THEN MaxBytesForLevel1 ELSE 10 * x]]
<1>1. n \in Nat /\ Level = 0..n /\ MaxBytesForLevel1 \in V
  BY VersionAssumption DEF Level
<1>2. step \in [1..n -> [V -> V]] /\ \A i \in 1..n : \A x \in V : step[i][x] = IF i <= 1 THEN MaxBytesForLevel1 ELSE 10 * x
  BY <1>1
<1> HIDE DEF n, step
<1>3. \E f : P(f)
  <2>1. PICK f : IsLoop(f, n, V, MaxBytesForLevel1, step)
    BY <1>1, <1>2, LoopDefined
  <2>2. ASSUME NEW i \in 0..n PROVE f[i] = Turn(f, i)
    <3>1. CASE i = 0
      BY <2>1, <3>1 DEF IsLoop
    <3>2. CASE i # 0
      <4>1. i \in 1..n /\ i - 1 \in 0..n
        BY <1>1, <3>2
      <4>2. f[i] = step[i][f[i - 1]] /\ f[i - 1] \in V
        BY <2>1, <3>2, <4>1 DEF IsLoop
      <4> QED
        BY <4>1, <4>2, <1>2
    <3> QED
      BY <3>1, <3>2
  <2> HIDE DEF Turn
  <2>3. f = [i \in 0..n |-> Turn(f, i)]
    BY <2>1, <2>2 DEF IsLoop, IsAFcn
  <2> QED
    BY <2>3, <1>1
<1>4. PICK f : P(f) /\ MaxBytesForLevel(l) = f[l]
  <2>1. MaxBytesForLevel(l) = (CHOOSE f : P(f))[l]
    BY Zenon DEF MaxBytesForLevel
  <2> HIDE DEF P
  <2>2. P(CHOOSE f : P(f))
    BY <1>3, Zenon
  <2> QED
    BY <2>1, <2>2
<1>5. \A i \in 0..n : f[i] = Turn(f, i)
  BY <1>1, <1>4
<1>6. \A i \in 0..n : f[i] \in V
  <2>1. f[0] \in V
    BY <1>1, <1>5
  <2>2. ASSUME NEW i \in 1..n, f[i - 1] \in V PROVE f[i] \in V
    BY <2>2, <1>1, <1>5
  <2> HIDE DEF V
  <2> QED
    BY <2>1, <2>2, <1>1, LoopKeeps
<1> QED
  BY <1>1, <1>4, <1>6

LEMMA MulLess ==
  ASSUME NEW x \in Nat, NEW y \in Nat, NEW z \in Nat \ {0}
  PROVE  /\ x < y <=> x * z < y * z
         /\ x <= y <=> x * z <= y * z
OBVIOUS

\* Fractions are ordered.
LEMMA FractionOrder ==
  ASSUME NEW a \in Nat, NEW b \in Nat, NEW c \in Nat,
         NEW x \in Nat \ {0}, NEW y \in Nat \ {0}, NEW z \in Nat \ {0},
         a * y > b * x, c * y <= b * z
  PROVE  a * z > c * x
<1>1. (b * x) * z < (a * y) * z
  <2>1. b * x \in Nat /\ a * y \in Nat
    OBVIOUS
  <2> QED
    BY <2>1, MulLess
<1>2. (c * y) * x <= (b * z) * x
  <2>1. c * y \in Nat /\ b * z \in Nat
    OBVIOUS
  <2> QED
    BY <2>1, MulLess
<1>3. (c * x) * y < (a * z) * y
  BY <1>1, <1>2
<1>4. c * x \in Nat /\ a * z \in Nat
  OBVIOUS
<1> QED
  BY <1>3, <1>4, MulLess

\* One of the levels has the highest score, the first of them.
LEMMA HighestScore ==
  ASSUME NEW N \in Nat, NEW num \in [0..N -> Nat], NEW den \in [0..N -> Nat \ {0}]
  PROVE  \E l \in 0..N : /\ \A m \in 0..N : ~(num[m] * den[l] > num[l] * den[m])
                         /\ \A m \in 0..(l - 1) : num[l] * den[m] > num[m] * den[l]
<1> DEFINE Above(m, l) == num[m] * den[l] > num[l] * den[m]
           Best(l, n) == (\A m \in 0..n : ~Above(m, l)) /\ \A m \in 0..(l - 1) : Above(l, m)
           Bad == {n \in 0..N : ~\E l \in 0..n : Best(l, n)}
<1>1. \A m, l \in 0..N : num[m] * den[l] \in Nat
  OBVIOUS
<1>2. \A m \in 0..N : ~Above(m, m)
  BY <1>1
<1>3. ASSUME NEW a \in 0..N, NEW b \in 0..N, NEW c \in 0..N, Above(a, b), ~Above(c, b)
      PROVE  Above(a, c)
  <2>1. num[c] * den[b] <= num[b] * den[c]
    <3>1. num[c] * den[b] \in Nat /\ num[b] * den[c] \in Nat
      BY <1>1
    <3>2. ~(num[c] * den[b] > num[b] * den[c])
      BY <1>3
    <3>3. \A p, q \in Nat : ~(p > q) => p <= q
      OBVIOUS
    <3> QED
      BY <3>1, <3>2, <3>3
  <2>2. /\ num[a] \in Nat /\ num[b] \in Nat /\ num[c] \in Nat
        /\ den[a] \in Nat \ {0} /\ den[b] \in Nat \ {0} /\ den[c] \in Nat \ {0}
    OBVIOUS
  <2> QED
    BY <2>1, <2>2, <1>3, FractionOrder
<1>4. \A m, l \in 0..N : Above(m, l) => ~Above(l, m)
  <2>1. \A p, q \in Nat : p > q => ~(q > p)
    OBVIOUS
  <2> QED
    BY <1>1, <2>1
<1> HIDE DEF Above
<1>5. ASSUME NEW n \in Bad, \A j \in Bad : n <= j PROVE FALSE
  <2>1. n # 0
    <3>1. ASSUME n = 0 PROVE FALSE
      <4>1. 0 \in 0..N /\ 0..0 = {0} /\ 0..(0 - 1) = {}
        OBVIOUS
      <4>2. Best(0, 0)
        BY <4>1, <1>2
      <4> HIDE DEF Best
      <4> QED
        BY <3>1, <4>1, <4>2
    <3> QED
      BY <3>1
  <2>2. n \in 1..N /\ n - 1 \in 0..N /\ n - 1 \notin Bad
    <3>1. n \in 0..N
      OBVIOUS
    <3> HIDE DEF Bad
    <3> QED
      BY <2>1, <3>1, <1>5
  <2>3. PICK l \in 0..(n - 1) : Best(l, n - 1)
    BY <2>2
  <2>4. l \in 0..N /\ l \in 0..n /\ n \in 0..N
    BY <2>2
  <2>5. CASE Above(n, l)
    <3>1. ASSUME NEW m \in 0..(n - 1) PROVE Above(n, m) /\ ~Above(m, n)
      <4>1. m \in 0..N /\ ~Above(m, l)
        BY <2>2, <2>3
      <4>2. Above(n, m)
        BY <4>1, <2>4, <2>5, <1>3
      <4> QED
        BY <4>1, <4>2, <2>4, <1>4
    <3>2. ASSUME NEW m \in 0..n PROVE ~Above(m, n)
      <4>1. m = n \/ m \in 0..(n - 1)
        BY <2>2
      <4> QED
        BY <4>1, <3>1, <1>2, <2>4
    <3>3. Best(n, n) /\ n \in 0..n
      BY <3>1, <3>2, <2>2
    <3> HIDE DEF Best
    <3> QED
      BY <3>3
  <2>6. CASE ~Above(n, l)
    <3>1. ASSUME NEW m \in 0..n PROVE ~Above(m, l)
      <4>1. m = n \/ m \in 0..(n - 1)
        BY <2>2
      <4> QED
        BY <4>1, <2>3, <2>6
    <3>2. Best(l, n)
      BY <3>1, <2>3
    <3> HIDE DEF Best
    <3> QED
      BY <3>2, <2>4
  <2> QED
    BY <2>5, <2>6
<1>6. Bad = {}
  <2>1. Bad \in SUBSET Nat
    OBVIOUS
  <2> HIDE DEF Bad
  <2> QED
    BY <2>1, <1>5, LeastNat
<1>7. PICK l \in 0..N : Best(l, N)
  <2>1. N \in 0..N
    OBVIOUS
  <2> HIDE DEF Best
  <2> QED
    BY <2>1, <1>6
<1> QED
  BY <1>7 DEF Above

\* The entries of files.
LEMMA FileSizes ==
  ASSUME NEW H, EntriesOK(H), NEW files, \A f \in ToSet(files) : FileIs(f, H)
  PROVE  /\ EntriesOf(files) \subseteq H /\ IsFiniteSet(EntriesOf(files))
         /\ TotalFileSize(files) \in Nat
<1>1. EntriesOf(files) \subseteq H
  BY DEF EntriesOf, FileIs
<1>2. IsFiniteSet(EntriesOf(files))
  BY <1>1, FS_Subset DEF EntriesOK
<1> QED
  BY <1>1, <1>2, FS_CardinalityType DEF TotalFileSize

\* v has files of H on every level.
VersionOK(v, H) ==
  \A l \in Level : v[l] \in Seq(ToSet(v[l])) /\ FilesAre(ToSet(v[l]), H)

\* Finalize finds a level above the last; a level that is due is not empty.
LEMMA FinalizeFinds ==
  ASSUME NEW H, EntriesOK(H), NEW v, VersionOK(v, H)
  PROVE  /\ Finalize(v).level \in 0..(kNumLevels - 2)
         /\ Finalize(v).due => Len(v[Finalize(v).level]) > 0
<1> DEFINE N == kNumLevels - 2
           Above(a, b) == a.num * b.den > b.num * a.den
           Q(l) == /\ \A m \in 0..(kNumLevels - 2) : ~Above(Score(v, m), Score(v, l))
                   /\ \A m \in 0..(l - 1) : Above(Score(v, l), Score(v, m))
           best == CHOOSE l \in 0..(kNumLevels - 2) : Q(l)
           num == [l \in 0..N |-> Score(v, l).num]
           den == [l \in 0..N |-> Score(v, l).den]
<1>1. N \in Nat /\ 0..N \subseteq Level /\ 0 \in Level
  BY VersionAssumption DEF Level
<1>2. \A l \in Level : Len(v[l]) \in Nat /\ TotalFileSize(v[l]) \in Nat
  <2> SUFFICES ASSUME NEW l \in Level PROVE Len(v[l]) \in Nat /\ TotalFileSize(v[l]) \in Nat
    OBVIOUS
  <2>1. v[l] \in Seq(ToSet(v[l])) /\ \A f \in ToSet(v[l]) : FileIs(f, H)
    BY DEF VersionOK, FilesAre
  <2> QED
    BY <2>1, LenProperties, FileSizes
<1>3. ASSUME NEW l \in 0..N PROVE Score(v, l).num \in Nat /\ Score(v, l).den \in Nat \ {0}
  <2>1. CASE l = 0
    <3>1. Score(v, l).num = Len(v[0]) /\ Score(v, l).den = kL0_CompactionTrigger
      BY <2>1 DEF Score
    <3> QED
      BY <3>1, <1>1, <1>2, VersionAssumption
  <2>2. CASE l # 0
    <3>1. Score(v, l).num = TotalFileSize(v[l]) /\ Score(v, l).den = MaxBytesForLevel(l)
      BY <2>2 DEF Score
    <3>2. l \in Level
      BY <1>1
    <3> QED
      BY <3>1, <3>2, <1>2, MaxBytesPositive
  <2> QED
    BY <2>1, <2>2
<1>4. num \in [0..N -> Nat] /\ den \in [0..N -> Nat \ {0}]
  BY <1>3
<1>5. \A m, l \in 0..N : Above(Score(v, m), Score(v, l)) <=> num[m] * den[l] > num[l] * den[m]
  OBVIOUS
<1>6. \E l \in 0..N : Q(l)
  <2> HIDE DEF num, den, N
  <2>1. PICK l \in 0..N : /\ \A m \in 0..N : ~(num[m] * den[l] > num[l] * den[m])
                          /\ \A m \in 0..(l - 1) : num[l] * den[m] > num[m] * den[l]
    BY <1>1, <1>4, HighestScore
  <2>2. \A m \in 0..(l - 1) : m \in 0..N
    BY <1>1
  <2> HIDE DEF Above
  <2>3. /\ \A m \in 0..N : ~Above(Score(v, m), Score(v, l))
        /\ \A m \in 0..(l - 1) : Above(Score(v, l), Score(v, m))
    BY <2>1, <2>2, <1>5
  <2> QED
    BY <2>3 DEF N
<1>7. Finalize(v).level = best /\ Finalize(v).due = (Score(v, best).num >= Score(v, best).den)
  BY Zenon DEF Finalize
<1> HIDE DEF Q
<1>8. best \in 0..N
  BY <1>6
<1> HIDE DEF best
<1>9. ASSUME Score(v, best).num >= Score(v, best).den PROVE Len(v[best]) > 0
  <2>1. Score(v, best).num # 0
    BY <1>3, <1>8, <1>9
  <2>2. best \in Level
    BY <1>1, <1>8
  <2>3. CASE best = 0
    <3>1. Score(v, best).num = Len(v[0])
      BY <2>3 DEF Score
    <3> QED
      BY <3>1, <2>1, <2>2, <2>3, <1>2
  <2>4. CASE best # 0
    <3>1. Score(v, best).num = TotalFileSize(v[best])
      BY <2>4 DEF Score
    <3>2. ASSUME Len(v[best]) = 0 PROVE FALSE
      <4>1. v[best] \in Seq(ToSet(v[best])) /\ DOMAIN v[best] = {}
        <5>1. v[best] \in Seq(ToSet(v[best]))
          BY <2>2 DEF VersionOK
        <5>2. DOMAIN v[best] = 1..Len(v[best])
          BY <5>1, LenProperties
        <5> QED
          BY <5>1, <5>2, <3>2
      <4>2. ToSet(v[best]) = {}
        BY <4>1 DEF ToSet
      <4>3. EntriesOf(v[best]) = {}
        BY <4>2 DEF EntriesOf
      <4> QED
        BY <4>3, <3>1, <2>1, FS_EmptySet DEF TotalFileSize
    <3> QED
      BY <3>2, <2>2, <1>2
  <2> QED
    BY <2>3, <2>4
<1> QED
  BY <1>7, <1>8, <1>9

-----------------------------------------------------------------------------
(* The files a lookup reads. *)

\* The level-0 files of a lookup.
LEMMA Level0InOrder ==
  ASSUME NEW H, EntriesOK(H), NEW v, VersionOK(v, H), NEW k
  PROVE  LET q == Level0Files(v, k)
         IN /\ q \in Seq(ToSet(v[0]))
            /\ \A i, j \in 1..Len(q) : i < j => q[i].number > q[j].number
            /\ \A f \in ToSet(v[0]) : f.smallest.key <= k /\ k <= f.largest.key => \E i \in 1..Len(q) : q[i] = f
<1> DEFINE S == {f \in ToSet(v[0]) : f.smallest.key <= k /\ k <= f.largest.key}
           R == {p \in S \X S : NewestFirst(p[1], p[2])}
           q == Level0Files(v, k)
<1>1. 0 \in Level
  BY VersionAssumption DEF Level
<1>2. FilesAre(ToSet(v[0]), H)
  BY <1>1 DEF VersionOK
<1>3. IsFiniteSet(S) /\ S \subseteq ToSet(v[0])
  BY <1>2, FS_Subset DEF FilesAre
<1>4. /\ \A x \in S : x.number \in Nat
      /\ \A x, y \in S : x.number = y.number => x = y
  BY <1>2 DEF FilesAre, FileIs
<1>5. q = [i \in 1..Cardinality(S) |-> CHOOSE x \in S : Cardinality({y \in S : NewestFirst(y, x)}) = i - 1]
  BY DEF Level0Files, InOrder
<1> HIDE DEF S, q
<1>6. \A x, y \in S : <<x, y>> \in R <=> NewestFirst(x, y)
  OBVIOUS
<1> HIDE DEF R
<1>7. StrictOrder(S, R)
  BY <1>4, <1>6 DEF StrictOrder, NewestFirst
<1> DEFINE Rank(x) == Cardinality({y \in S : NewestFirst(y, x)})
<1>8. \A x \in S : Rank(x) = Cardinality({y \in S : <<y, x>> \in R})
  <2>1. \A x \in S : {y \in S : NewestFirst(y, x)} = {y \in S : <<y, x>> \in R}
    BY <1>6
  <2> QED
    BY <2>1
<1> HIDE DEF Rank
<1>9. q = [i \in 1..Cardinality(S) |-> CHOOSE x \in S : Rank(x) = i - 1]
  BY <1>5 DEF Rank
<1>10. \A i \in 1..Cardinality(S) : \A x \in S : Rank(x) = i - 1 => q[i] \in S /\ Rank(q[i]) = i - 1
  BY <1>9
<1>11. q = [i \in 1..Cardinality(S) |-> q[i]]
  BY <1>9
<1>12. InSequence(q, S, R)
  BY <1>3, <1>7, <1>8, <1>10, <1>11, RankOrder
<1>13. q \in Seq(S) /\ q \in Seq(ToSet(v[0])) /\ \A x \in S : \E i \in 1..Len(q) : q[i] = x
  BY <1>3, <1>12 DEF InSequence
<1>14. ASSUME NEW i \in 1..Len(q), NEW j \in 1..Len(q), i < j PROVE q[i].number > q[j].number
  <2>1. q[i] \in S /\ q[j] \in S
    BY <1>13, ElementOfSeq
  <2>2. <<q[i], q[j]>> \in R
    BY <1>12, <1>14 DEF InSequence
  <2> QED
    BY <2>1, <2>2, <1>6 DEF NewestFirst
<1>15. \A f \in ToSet(v[0]) : f.smallest.key <= k /\ k <= f.largest.key => f \in S
  BY DEF S
<1> QED
  BY <1>13, <1>14, <1>15 DEF q

\* The levels below, in increasing order.
LEMMA DeeperInOrder ==
  ASSUME NEW v, NEW k, NEW s
  PROVE  LET q == DeeperLevels(v, k, s)
         IN /\ q \in Seq(Level)
            /\ \A i \in 1..Len(q) : FileIndex(v, q[i], k, s) <= Len(v[q[i]])
            /\ Len(q) >= 2 => q[1] <= kNumLevels - 2
            /\ \A i, j \in 1..Len(q) : i < j => q[i] < q[j]
            /\ \A i \in 1..Len(q) : q[i] # 0
            /\ \A l \in Level \ {0} :
                 FileIndex(v, l, k, s) <= Len(v[l]) /\ v[l][FileIndex(v, l, k, s)].smallest.key <= k =>
                   \E i \in 1..Len(q) : q[i] = l
<1> DEFINE S == {l \in Level \ {0} : LET i == FileIndex(v, l, k, s)
                                     IN i <= Len(v[l]) /\ v[l][i].smallest.key <= k}
           R == {p \in S \X S : p[1] < p[2]}
           q == DeeperLevels(v, k, s)
<1>1. /\ S \subseteq Level /\ Level \subseteq Nat
      /\ \A l \in S : FileIndex(v, l, k, s) <= Len(v[l]) /\ l # 0
      /\ \A l \in Level \ {0} :
           FileIndex(v, l, k, s) <= Len(v[l]) /\ v[l][FileIndex(v, l, k, s)].smallest.key <= k => l \in S
  BY VersionAssumption DEF Level
<1>2. IsFiniteSet(S)
  <2>1. 0 \in Int /\ kNumLevels - 1 \in Int
    BY VersionAssumption
  <2>2. IsFiniteSet(Level)
    BY <2>1, FS_Interval DEF Level
  <2> HIDE DEF S
  <2> QED
    BY <2>2, <1>1, FS_Subset
<1>3. q = [i \in 1..Cardinality(S) |-> CHOOSE x \in S : Cardinality({y \in S : y < x}) = i - 1]
  BY DEF DeeperLevels, InOrder
<1> HIDE DEF S, q
<1>4. \A x, y \in S : <<x, y>> \in R <=> x < y
  OBVIOUS
<1> HIDE DEF R
<1>5. StrictOrder(S, R)
  <2>1. \A x \in S : x \in Nat
    BY <1>1
  <2>2. \A x, y, z \in S : ~(x < x) /\ (x = y \/ x < y \/ y < x) /\ (x < y /\ y < z => x < z)
    BY <2>1
  <2> QED
    BY <2>2, <1>4 DEF StrictOrder
<1> DEFINE Rank(x) == Cardinality({y \in S : y < x})
<1>6. \A x \in S : Rank(x) = Cardinality({y \in S : <<y, x>> \in R})
  <2>1. \A x \in S : {y \in S : y < x} = {y \in S : <<y, x>> \in R}
    BY <1>4
  <2> QED
    BY <2>1
<1> HIDE DEF Rank
<1>7. q = [i \in 1..Cardinality(S) |-> CHOOSE x \in S : Rank(x) = i - 1]
  BY <1>3 DEF Rank
<1>8. \A i \in 1..Cardinality(S) : \A x \in S : Rank(x) = i - 1 => q[i] \in S /\ Rank(q[i]) = i - 1
  BY <1>7
<1>9. q = [i \in 1..Cardinality(S) |-> q[i]]
  BY <1>7
<1>10. InSequence(q, S, R)
  BY <1>2, <1>5, <1>6, <1>8, <1>9, RankOrder
<1>11. q \in Seq(S) /\ q \in Seq(Level) /\ Len(q) \in Nat /\ \A i \in 1..Len(q) : q[i] \in S
  <2>1. q \in Seq(S)
    BY <1>10 DEF InSequence
  <2>2. Len(q) \in Nat /\ \A i \in 1..Len(q) : q[i] \in S
    BY <2>1, ElementOfSeq, LenProperties
  <2>3. q \in Seq(Level)
    <3>1. S \subseteq Level
      BY <1>1
    <3> QED
      BY <2>1, <3>1
  <2> QED
    BY <2>1, <2>2, <2>3
<1>12. ASSUME Len(q) >= 2 PROVE q[1] <= kNumLevels - 2
  <2>1. 1 \in 1..Len(q) /\ 2 \in 1..Len(q)
    BY <1>11, <1>12
  <2>2. <<q[1], q[2]>> \in R
    BY <2>1, <1>10 DEF InSequence
  <2>3. q[1] < q[2] /\ q[1] \in Level /\ q[2] \in Level
    BY <2>1, <2>2, <1>1, <1>4, <1>11
  <2> QED
    BY <2>3, VersionAssumption DEF Level
<1>13. ASSUME NEW i \in 1..Len(q), NEW j \in 1..Len(q), i < j PROVE q[i] < q[j]
  <2>1. <<q[i], q[j]>> \in R
    BY <1>10, <1>13 DEF InSequence
  <2> QED
    BY <2>1, <1>4, <1>11
<1>14. \A l \in S : \E i \in 1..Len(q) : q[i] = l
  BY <1>10 DEF InSequence
<1> QED
  BY <1>1, <1>11, <1>12, <1>13, <1>14 DEF q

\* x is read before y: it is a newer file of level 0, or of a level above.
ReadBefore(x, y) ==
  \/ x.level = 0 /\ y.level = 0 /\ x.file.number > y.file.number
  \/ x.level < y.level
Reads(q, f) == \E i \in 1..Len(q) : q[i].file = f

\* A lookup reads files of the version; the first of two is not of the last
\* level. It reads the files of level 0 that may hold k and those it finds below.
LEMMA SearchFiles ==
  ASSUME NEW H, EntriesOK(H), NEW v, VersionOK(v, H), NEW k, NEW s
  PROVE  LET q == SearchOrder(v, k, s)
         IN /\ Len(q) \in Nat /\ DOMAIN q = 1..Len(q)
            /\ \A i \in 1..Len(q) : q[i].level \in Level /\ q[i].file \in ToSet(v[q[i].level])
            /\ Len(q) >= 2 => q[1].level <= kNumLevels - 2
            /\ \A i, j \in 1..Len(q) : i < j => ReadBefore(q[i], q[j])
            /\ \A f \in ToSet(v[0]) : f.smallest.key <= k /\ k <= f.largest.key => Reads(q, f)
            /\ \A l \in Level \ {0} :
                 FileIndex(v, l, k, s) <= Len(v[l]) /\ v[l][FileIndex(v, l, k, s)].smallest.key <= k =>
                   Reads(q, v[l][FileIndex(v, l, k, s)])
<1> DEFINE level0 == Level0Files(v, k)
           deeper == DeeperLevels(v, k, s)
           A == [i \in DOMAIN level0 |-> [level |-> 0, file |-> level0[i]]]
           B == [i \in DOMAIN deeper |-> [level |-> deeper[i],
                                          file |-> v[deeper[i]][FileIndex(v, deeper[i], k, s)]]]
           W == {w \in [level : Level, file : FilesOf(v)] : w.file \in ToSet(v[w.level])}
           q == SearchOrder(v, k, s)
<1>1. q = A \o B
  BY DEF SearchOrder
<1>2. 0 \in Level /\ 0 <= kNumLevels - 2 /\ \A l \in Level : ToSet(v[l]) \subseteq FilesOf(v)
  BY VersionAssumption DEF Level, FilesOf
<1>3. /\ A \in Seq(W) /\ (Len(A) > 0 => A[1].level = 0)
      /\ \A i, j \in 1..Len(A) : i < j => ReadBefore(A[i], A[j])
      /\ \A i \in 1..Len(A) : A[i].level = 0
      /\ \A f \in ToSet(v[0]) : f.smallest.key <= k /\ k <= f.largest.key => Reads(A, f)
  <2>1. /\ level0 \in Seq(ToSet(v[0]))
        /\ \A i, j \in 1..Len(level0) : i < j => level0[i].number > level0[j].number
        /\ \A f \in ToSet(v[0]) : f.smallest.key <= k /\ k <= f.largest.key =>
             \E i \in 1..Len(level0) : level0[i] = f
    BY Level0InOrder
  <2> HIDE DEF level0
  <2>2. PICK n \in Nat : n = Len(level0) /\ DOMAIN level0 = 1..n /\ \A i \in 1..n : level0[i] \in ToSet(v[0])
    BY <2>1, LenProperties, ElementOfSeq
  <2>3. \A i \in 1..n : [level |-> 0, file |-> level0[i]] \in W
    BY <2>2, <1>2
  <2>4. A \in [1..n -> W] /\ \A i \in 1..n : A[i].level = 0 /\ A[i].file = level0[i]
    BY <2>2, <2>3
  <2> HIDE DEF A, W
  <2>5. A \in Seq(W) /\ Len(A) = n
    BY <2>4, FcnIsSeq
  <2>6. \A i, j \in 1..n : i < j => ReadBefore(A[i], A[j])
    BY <2>1, <2>2, <2>4 DEF ReadBefore
  <2>7. \A f \in ToSet(v[0]) : f.smallest.key <= k /\ k <= f.largest.key => Reads(A, f)
    BY <2>1, <2>2, <2>4, <2>5 DEF Reads
  <2>8. Len(A) > 0 => 1 \in 1..n
    BY <2>5
  <2> QED
    BY <2>4, <2>5, <2>6, <2>7, <2>8
<1>4. /\ B \in Seq(W) /\ (Len(B) >= 2 => B[1].level <= kNumLevels - 2)
      /\ \A i, j \in 1..Len(B) : i < j => ReadBefore(B[i], B[j])
      /\ \A i \in 1..Len(B) : B[i].level > 0
      /\ \A l \in Level \ {0} :
           FileIndex(v, l, k, s) <= Len(v[l]) /\ v[l][FileIndex(v, l, k, s)].smallest.key <= k =>
             Reads(B, v[l][FileIndex(v, l, k, s)])
  <2>1. /\ deeper \in Seq(Level)
        /\ \A i \in 1..Len(deeper) : FileIndex(v, deeper[i], k, s) <= Len(v[deeper[i]])
        /\ Len(deeper) >= 2 => deeper[1] <= kNumLevels - 2
        /\ \A i, j \in 1..Len(deeper) : i < j => deeper[i] < deeper[j]
        /\ \A i \in 1..Len(deeper) : deeper[i] # 0
        /\ \A l \in Level \ {0} :
             FileIndex(v, l, k, s) <= Len(v[l]) /\ v[l][FileIndex(v, l, k, s)].smallest.key <= k =>
               \E i \in 1..Len(deeper) : deeper[i] = l
    <3>1. /\ deeper \in Seq(Level)
          /\ \A i \in 1..Len(deeper) : FileIndex(v, deeper[i], k, s) <= Len(v[deeper[i]])
          /\ Len(deeper) >= 2 => deeper[1] <= kNumLevels - 2
      BY DeeperInOrder
    <3>2. /\ \A i, j \in 1..Len(deeper) : i < j => deeper[i] < deeper[j]
          /\ \A i \in 1..Len(deeper) : deeper[i] # 0
      BY DeeperInOrder
    <3>3. \A l \in Level \ {0} :
            FileIndex(v, l, k, s) <= Len(v[l]) /\ v[l][FileIndex(v, l, k, s)].smallest.key <= k =>
              \E i \in 1..Len(deeper) : deeper[i] = l
      BY DeeperInOrder
    <3> HIDE DEF deeper
    <3> QED
      BY <3>1, <3>2, <3>3
  <2> HIDE DEF deeper
  <2>2. PICK n \in Nat : n = Len(deeper) /\ DOMAIN deeper = 1..n /\ \A i \in 1..n : deeper[i] \in Level
    BY <2>1, LenProperties, ElementOfSeq
  <2>3. ASSUME NEW i \in 1..n
        PROVE  [level |-> deeper[i], file |-> v[deeper[i]][FileIndex(v, deeper[i], k, s)]] \in W
    <3>1. PICK l \in Level : l = deeper[i]
      BY <2>2
    <3>2. PICK j : j = FileIndex(v, l, k, s)
      OBVIOUS
    <3>3. v[l] \in Seq(ToSet(v[l])) /\ Len(v[l]) \in Nat /\ DOMAIN v[l] = 1..Len(v[l])
      <4>1. v[l] \in Seq(ToSet(v[l]))
        BY DEF VersionOK
      <4> QED
        BY <4>1, LenProperties
    <3>4. j \in 1..(Len(v[l]) + 1)
      BY <3>2, <3>3, FindFileIndex DEF FileIndex
    <3>5. j <= Len(v[l])
      BY <2>1, <2>2, <3>1, <3>2
    <3>6. v[l][j] \in ToSet(v[l])
      <4>1. j \in DOMAIN v[l]
        BY <3>3, <3>4, <3>5
      <4> QED
        BY <4>1 DEF ToSet
    <3> QED
      BY <3>1, <3>2, <3>6, <1>2
  <2>4. /\ B \in [1..n -> W] /\ \A i \in 1..n : B[i].level = deeper[i]
        /\ \A i \in 1..n : B[i].file = v[deeper[i]][FileIndex(v, deeper[i], k, s)]
    BY <2>2, <2>3
  <2> HIDE DEF B, W
  <2>5. B \in Seq(W) /\ Len(B) = n
    BY <2>4, FcnIsSeq
  <2>6. \A i, j \in 1..n : i < j => ReadBefore(B[i], B[j])
    BY <2>1, <2>2, <2>4 DEF ReadBefore
  <2>7. \A i \in 1..n : B[i].level > 0
    <3>1. \A l \in Level : l # 0 => l > 0
      BY VersionAssumption DEF Level
    <3> QED
      BY <3>1, <2>1, <2>2, <2>4
  <2>8. \A l \in Level \ {0} :
          FileIndex(v, l, k, s) <= Len(v[l]) /\ v[l][FileIndex(v, l, k, s)].smallest.key <= k =>
            Reads(B, v[l][FileIndex(v, l, k, s)])
    BY <2>1, <2>2, <2>4, <2>5 DEF Reads
  <2> QED
    BY <2>1, <2>2, <2>4, <2>5, <2>6, <2>7, <2>8
<1>5. \A w \in W : w.level \in Level /\ w.file \in ToSet(v[w.level])
  OBVIOUS
<1> HIDE DEF A, B, W, q
<1>6. /\ q \in Seq(W) /\ Len(A) \in Nat /\ Len(B) \in Nat /\ Len(q) = Len(A) + Len(B)
      /\ \A i \in 1..Len(q) : q[i] = IF i <= Len(A) THEN A[i] ELSE B[i - Len(A)]
  BY <1>1, <1>3, <1>4, ConcatProperties, LenProperties
<1>7. DOMAIN q = 1..Len(q) /\ Len(q) \in Nat /\ \A i \in 1..Len(q) : q[i] \in W
  BY <1>6, ElementOfSeq, LenProperties
<1>8. ASSUME Len(q) >= 2 PROVE q[1].level <= kNumLevels - 2
  <2>1. 1 \in 1..Len(q)
    BY <1>7, <1>8
  <2>2. CASE Len(A) > 0
    <3>1. q[1] = A[1]
      BY <2>1, <2>2, <1>6
    <3> QED
      BY <3>1, <2>2, <1>2, <1>3
  <2>3. CASE Len(A) = 0
    <3>1. q[1] = B[1] /\ Len(B) >= 2
      BY <2>1, <2>3, <1>6, <1>8
    <3> QED
      BY <3>1, <1>4
  <2> QED
    BY <2>2, <2>3, <1>6
<1>9. ASSUME NEW i \in 1..Len(q), NEW j \in 1..Len(q), i < j PROVE ReadBefore(q[i], q[j])
  <2>1. CASE j <= Len(A)
    <3>1. i \in 1..Len(A) /\ j \in 1..Len(A) /\ q[i] = A[i] /\ q[j] = A[j]
      BY <2>1, <1>6, <1>9
    <3> QED
      BY <3>1, <1>3, <1>9
  <2>2. CASE i <= Len(A) /\ ~(j <= Len(A))
    <3>1. i \in 1..Len(A) /\ j - Len(A) \in 1..Len(B) /\ q[i] = A[i] /\ q[j] = B[j - Len(A)]
      BY <2>2, <1>6
    <3>2. q[i].level = 0 /\ q[j].level > 0 /\ q[j].level \in Nat
      <4>1. q[j].level \in Nat
        BY <1>5, <1>7, VersionAssumption DEF Level
      <4> QED
        BY <4>1, <3>1, <1>3, <1>4
    <3> QED
      BY <3>2 DEF ReadBefore
  <2>3. CASE ~(i <= Len(A)) /\ ~(j <= Len(A))
    <3>1. PICK x, y : x = i - Len(A) /\ y = j - Len(A)
      OBVIOUS
    <3>2. x \in 1..Len(B) /\ y \in 1..Len(B) /\ x < y /\ q[i] = B[x] /\ q[j] = B[y]
      BY <3>1, <2>3, <1>6, <1>9
    <3> QED
      BY <3>2, <1>4
  <2> QED
    BY <2>1, <2>2, <2>3, <1>6, <1>9
<1>10. ASSUME NEW f, Reads(A, f) \/ Reads(B, f) PROVE Reads(q, f)
  <2>1. CASE Reads(A, f)
    <3>1. PICK i \in 1..Len(A) : A[i].file = f
      BY <2>1 DEF Reads
    <3>2. i \in 1..Len(q) /\ q[i] = A[i]
      BY <1>6
    <3> QED
      BY <3>1, <3>2 DEF Reads
  <2>2. CASE Reads(B, f)
    <3>1. PICK i \in 1..Len(B) : B[i].file = f
      BY <2>2 DEF Reads
    <3>2. PICK j : j = i + Len(A)
      OBVIOUS
    <3>3. j \in 1..Len(q) /\ ~(j <= Len(A)) /\ j - Len(A) = i
      BY <3>2, <1>6
    <3>4. q[j] = B[i]
      BY <3>3, <1>6
    <3> QED
      BY <3>1, <3>3, <3>4 DEF Reads
  <2> QED
    BY <1>10, <2>1, <2>2
<1>11. /\ \A f \in ToSet(v[0]) : f.smallest.key <= k /\ k <= f.largest.key => Reads(q, f)
       /\ \A l \in Level \ {0} :
            FileIndex(v, l, k, s) <= Len(v[l]) /\ v[l][FileIndex(v, l, k, s)].smallest.key <= k =>
              Reads(q, v[l][FileIndex(v, l, k, s)])
  BY <1>3, <1>4, <1>10
<1> QED
  BY <1>5, <1>7, <1>8, <1>9, <1>11 DEF q

\* UpdateStats: the file that a read charges with a seek.
SeekFileOK(v, x) ==
  x # <<>> => /\ x = <<x[1]>> /\ x[1].level \in 0..(kNumLevels - 2)
              /\ x[1].file \in ToSet(v[x[1].level])

LEMMA ChargedFile ==
  ASSUME NEW H, EntriesOK(H), NEW v, VersionOK(v, H), NEW k, NEW s
  PROVE  SeekFileOK(v, VersionGet(v, k, s).seek_file)
<1> DEFINE files == SearchOrder(v, k, s)
           hits == {i \in DOMAIN files : InFile(files[i].file, k, s) # {}}
           read == IF hits = {} THEN Len(files) ELSE Min(hits)
           x == VersionGet(v, k, s).seek_file
<1>1. x = IF read > 1 THEN <<files[1]>> ELSE <<>>
  BY DEF VersionGet
<1>2. /\ Len(files) \in Nat /\ DOMAIN files = 1..Len(files)
      /\ \A i \in 1..Len(files) : files[i].level \in Level /\ files[i].file \in ToSet(v[files[i].level])
      /\ Len(files) >= 2 => files[1].level <= kNumLevels - 2
  BY SearchFiles
<1> HIDE DEF files
<1>3. hits \subseteq 1..Len(files) /\ hits \subseteq 0..Len(files)
  BY <1>2
<1> HIDE DEF hits
<1>4. ASSUME read > 1 PROVE Len(files) >= 2
  <2>1. CASE hits = {}
    BY <2>1, <1>2, <1>4
  <2>2. CASE hits # {}
    <3>1. Min(hits) \in hits
      BY <2>2, <1>2, <1>3, MinMax
    <3>2. Min(hits) \in 1..Len(files) /\ Min(hits) > 1
      BY <3>1, <2>2, <1>3, <1>4
    <3> QED
      BY <3>2, <1>2
  <2> QED
    BY <2>1, <2>2
<1> HIDE DEF read, x
<1>5. ASSUME x # <<>>
      PROVE  x = <<x[1]>> /\ x[1].level \in 0..(kNumLevels - 2) /\ x[1].file \in ToSet(v[x[1].level])
  <2>1. x = <<files[1]>> /\ Len(files) >= 2
    BY <1>1, <1>4, <1>5
  <2>2. x[1] = files[1] /\ 1 \in 1..Len(files)
    BY <2>1, <1>2
  <2>3. files[1].level \in Level /\ files[1].file \in ToSet(v[files[1].level]) /\ files[1].level <= kNumLevels - 2
    BY <2>1, <2>2, <1>2
  <2> QED
    BY <2>1, <2>2, <2>3, VersionAssumption DEF Level
<1> QED
  BY <1>5 DEF SeekFileOK, x

LEMMA SampledFile ==
  ASSUME NEW H, EntriesOK(H), NEW v, VersionOK(v, H), NEW e
  PROVE  SeekFileOK(v, ReadSample(v, e))
<1> DEFINE files == SearchOrder(v, e.key, e.seq)
           x == ReadSample(v, e)
<1>1. x = IF Len(files) >= 2 THEN <<files[1]>> ELSE <<>>
  BY DEF ReadSample
<1>2. /\ Len(files) \in Nat /\ DOMAIN files = 1..Len(files)
      /\ \A i \in 1..Len(files) : files[i].level \in Level /\ files[i].file \in ToSet(v[files[i].level])
      /\ Len(files) >= 2 => files[1].level <= kNumLevels - 2
  BY SearchFiles
<1> HIDE DEF files, x
<1>3. ASSUME x # <<>>
      PROVE  x = <<x[1]>> /\ x[1].level \in 0..(kNumLevels - 2) /\ x[1].file \in ToSet(v[x[1].level])
  <2>1. x = <<files[1]>> /\ Len(files) >= 2
    BY <1>1, <1>3
  <2>2. x[1] = files[1] /\ 1 \in 1..Len(files)
    BY <2>1, <1>2
  <2>3. files[1].level \in Level /\ files[1].file \in ToSet(v[files[1].level]) /\ files[1].level <= kNumLevels - 2
    BY <2>1, <2>2, <1>2
  <2> QED
    BY <2>1, <2>2, <2>3, VersionAssumption DEF Level
<1> QED
  BY <1>3 DEF SeekFileOK, x

-----------------------------------------------------------------------------
(* The inputs of a compaction. *)

\* GetRange: keys, between which the files lie.
LEMMA RangeOfFiles ==
  ASSUME NEW H, EntriesOK(H), NEW files, \A f \in ToSet(files) : FileIs(f, H), ToSet(files) # {}
  PROVE  LET r == GetRange(files)
         IN /\ r.start.key \in 0..NoEnd /\ r.limit.key \in 0..NoEnd
            /\ \A v, l : \A f \in ToSet(files) :
                 f \in ToSet(v[l]) => f \in InRange(v, l, r.start.key, r.limit.key)
            /\ r.start.key \in Key /\ r.limit.key \in Key
            /\ \A e \in EntriesOf(files) : r.start.key <= e.key /\ e.key <= r.limit.key
            /\ \E x \in ToSet(files) : x.smallest.key <= r.start.key
            /\ \E y \in ToSet(files) : r.limit.key <= y.largest.key
<1> DEFINE E == EntriesOf(files)
           r == GetRange(files)
<1>1. E \in SUBSET H
  BY FileSizes
<1>2. \A f \in ToSet(files) : f.smallest \in E /\ f.largest \in E
  BY DEF EntriesOf, FileIs
<1>3. E # {}
  BY <1>2
<1>4. r.start = First(E) /\ r.limit = Final(E)
  BY DEF GetRange
<1> HIDE DEF E, r
<1>5. /\ r.start \in E /\ r.limit \in E
      /\ \A e \in E : ~Before(e, r.start) /\ ~Before(r.limit, e)
  BY <1>1, <1>3, <1>4, Bounds
<1>6. \A e \in E : e.key \in Nat /\ e.key \in Key
  BY <1>1, EntryOrder
<1>7. \A e \in E : r.start.key <= e.key /\ e.key <= r.limit.key
  BY <1>5, <1>6 DEF Before
<1>8. r.start.key \in 0..NoEnd /\ r.limit.key \in 0..NoEnd
  BY <1>5, <1>6, VersionAssumption DEF Key, NoEnd
<1>9. ASSUME NEW v, NEW l, NEW f \in ToSet(files), f \in ToSet(v[l])
      PROVE  f \in InRange(v, l, r.start.key, r.limit.key)
  <2>1. r.start.key <= f.largest.key /\ f.smallest.key <= r.limit.key
    BY <1>2, <1>7
  <2>2. f.largest.key \in Nat /\ f.smallest.key \in Nat /\ r.start.key \in Nat /\ r.limit.key \in Nat
    BY <1>2, <1>5, <1>6
  <2>3. ~AfterFile(r.start.key, f) /\ ~BeforeFile(r.limit.key, f)
    BY <2>1, <2>2 DEF AfterFile, BeforeFile
  <2> QED
    BY <2>3, <1>9 DEF InRange
<1>10. /\ \E x \in ToSet(files) : x.smallest.key <= r.start.key
       /\ \E y \in ToSet(files) : r.limit.key <= y.largest.key
  <2>1. /\ \E x \in ToSet(files) : r.start \in x.entries
        /\ \E y \in ToSet(files) : r.limit \in y.entries
    BY <1>5 DEF E, EntriesOf
  <2> QED
    BY <2>1, FileKeys
<1>11. r.start.key \in Key /\ r.limit.key \in Key
  BY <1>5, <1>6
<1> QED
  BY <1>7, <1>8, <1>9, <1>10, <1>11 DEF r, E

\* The files that GetOverlappingInputs returns form a sequence.
LEMMA OverlappingSeq ==
  ASSUME NEW H, EntriesOK(H), NEW v, VersionOK(v, H), NEW l \in Level,
         NEW b \in 0..NoEnd, NEW e \in 0..NoEnd
  PROVE  /\ GetOverlappingInputs(v, l, b, e) \in Seq(ToSet(v[l]))
         /\ InRange(v, l, b, e) \subseteq ToSet(GetOverlappingInputs(v, l, b, e))
         /\ l > 0 => ToSet(GetOverlappingInputs(v, l, b, e)) = InRange(v, l, b, e)
         /\ l = 0 => Closed(v, ToSet(GetOverlappingInputs(v, l, b, e)))
<1>1. FilesAre(ToSet(v[l]), H)
  BY DEF VersionOK
<1>2. PICK r : IsOverlap(v, l, b, e, r)
  BY <1>1, OverlappingInputs
<1>3. PICK S, W, q : /\ S = InRange(v, l, r[1], r[2]) /\ W = ToSet(v[l])
                     /\ q = GetOverlappingInputs(v, l, b, e)
  OBVIOUS
<1>4. r[1] \in 0..NoEnd /\ r[2] \in 0..NoEnd /\ r[1] <= b /\ e <= r[2]
  BY <1>2 DEF IsOverlap, Ranges
<1>5. q = FileOrder(S) /\ (l > 0 => S = InRange(v, l, b, e))
  <2>1. q = FileOrder(S)
    BY <1>2, <1>3 DEF IsOverlap
  <2>2. l > 0 => r[1] = b /\ r[2] = e
    BY <1>2 DEF IsOverlap
  <2> QED
    BY <2>1, <2>2, <1>3
<1>6. InRange(v, l, b, e) \subseteq S
  BY <1>1, <1>3, <1>4, InRangeGrows
<1>7. S \subseteq W
  BY <1>3 DEF InRange
<1>8. FilesAre(S, H)
  <2>1. FilesAre(W, H)
    BY <1>1, <1>3
  <2> QED
    BY <2>1, <1>7, FS_Subset DEF FilesAre
<1>9. q \in Seq(S) /\ ToSet(q) = S
  BY <1>5, <1>8, FilesInOrder
<1>10. q \in Seq(W)
  BY <1>7, <1>9
<1>11. l = 0 => Closed(v, S)
  <2>1. l = 0 => ExtendedRange(v, 0, r) = r /\ r \in Ranges
    BY <1>2 DEF IsOverlap
  <2> QED
    BY <2>1, <1>1, <1>3, RangeIsClosed
<1> QED
  BY <1>3, <1>5, <1>6, <1>9, <1>10, <1>11

\* A sequence of files is not empty when it has a file.
LEMMA SeqFiles ==
  ASSUME NEW S, NEW q \in Seq(S)
  PROVE  /\ ToSet(q) \subseteq S /\ Len(q) \in Nat /\ DOMAIN q = 1..Len(q)
         /\ q # <<>> <=> ToSet(q) # {}
         /\ q # <<>> <=> Len(q) > 0
         /\ q # <<>> => Head(q) \in S /\ q[1] \in S /\ Head(q) = q[1] /\ Head(q) \in ToSet(q)
         /\ Len(q) = 1 => ToSet(q) = {Head(q)}
<1>1. DOMAIN q = 1..Len(q) /\ Len(q) \in Nat /\ \A i \in 1..Len(q) : q[i] \in S
  BY LenProperties, ElementOfSeq
<1>2. q # <<>> <=> Len(q) > 0
  BY <1>1, EmptySeq
<1>3. Head(q) = q[1]
  OBVIOUS
<1>4. ToSet(q) = {q[i] : i \in 1..Len(q)}
  BY <1>1 DEF ToSet
<1>5. ToSet(q) # {} <=> Len(q) > 0
  BY <1>1, <1>4
<1>6. Len(q) = 1 => ToSet(q) = {q[1]}
  BY <1>1, <1>4
<1> QED
  BY <1>1, <1>2, <1>3, <1>4, <1>5, <1>6

\* The files of two sequences together.
LEMMA ConcatFiles ==
  ASSUME NEW S, NEW p \in Seq(S), NEW q \in Seq(S)
  PROVE  p \o q \in Seq(S) /\ ToSet(p \o q) = ToSet(p) \cup ToSet(q)
<1>1. PICK m \in Nat, n \in Nat : m = Len(p) /\ n = Len(q)
  BY LenProperties
<1>2. PICK r : r = p \o q
  OBVIOUS
<1>3. /\ r \in Seq(S) /\ Len(r) = m + n /\ DOMAIN r = 1..(m + n) /\ DOMAIN p = 1..m /\ DOMAIN q = 1..n
      /\ \A i \in 1..(m + n) : r[i] = IF i <= m THEN p[i] ELSE q[i - m]
  BY <1>1, <1>2, ConcatProperties, LenProperties
<1>4. ToSet(r) \subseteq ToSet(p) \cup ToSet(q)
  <2> SUFFICES ASSUME NEW i \in 1..(m + n) PROVE r[i] \in ToSet(p) \cup ToSet(q)
    BY <1>3 DEF ToSet
  <2>1. i \in 1..m \/ (~(i <= m) /\ i - m \in 1..n)
    OBVIOUS
  <2> QED
    BY <2>1, <1>3 DEF ToSet
<1>5. ToSet(p) \subseteq ToSet(r)
  <2> SUFFICES ASSUME NEW i \in 1..m PROVE \E j \in 1..(m + n) : r[j] = p[i]
    BY <1>3 DEF ToSet
  <2>1. i \in 1..(m + n) /\ r[i] = p[i]
    BY <1>3
  <2> QED
    BY <2>1
<1>6. ToSet(q) \subseteq ToSet(r)
  <2> SUFFICES ASSUME NEW i \in 1..n PROVE \E j \in 1..(m + n) : r[j] = q[i]
    <3>1. ASSUME \A i \in 1..n : \E j \in 1..(m + n) : r[j] = q[i], NEW x \in ToSet(q)
          PROVE  x \in ToSet(r)
      <4>1. PICK i \in 1..n : x = q[i]
        BY <1>3, <3>1 DEF ToSet
      <4>2. PICK j \in 1..(m + n) : r[j] = q[i]
        BY <3>1
      <4> QED
        BY <4>1, <4>2, <1>3 DEF ToSet
    <3> QED
      BY <3>1
  <2>1. i + m \in 1..(m + n) /\ ~(i + m <= m) /\ (i + m) - m = i
    OBVIOUS
  <2>2. r[i + m] = q[i]
    BY <2>1, <1>3
  <2> QED
    BY <2>1, <2>2
<1> QED
  BY <1>2, <1>3, <1>4, <1>5, <1>6

\* More files have a larger range.
LEMMA RangeGrows ==
  ASSUME NEW H, EntriesOK(H), NEW p, NEW q, \A f \in ToSet(q) : FileIs(f, H),
         ToSet(p) # {}, ToSet(p) \subseteq ToSet(q)
  PROVE  /\ GetRange(q).start.key <= GetRange(p).start.key
         /\ GetRange(p).limit.key <= GetRange(q).limit.key
<1>1. PICK r, t : r = GetRange(p) /\ t = GetRange(q)
  OBVIOUS
<1>2. /\ r.start.key \in Key /\ r.limit.key \in Key
      /\ \E x \in ToSet(p) : x.smallest.key <= r.start.key
      /\ \E y \in ToSet(p) : r.limit.key <= y.largest.key
  BY <1>1, RangeOfFiles
<1>3. /\ t.start.key \in Key /\ t.limit.key \in Key
      /\ \A e \in EntriesOf(q) : t.start.key <= e.key /\ e.key <= t.limit.key
  <2>1. ToSet(q) # {}
    OBVIOUS
  <2> QED
    BY <1>1, <2>1, RangeOfFiles
<1>4. \A f \in ToSet(p) : /\ f.smallest \in EntriesOf(q) /\ f.largest \in EntriesOf(q)
                          /\ f.smallest.key \in Nat /\ f.largest.key \in Nat
  <2>1. \A f \in ToSet(q) : f.smallest \in EntriesOf(q) /\ f.largest \in EntriesOf(q)
    BY DEF EntriesOf, FileIs
  <2>2. \A f \in ToSet(q) : f.smallest.key \in Nat /\ f.largest.key \in Nat
    BY FileKeys
  <2> QED
    BY <2>1, <2>2
<1>5. Key \subseteq Nat
  BY VersionAssumption DEF Key
<1>6. t.start.key <= r.start.key
  <2>1. PICK x \in ToSet(p) : x.smallest.key <= r.start.key
    BY <1>2
  <2>2. t.start.key <= x.smallest.key /\ x.smallest.key \in Nat
    BY <2>1, <1>3, <1>4
  <2>3. t.start.key \in Nat /\ r.start.key \in Nat
    BY <1>2, <1>3, <1>5
  <2> QED
    BY <2>1, <2>2, <2>3
<1>7. r.limit.key <= t.limit.key
  <2>1. PICK y \in ToSet(p) : r.limit.key <= y.largest.key
    BY <1>2
  <2>2. y.largest.key <= t.limit.key /\ y.largest.key \in Nat
    BY <2>1, <1>3, <1>4
  <2>3. t.limit.key \in Nat /\ r.limit.key \in Nat
    BY <1>2, <1>3, <1>5
  <2> QED
    BY <2>1, <2>2, <2>3
<1> QED
  BY <1>1, <1>6, <1>7

\* The files of a level have the levels of c.
InputsOK(v, c) ==
  /\ c.level \in 0..(kNumLevels - 2)
  /\ c.inputs0 \in Seq(ToSet(v[c.level])) /\ c.inputs0 # <<>>
  /\ c.inputs1 \in Seq(ToSet(v[c.level + 1]))

LEMMA OverlappingFiles ==
  ASSUME NEW H, EntriesOK(H), VersionOK(levels, H), NEW l \in Level,
         NEW files, \A f \in ToSet(files) : FileIs(f, H), ToSet(files) # {}
  PROVE  /\ Overlapping(l, GetRange(files)) \in Seq(ToSet(levels[l]))
         /\ \A f \in ToSet(files) : f \in ToSet(levels[l]) => f \in ToSet(Overlapping(l, GetRange(files)))
         /\ l > 0 => ToSet(Overlapping(l, GetRange(files))) =
                       InRange(levels, l, GetRange(files).start.key, GetRange(files).limit.key)
         /\ l = 0 => Closed(levels, ToSet(Overlapping(l, GetRange(files))))
         /\ \A C : /\ Connected(C) /\ ToSet(files) \subseteq C /\ (\A f \in C : FileIs(f, H))
                  => Connected(C \cup ToSet(Overlapping(l, GetRange(files))))
<1> DEFINE r == GetRange(files)
<1>1. /\ r.start.key \in 0..NoEnd /\ r.limit.key \in 0..NoEnd
      /\ \A f \in ToSet(files) :
           f \in ToSet(levels[l]) => f \in InRange(levels, l, r.start.key, r.limit.key)
  BY RangeOfFiles
<1> HIDE DEF r
<1>2. Overlapping(l, r) = GetOverlappingInputs(levels, l, r.start.key, r.limit.key)
  BY DEF Overlapping
<1>3. /\ Overlapping(l, r) \in Seq(ToSet(levels[l]))
      /\ InRange(levels, l, r.start.key, r.limit.key) \subseteq ToSet(Overlapping(l, r))
      /\ l > 0 => ToSet(Overlapping(l, r)) = InRange(levels, l, r.start.key, r.limit.key)
      /\ l = 0 => Closed(levels, ToSet(Overlapping(l, r)))
  <2>1. PICK b \in 0..NoEnd, e \in 0..NoEnd : b = r.start.key /\ e = r.limit.key
    BY <1>1
  <2>2. PICK v : v = levels
    OBVIOUS
  <2>3. /\ GetOverlappingInputs(v, l, b, e) \in Seq(ToSet(v[l]))
        /\ InRange(v, l, b, e) \subseteq ToSet(GetOverlappingInputs(v, l, b, e))
        /\ l > 0 => ToSet(GetOverlappingInputs(v, l, b, e)) = InRange(v, l, b, e)
        /\ l = 0 => Closed(v, ToSet(GetOverlappingInputs(v, l, b, e)))
    BY <2>2, OverlappingSeq
  <2> QED
    BY <1>2, <2>1, <2>2, <2>3
<1>4. ASSUME NEW C, Connected(C), ToSet(files) \subseteq C, \A f \in C : FileIs(f, H)
      PROVE  Connected(C \cup ToSet(Overlapping(l, r)))
  <2>1. FilesAre(ToSet(levels[l]), H)
    BY DEF VersionOK
  <2>2. /\ r.start.key \in Key /\ r.limit.key \in Key
        /\ \E x \in ToSet(files) : x.smallest.key <= r.start.key
        /\ \E y \in ToSet(files) : r.limit.key <= y.largest.key
    BY RangeOfFiles DEF r
  <2>3. /\ \E x \in C : x.smallest.key <= r.start.key
        /\ \E y \in C : r.limit.key <= y.largest.key
    BY <2>2, <1>4
  <2> QED
    BY <2>1, <2>2, <2>3, <1>2, <1>4, OverlappingConnected
<1> QED
  BY <1>1, <1>3, <1>4 DEF r

\* SetupOtherInputs takes files of the current version.
LEMMA SetupInputs ==
  ASSUME NEW H, EntriesOK(H), VersionOK(levels, H), NEW l \in 0..(kNumLevels - 2),
         NEW inputs0 \in Seq(ToSet(levels[l])), inputs0 # <<>>
  PROVE  LET c == SetupOtherInputs(l, inputs0)
         IN /\ InputsOK(levels, c) /\ c.level = l
            /\ c.inputs1 = NextLevelInputs(l, c.inputs0)
            /\ Connected(ToSet(inputs0)) => Connected(ToSet(c.inputs0) \cup ToSet(c.inputs1))
            /\ l = 0 /\ Closed(levels, ToSet(inputs0)) => Closed(levels, ToSet(c.inputs0))
<1> DEFINE inputs1 == NextLevelInputs(l, inputs0)
           expanded0 == Overlapping(l, GetRange(inputs0 \o inputs1))
           expanded1 == NextLevelInputs(l, expanded0)
           grow == Expand(inputs0, inputs1, expanded0, expanded1)
           c == SetupOtherInputs(l, inputs0)
<1>1. l \in Level /\ l + 1 \in Level
  BY VersionAssumption DEF Level
<1>2. \A m \in Level : \A f \in ToSet(levels[m]) : FileIs(f, H)
  BY DEF VersionOK, FilesAre
<1>3. ToSet(inputs0) \subseteq ToSet(levels[l]) /\ ToSet(inputs0) # {} /\ Len(inputs0) \in Nat
  BY SeqFiles
<1>4. /\ inputs1 \in Seq(ToSet(levels[l + 1]))
      /\ Connected(ToSet(inputs0)) => Connected(ToSet(inputs0) \cup ToSet(inputs1))
      /\ ToSet(inputs1) = InRange(levels, l + 1, GetRange(inputs0).start.key, GetRange(inputs0).limit.key)
  <2>1. \A f \in ToSet(inputs0) : FileIs(f, H)
    BY <1>1, <1>2, <1>3
  <2>2. l + 1 > 0
    OBVIOUS
  <2> QED
    BY <2>1, <2>2, <1>1, <1>3, OverlappingFiles DEF NextLevelInputs
<1> HIDE DEF inputs1
<1>5. /\ expanded0 \in Seq(ToSet(levels[l])) /\ ToSet(inputs0) \subseteq ToSet(expanded0)
      /\ LET C == ToSet(inputs0) \cup ToSet(inputs1)
         IN Connected(C) => Connected(C \cup ToSet(expanded0))
      /\ l = 0 => Closed(levels, ToSet(expanded0))
  <2> DEFINE both == inputs0 \o inputs1
             W == ToSet(levels[l]) \cup ToSet(levels[l + 1])
  <2>1. inputs0 \in Seq(W) /\ inputs1 \in Seq(W)
    BY <1>4
  <2> HIDE DEF W
  <2>2. both \in Seq(W) /\ ToSet(both) = ToSet(inputs0) \cup ToSet(inputs1)
    BY <2>1, ConcatFiles
  <2> HIDE DEF both
  <2>3. ToSet(both) \subseteq W /\ ToSet(both) # {}
    BY <2>2, <1>3, SeqFiles
  <2>4. \A f \in ToSet(both) : FileIs(f, H)
    BY <2>3, <1>1, <1>2 DEF W
  <2>5. /\ expanded0 \in Seq(ToSet(levels[l]))
        /\ \A f \in ToSet(both) : f \in ToSet(levels[l]) => f \in ToSet(expanded0)
        /\ Connected(ToSet(both)) => Connected(ToSet(both) \cup ToSet(expanded0))
        /\ l = 0 => Closed(levels, ToSet(expanded0))
    BY <2>3, <2>4, <1>1, OverlappingFiles DEF both
  <2> QED
    BY <2>2, <2>5, <1>3
<1> HIDE DEF expanded0
<1>6. ASSUME grow
      PROVE  /\ expanded0 # <<>> /\ expanded1 \in Seq(ToSet(levels[l + 1]))
             /\ Connected(ToSet(inputs0)) => Connected(ToSet(expanded0) \cup ToSet(expanded1))
  <2>1. Len(expanded0) > Len(inputs0)
    BY <1>6 DEF Expand
  <2>2. expanded0 # <<>>
    BY <2>1, <1>3, <1>5, SeqFiles
  <2>3. ToSet(expanded0) \subseteq ToSet(levels[l]) /\ ToSet(expanded0) # {}
    BY <2>2, <1>5, SeqFiles
  <2>4. \A f \in ToSet(expanded0) : FileIs(f, H)
    BY <2>3, <1>1, <1>2
  <2>5. PICK C : C = ToSet(inputs0) \cup ToSet(inputs1) \cup ToSet(expanded0)
    OBVIOUS
  <2>6. \A f \in C : FileIs(f, H)
    <3>1. ToSet(inputs1) \subseteq ToSet(levels[l + 1])
      BY <1>4, SeqFiles
    <3> QED
      BY <3>1, <2>4, <2>5, <1>1, <1>2, <1>3
  <2>7. /\ expanded1 \in Seq(ToSet(levels[l + 1]))
        /\ Connected(C) => Connected(C \cup ToSet(expanded1))
        /\ ToSet(expanded1) = InRange(levels, l + 1, GetRange(expanded0).start.key, GetRange(expanded0).limit.key)
    <3>1. l + 1 > 0
      OBVIOUS
    <3> QED
      BY <3>1, <2>3, <2>4, <2>5, <2>6, <1>1, OverlappingFiles DEF NextLevelInputs
  <2> HIDE DEF expanded1
  <2>8. ToSet(inputs1) \subseteq ToSet(expanded1)
    <3>1. PICK r, t : r = GetRange(inputs0) /\ t = GetRange(expanded0)
      OBVIOUS
    <3>2. r.start.key \in 0..NoEnd /\ r.limit.key \in 0..NoEnd
      <4>1. \A f \in ToSet(inputs0) : FileIs(f, H)
        BY <1>1, <1>2, <1>3
      <4> QED
        BY <3>1, <4>1, <1>3, RangeOfFiles
    <3>3. t.start.key \in 0..NoEnd /\ t.limit.key \in 0..NoEnd
      BY <3>1, <2>3, <2>4, RangeOfFiles
    <3>4. t.start.key <= r.start.key /\ r.limit.key <= t.limit.key
      BY <3>1, <2>4, <1>3, <1>5, RangeGrows
    <3>5. FilesAre(ToSet(levels[l + 1]), H)
      BY <1>1 DEF VersionOK
    <3>6. InRange(levels, l + 1, r.start.key, r.limit.key) \subseteq InRange(levels, l + 1, t.start.key, t.limit.key)
      <4>1. PICK v, m : v = levels /\ m = l + 1
        OBVIOUS
      <4>2. FilesAre(ToSet(v[m]), H)
        BY <4>1, <3>5
      <4>3. PICK a, b, d, e : a = r.start.key /\ b = r.limit.key /\ d = t.start.key /\ e = t.limit.key
        OBVIOUS
      <4>4. a \in 0..NoEnd /\ b \in 0..NoEnd /\ d \in 0..NoEnd /\ e \in 0..NoEnd /\ d <= a /\ b <= e
        BY <4>3, <3>2, <3>3, <3>4
      <4>5. InRange(v, m, a, b) \subseteq InRange(v, m, d, e)
        BY <4>2, <4>4, InRangeGrows
      <4> QED
        BY <4>1, <4>3, <4>5
    <3> QED
      BY <3>1, <3>6, <2>7, <1>4
  <2>9. C \cup ToSet(expanded1) = ToSet(expanded0) \cup ToSet(expanded1)
    BY <2>5, <2>8, <1>5
  <2> QED
    BY <2>2, <2>5, <2>7, <2>9, <1>4, <1>5
<1>7. /\ c.level = l
      /\ c.inputs0 = (IF grow THEN expanded0 ELSE inputs0)
      /\ c.inputs1 = (IF grow THEN expanded1 ELSE inputs1)
  BY DEF SetupOtherInputs, inputs1, expanded0
<1>8. c.inputs1 = NextLevelInputs(l, c.inputs0)
  BY <1>7 DEF inputs1
<1> HIDE DEF c, grow, expanded1
<1>9. InputsOK(levels, c)
  BY <1>4, <1>5, <1>6, <1>7 DEF InputsOK
<1>10. Connected(ToSet(inputs0)) => Connected(ToSet(c.inputs0) \cup ToSet(c.inputs1))
  BY <1>4, <1>6, <1>7
<1>11. l = 0 /\ Closed(levels, ToSet(inputs0)) => Closed(levels, ToSet(c.inputs0))
  BY <1>5, <1>7
<1> QED
  BY <1>7, <1>8, <1>9, <1>10, <1>11 DEF c

\* PickCompaction takes a file of the current version.
LEMMA PickedInputsOK ==
  ASSUME NEW H, EntriesOK(H), VersionOK(levels, H), SeekFileOK(levels, file_to_compact),
         NeedsCompaction
  PROVE  LET p == PickedInputs
         IN /\ p.level \in 0..(kNumLevels - 2)
            /\ p.inputs0 \in Seq(ToSet(levels[p.level])) /\ p.inputs0 # <<>>
            /\ Connected(ToSet(p.inputs0))
            /\ p.level = 0 => Closed(levels, ToSet(p.inputs0))
<1> DEFINE due == Finalize(levels)
           l == IF due.due THEN due.level ELSE file_to_compact[1].level
           after == {f \in ToSet(levels[l]) : \/ compact_pointer[l] = <<>>
                                              \/ Before(compact_pointer[l][1], f.largest)}
           picked == IF ~due.due THEN file_to_compact[1].file
                     ELSE IF after # {} THEN FileOrder(after)[1] ELSE levels[l][1]
           p == PickedInputs
<1>1. /\ p.level = l
      /\ p.inputs0 = IF l = 0 THEN Overlapping(0, GetRange(<<picked>>)) ELSE <<picked>>
  BY DEF PickedInputs
<1> HIDE DEF p
<1>2. due.level \in 0..(kNumLevels - 2) /\ (due.due => Len(levels[due.level]) > 0)
  BY FinalizeFinds
<1>3. ~due.due => file_to_compact # <<>>
  BY DEF NeedsCompaction
<1> HIDE DEF due
<1>4. l \in 0..(kNumLevels - 2) /\ (due.due => Len(levels[l]) > 0)
      /\ (~due.due => file_to_compact[1].file \in ToSet(levels[l]))
  BY <1>2, <1>3 DEF SeekFileOK
<1> HIDE DEF l
<1>5. l \in Level /\ FilesAre(ToSet(levels[l]), H) /\ levels[l] \in Seq(ToSet(levels[l]))
  BY <1>4, VersionAssumption DEF Level, VersionOK
<1>6. picked \in ToSet(levels[l])
  <2>1. CASE ~due.due
    BY <2>1, <1>4
  <2>2. CASE due.due /\ after # {}
    <3>1. after \subseteq ToSet(levels[l])
      OBVIOUS
    <3>2. picked = FileOrder(after)[1]
      BY <2>2
    <3> HIDE DEF after, picked
    <3>3. FilesAre(after, H)
      BY <3>1, <1>5, FS_Subset DEF FilesAre
    <3>4. FileOrder(after) \in Seq(after) /\ ToSet(FileOrder(after)) = after
      BY <3>3, FilesInOrder
    <3>5. FileOrder(after) # <<>>
      BY <3>4, <2>2, SeqFiles
    <3>6. FileOrder(after)[1] \in after
      BY <3>4, <3>5, SeqFiles
    <3> QED
      BY <3>1, <3>2, <3>6
  <2>3. CASE due.due /\ after = {}
    <3>1. picked = levels[l][1]
      BY <2>3
    <3>2. levels[l] # <<>>
      BY <2>3, <1>4, <1>5, SeqFiles
    <3> HIDE DEF picked
    <3> QED
      BY <3>1, <3>2, <1>5, SeqFiles
  <2> QED
    BY <2>1, <2>2, <2>3
<1> HIDE DEF picked
<1>7. <<picked>> \in Seq(ToSet(levels[l])) /\ <<picked>> # <<>> /\ ToSet(<<picked>>) = {picked}
  <2>1. <<picked>> \in Seq(ToSet(levels[l])) /\ Len(<<picked>>) = 1 /\ Head(<<picked>>) = picked
    BY <1>6
  <2> QED
    BY <2>1, SeqFiles
<1>7a. Connected({picked})
  BY DEF Connected
<1>8. CASE l # 0
  BY <1>1, <1>4, <1>7, <1>7a, <1>8 DEF p
<1>9. CASE l = 0
  <2>1. FileIs(picked, H)
    BY <1>5, <1>6 DEF FilesAre
  <2>2. /\ Overlapping(0, GetRange(<<picked>>)) \in Seq(ToSet(levels[0]))
        /\ picked \in ToSet(Overlapping(0, GetRange(<<picked>>)))
        /\ Connected({picked} \cup ToSet(Overlapping(0, GetRange(<<picked>>))))
        /\ Closed(levels, ToSet(Overlapping(0, GetRange(<<picked>>))))
    <3>1. PICK q : q = <<picked>>
      OBVIOUS
    <3>2. ToSet(q) = {picked} /\ ToSet(q) # {} /\ (\A f \in ToSet(q) : FileIs(f, H)) /\ Connected(ToSet(q))
      BY <3>1, <2>1, <1>7, <1>7a
    <3>3. /\ Overlapping(0, GetRange(q)) \in Seq(ToSet(levels[0]))
          /\ \A f \in ToSet(q) : f \in ToSet(levels[0]) => f \in ToSet(Overlapping(0, GetRange(q)))
          /\ Closed(levels, ToSet(Overlapping(0, GetRange(q))))
          /\ \A C : /\ Connected(C) /\ ToSet(q) \subseteq C /\ (\A f \in C : FileIs(f, H))
                  => Connected(C \cup ToSet(Overlapping(0, GetRange(q))))
      BY <3>2, <1>5, <1>9, OverlappingFiles
    <3>4. Connected(ToSet(q) \cup ToSet(Overlapping(0, GetRange(q))))
      BY <3>2, <3>3
    <3> QED
      BY <3>1, <3>2, <3>3, <3>4, <1>6, <1>9
  <2>3. Overlapping(0, GetRange(<<picked>>)) # <<>>
    BY <2>2, SeqFiles
  <2>4. Connected(ToSet(Overlapping(0, GetRange(<<picked>>))))
    <3>1. \A S : picked \in S => {picked} \cup S = S
      OBVIOUS
    <3> QED
      BY <3>1, <2>2
  <2> QED
    BY <2>2, <2>3, <2>4, <1>1, <1>4, <1>9 DEF p
<1> QED
  BY <1>8, <1>9

\* CompactRange takes files of the current version.
LEMMA RangeInputsOK ==
  ASSUME NEW H, EntriesOK(H), VersionOK(levels, H), NEW l \in Level,
         NEW b \in 0..MaxKey, NEW e \in 1..NoEnd
  PROVE  /\ RangeInputs(l, b, e) \in Seq(ToSet(levels[l]))
         /\ l = 0 => Closed(levels, ToSet(RangeInputs(l, b, e)))
<1> DEFINE files == GetOverlappingInputs(levels, l, b, e)
           enough == {i \in DOMAIN files : TotalFileSize(SubSeq(files, 1, i)) >= kTargetFileSize}
<1>1. b \in 0..NoEnd /\ e \in 0..NoEnd
  BY VersionAssumption DEF NoEnd
<1>2. files \in Seq(ToSet(levels[l])) /\ (l = 0 => Closed(levels, ToSet(files)))
  BY <1>1, OverlappingSeq
<1>3. RangeInputs(l, b, e) = IF l > 0 /\ enough # {} THEN SubSeq(files, 1, Min(enough)) ELSE files
  BY DEF RangeInputs
<1> HIDE DEF files
<1>4. PICK n \in Nat : n = Len(files) /\ DOMAIN files = 1..n
  BY <1>2, LenProperties
<1>5. enough \subseteq 1..n
  BY <1>4
<1> HIDE DEF enough
<1>6. ASSUME enough # {} PROVE SubSeq(files, 1, Min(enough)) \in Seq(ToSet(levels[l]))
  <2>1. enough \in SUBSET (0..n)
    BY <1>5
  <2>2. Min(enough) \in 1..n
    BY <2>1, <1>5, <1>6, MinMax
  <2>3. \A i \in 1..Min(enough) : files[i] \in ToSet(levels[l])
    BY <2>2, <1>2, <1>4, ElementOfSeq
  <2> QED
    BY <2>2, <2>3, <1>2, <1>4, SubSeqProperties
<1>7. l = 0 => RangeInputs(l, b, e) = files
  BY <1>3
<1> QED
  BY <1>2, <1>3, <1>6, <1>7

-----------------------------------------------------------------------------
(* The outputs of a compaction. *)

Tables(E) == (SUBSET E) \ {{}}
OutputFields == {"done", "output", "user_key", "last", "grandparent_index", "seen_key", "overlapped"}

\* Every entry of X is before every entry of Y.
AllBefore(X, Y) == \A x \in X, y \in Y : Before(x, y)

\* The tables follow one another, and X follows them.
InSteps(done, X) ==
  /\ \A i, j \in 1..Len(done) : i < j => AllBefore(done[i], done[j])
  /\ \A i \in 1..Len(done) : AllBefore(done[i], X)

\* The tables written so far and the one at hand hold entries of E, follow one
\* another, and no table is empty.
OutputOK(a, E) ==
  /\ DOMAIN a = OutputFields /\ a.done \in Seq(Tables(E)) /\ a.output \subseteq E
  /\ InSteps(a.done, a.output)

\* The output at hand is closed.
LEMMA CloseOutput ==
  ASSUME NEW E, NEW done \in Seq(Tables(E)), NEW X, InSteps(done, X)
  PROVE  /\ InSteps(done, {})
         /\ X \in Tables(E) => Append(done, X) \in Seq(Tables(E)) /\ InSteps(Append(done, X), {})
<1>1. InSteps(done, {})
  BY DEF InSteps, AllBefore
<1>2. ASSUME X \in Tables(E)
      PROVE  Append(done, X) \in Seq(Tables(E)) /\ InSteps(Append(done, X), {})
  <2>1. PICK q, n : q = Append(done, X) /\ n = Len(done)
    OBVIOUS
  <2>2. /\ q \in Seq(Tables(E)) /\ n \in Nat /\ Len(q) = n + 1 /\ q[n + 1] = X
        /\ \A i \in 1..n : q[i] = done[i]
    BY <2>1, <1>2, AppendProperties, LenProperties
  <2>3. ASSUME NEW i \in 1..Len(q), NEW j \in 1..Len(q), i < j PROVE AllBefore(q[i], q[j])
    <3>1. i \in 1..n /\ q[i] = done[i]
      BY <2>2, <2>3
    <3>2. CASE j \in 1..n
      BY <3>1, <3>2, <2>1, <2>2, <2>3 DEF InSteps
    <3>3. CASE j = n + 1
      BY <3>1, <3>3, <2>1, <2>2 DEF InSteps
    <3> QED
      BY <3>2, <3>3, <2>2
  <2>4. \A i : AllBefore(q[i], {})
    BY DEF AllBefore
  <2> QED
    BY <2>1, <2>2, <2>3, <2>4 DEF InSteps
<1> QED
  BY <1>1, <1>2

\* A newer entry of the user key that every snapshot sees hides x (rule A), or x
\* is a deletion marker that is dropped.
Hidden(c, E, x) == \E p \in E : p.key = x.key /\ p.seq > x.seq /\ p.seq <= c.smallest_snapshot
Obsolete(c, x) == x.type = "deletion" /\ x.seq <= c.smallest_snapshot /\ IsBaseLevelForKey(c, x.key)

\* Of the entries E that were read, W are written.
Compacted(c, E, W) ==
  /\ \A x \in W : x \in E /\ ~Hidden(c, E, x)
  /\ \A x \in E : x \in W \/ Hidden(c, E, x) \/ Obsolete(c, x)

\* The entries of the tables done and of the output X.
Held(done, X) == X \cup UNION {done[i] : i \in 1..Len(done)}

\* The loop of a compaction after it has read the entries E: it has written what
\* is not dropped, and knows the last entry that it read.
KeptOK(c, a, E) ==
  c.smallest_snapshot \in 0..MaxSeq =>
    /\ Compacted(c, E, Held(a.done, a.output))
    /\ \/ E = {} /\ a.user_key = 0
       \/ \E p \in E : /\ \A x \in E : x = p \/ Before(x, p)
                       /\ a.user_key = p.key /\ a.last = p.seq

\* Closing an output keeps its entries.
LEMMA HeldStays ==
  ASSUME NEW T, NEW done \in Seq(T), NEW X
  PROVE  Held(Append(done, X), {}) = Held(done, X)
<1>1. PICK q, n : q = Append(done, X) /\ n = Len(done)
  OBVIOUS
<1>2. /\ n \in Nat /\ Len(q) = n + 1 /\ q[n + 1] = X /\ \A i \in 1..n : q[i] = done[i]
  BY <1>1, AppendProperties, LenProperties
<1>3. \A i \in 1..(n + 1) : i \in 1..n \/ i = n + 1
  BY <1>2
<1>4. Held(q, {}) \subseteq Held(done, X)
  <2> SUFFICES ASSUME NEW i \in 1..(n + 1) PROVE q[i] \subseteq Held(done, X)
    BY <1>2 DEF Held
  <2>1. CASE i \in 1..n
    BY <2>1, <1>1, <1>2 DEF Held
  <2>2. CASE i = n + 1
    BY <2>2, <1>2 DEF Held
  <2> QED
    BY <2>1, <2>2, <1>3
<1>5. \A i \in 1..Len(q) : q[i] \subseteq Held(q, {})
  BY DEF Held
<1>6. X \subseteq Held(q, {})
  <2>1. n + 1 \in 1..Len(q)
    BY <1>2
  <2> QED
    BY <2>1, <1>2, <1>5
<1>7. \A i \in 1..n : done[i] \subseteq Held(q, {})
  <2>1. \A i \in 1..n : i \in 1..Len(q) /\ q[i] = done[i]
    BY <1>2
  <2> QED
    BY <2>1, <1>5
<1>8. Held(done, X) \subseteq Held(q, {})
  BY <1>1, <1>6, <1>7 DEF Held
<1> QED
  BY <1>1, <1>4, <1>8

\* ShouldStopBefore closes the output at hand or leaves it.
LEMMA StopKeeps ==
  ASSUME NEW E, NEW a, OutputOK(a, E), NEW c, NEW e
  PROVE  LET b == ShouldStopBefore(c, a, e)
         IN /\ OutputOK(b, E) /\ Held(b.done, b.output) = Held(a.done, a.output)
            /\ b.user_key = a.user_key /\ b.last = a.last
<1> DEFINE passed == Cardinality({i \in DOMAIN c.grandparents : Before(c.grandparents[i].largest, e)})
           bytes == a.overlapped + (IF a.seen_key
                      THEN TotalFileSize(SubSeq(c.grandparents, a.grandparent_index + 1, passed)) ELSE 0)
           stop == bytes > kMaxGrandParentOverlapBytes
           b == ShouldStopBefore(c, a, e)
<1>1. b = [a EXCEPT !.grandparent_index = passed, !.seen_key = TRUE,
                    !.overlapped = IF stop THEN 0 ELSE bytes,
                    !.done = IF stop /\ a.output # {} THEN Append(@, a.output) ELSE @,
                    !.output = IF stop THEN {} ELSE @]
  BY DEF ShouldStopBefore
<1> HIDE DEF passed, bytes, stop, b
<1>2. /\ DOMAIN b = OutputFields
      /\ b.done = (IF stop /\ a.output # {} THEN Append(a.done, a.output) ELSE a.done)
      /\ b.output = (IF stop THEN {} ELSE a.output)
      /\ b.user_key = a.user_key /\ b.last = a.last
  BY <1>1 DEF OutputOK, OutputFields
<1>3. /\ InSteps(a.done, {}) /\ a.done \in Seq(Tables(E)) /\ InSteps(a.done, a.output)
      /\ a.output # {} => /\ Append(a.done, a.output) \in Seq(Tables(E))
                          /\ InSteps(Append(a.done, a.output), {})
  <2>1. a.output # {} => a.output \in Tables(E)
    BY DEF OutputOK, Tables
  <2>2. a.done \in Seq(Tables(E)) /\ InSteps(a.done, a.output)
    BY DEF OutputOK
  <2> QED
    BY <2>1, <2>2, CloseOutput
<1>4. b.output \subseteq E
  BY <1>2 DEF OutputOK
<1>5. b.done \in Seq(Tables(E)) /\ InSteps(b.done, b.output)
  <2>1. CASE stop /\ a.output # {}
    BY <2>1, <1>2, <1>3
  <2>2. CASE ~(stop /\ a.output # {})
    <3>1. b.done = a.done /\ (b.output = {} \/ b.output = a.output)
      BY <2>2, <1>2
    <3> QED
      BY <3>1, <1>3
  <2> QED
    BY <2>1, <2>2
<1>6. Held(b.done, b.output) = Held(a.done, a.output)
  <2>1. CASE stop /\ a.output # {}
    BY <2>1, <1>2, <1>3, HeldStays
  <2>2. CASE ~(stop /\ a.output # {})
    <3>1. b.done = a.done /\ b.output = a.output
      BY <2>2, <1>2
    <3> QED
      BY <3>1
  <2> QED
    BY <2>1, <2>2
<1> QED
  BY <1>2, <1>4, <1>5, <1>6 DEF OutputOK, b

\* A turn of the loop adds an entry, which comes after all before it, to the
\* output at hand or drops it, and closes an output that is full.
LEMMA CompactEntryKeeps ==
  ASSUME NEW H, EntriesOK(H), NEW E \in SUBSET H, NEW c, NEW a0, OutputOK(a0, E),
         KeptOK(c, a0, E), NEW e \in H, \A x \in E : Before(x, e)
  PROVE  /\ OutputOK(CompactEntry(c, a0, e), E \cup {e})
         /\ KeptOK(c, CompactEntry(c, a0, e), E \cup {e})
<1> DEFINE a == ShouldStopBefore(c, a0, e)
           last == IF e.key # a.user_key THEN MaxSeq + 1 ELSE a.last
           output == IF Drops(c, e, last) THEN a.output ELSE a.output \cup {e}
           full == Cardinality(output) >= kTargetFileSize
           b == CompactEntry(c, a0, e)
<1>1. b = [a EXCEPT !.user_key = e.key, !.last = e.seq,
                    !.done = IF full THEN Append(@, output) ELSE @,
                    !.output = IF full THEN {} ELSE output]
  BY DEF CompactEntry
<1>2. /\ OutputOK(a, E) /\ Held(a.done, a.output) = Held(a0.done, a0.output)
      /\ a.user_key = a0.user_key /\ a.last = a0.last
  BY StopKeeps
<1> HIDE DEF a, last, b
<1>3. PICK G : G = E \cup {e}
  OBVIOUS
<1>4. output \subseteq G
  BY <1>2, <1>3 DEF OutputOK
<1>5. a.done \in Seq(Tables(G)) /\ InSteps(a.done, output)
  <2>1. Tables(E) \subseteq Tables(G)
    BY <1>3 DEF Tables
  <2>2. PICK q : q = a.done
    OBVIOUS
  <2>3. q \in Seq(Tables(E)) /\ InSteps(q, a.output)
    BY <2>2, <1>2 DEF OutputOK
  <2>4. q \in Seq(Tables(G))
    <3> HIDE DEF Tables
    <3> QED
      BY <2>1, <2>3
  <2>5. \A i \in 1..Len(q) : q[i] \subseteq E
    BY <2>3, ElementOfSeq DEF Tables
  <2>6. \A i \in 1..Len(q) : AllBefore(q[i], output)
    BY <2>3, <2>5 DEF InSteps, AllBefore
  <2> QED
    BY <2>2, <2>3, <2>4, <2>6 DEF InSteps
<1>6. full => output # {}
  <2>1. Cardinality({}) = 0
    BY FS_EmptySet
  <2>2. kTargetFileSize \in Nat \ {0}
    BY VersionAssumption
  <2> HIDE DEF output
  <2> QED
    BY <2>1, <2>2
<1> HIDE DEF output, full
<1>7. /\ DOMAIN b = OutputFields
      /\ b.done = (IF full THEN Append(a.done, output) ELSE a.done)
      /\ b.output = (IF full THEN {} ELSE output)
      /\ b.user_key = e.key /\ b.last = e.seq
  BY <1>1, <1>2 DEF OutputOK, OutputFields
<1>8. b.done \in Seq(Tables(G)) /\ InSteps(b.done, b.output)
  <2>1. full => output \in Tables(G)
    BY <1>4, <1>6 DEF Tables
  <2>2. output \in Tables(G) =>
          Append(a.done, output) \in Seq(Tables(G)) /\ InSteps(Append(a.done, output), {})
    BY <1>5, CloseOutput
  <2>3. CASE full
    BY <2>1, <2>2, <2>3, <1>7
  <2>4. CASE ~full
    BY <2>4, <1>5, <1>7
  <2> QED
    BY <2>3, <2>4
<1>9. b.output \subseteq G
  BY <1>4, <1>7
<1>10. Held(b.done, b.output) = Held(a0.done, a0.output) \cup (IF Drops(c, e, last) THEN {} ELSE {e})
  <2>1. Held(b.done, b.output) = Held(a.done, output)
    <3>1. CASE full
      BY <3>1, <1>5, <1>7, HeldStays
    <3>2. CASE ~full
      BY <3>2, <1>7
    <3> QED
      BY <3>1, <3>2
  <2>2. Held(a.done, output) = Held(a.done, a.output) \cup (IF Drops(c, e, last) THEN {} ELSE {e})
    BY DEF Held, output
  <2> QED
    BY <2>1, <2>2, <1>2
<1>11. ASSUME c.smallest_snapshot \in 0..MaxSeq
       PROVE  /\ Compacted(c, G, Held(b.done, b.output))
              /\ \E p \in G : /\ \A x \in G : x = p \/ Before(x, p)
                              /\ b.user_key = p.key /\ b.last = p.seq
  <2>1. \A x \in G : x.key \in Nat /\ x.seq \in Nat /\ x.key \in Key /\ x.seq \in 1..MaxSeq
    BY <1>3, EntryOrder
  <2>2. MaxSeq \in Nat /\ 0 \notin Key /\ c.smallest_snapshot \in Nat
    BY <1>11, VersionAssumption DEF Key
  <2>3. PICK W : W = Held(a0.done, a0.output)
    OBVIOUS
  <2>4. /\ Compacted(c, E, W)
        /\ \/ E = {} /\ a0.user_key = 0
           \/ \E p \in E : /\ \A x \in E : x = p \/ Before(x, p)
                           /\ a0.user_key = p.key /\ a0.last = p.seq
    BY <2>3, <1>11 DEF KeptOK
  <2>5. \A x \in E : x.key = e.key => x.seq > e.seq
    BY <2>1, <1>3 DEF Before
  <2>6. \A x \in E : Hidden(c, G, x) <=> Hidden(c, E, x)
    BY <2>1, <2>5, <1>3 DEF Hidden
  <2>7. last = IF e.key # a0.user_key THEN MaxSeq + 1 ELSE a0.last
    BY <1>2 DEF last
  <2>8. (last <= c.smallest_snapshot) <=> Hidden(c, G, e)
    <3>1. Hidden(c, G, e) <=> \E q \in E : q.key = e.key /\ q.seq <= c.smallest_snapshot
      BY <2>1, <2>5, <1>3 DEF Hidden
    <3>2. CASE E = {} /\ a0.user_key = 0
      <4>1. last = MaxSeq + 1
        BY <3>2, <2>1, <2>2, <2>7, <1>3
      <4> QED
        BY <4>1, <3>1, <3>2, <2>2, <1>11
    <3>3. CASE \E p \in E : /\ \A x \in E : x = p \/ Before(x, p)
                            /\ a0.user_key = p.key /\ a0.last = p.seq
      <4>1. PICK p \in E : /\ \A x \in E : x = p \/ Before(x, p)
                           /\ a0.user_key = p.key /\ a0.last = p.seq
        BY <3>3
      <4>2. p \in G /\ e \in G /\ E \subseteq G
        BY <4>1, <1>3
      <4>3. CASE p.key = e.key
        <5>1. last = p.seq
          BY <4>1, <4>3, <2>7
        <5>2. \A q \in E : q.key = e.key => p.seq <= q.seq
          BY <4>1, <4>2, <4>3, <2>1 DEF Before
        <5>3. ASSUME NEW q \in E, q.key = e.key, q.seq <= c.smallest_snapshot
              PROVE  last <= c.smallest_snapshot
          BY <5>1, <5>2, <5>3, <4>2, <2>1, <2>2
        <5> QED
          BY <5>1, <5>3, <4>1, <4>3, <3>1
      <4>4. CASE p.key # e.key
        <5>1. last = MaxSeq + 1
          BY <4>1, <4>4, <2>7
        <5>2. Before(p, e)
          BY <4>1
        <5>3. p.key < e.key
          BY <5>2, <4>2, <4>4, <2>1 DEF Before
        <5>4. \A q \in E : q.key # e.key
          BY <5>3, <4>1, <4>2, <2>1 DEF Before
        <5> QED
          BY <5>1, <5>4, <3>1, <2>2, <1>11
      <4> QED
        BY <4>3, <4>4
    <3> QED
      BY <3>2, <3>3, <2>4
  <2>9. Drops(c, e, last) <=> Hidden(c, G, e) \/ Obsolete(c, e)
    BY <2>8 DEF Drops, Obsolete
  <2>10. PICK Y : Y = W \cup (IF Drops(c, e, last) THEN {} ELSE {e})
    OBVIOUS
  <2>11. Held(b.done, b.output) = Y
    BY <2>3, <2>10, <1>10
  <2>12. Compacted(c, G, Y)
    <3>1. \A x \in W : x \in E /\ ~Hidden(c, G, x)
      BY <2>4, <2>6 DEF Compacted
    <3>2. \A x \in E : x \in W \/ Hidden(c, G, x) \/ Obsolete(c, x)
      BY <2>4, <2>6 DEF Compacted
    <3>3. CASE Drops(c, e, last)
      BY <3>1, <3>2, <3>3, <2>9, <2>10, <1>3 DEF Compacted
    <3>4. CASE ~Drops(c, e, last)
      BY <3>1, <3>2, <3>4, <2>9, <2>10, <1>3 DEF Compacted
    <3> QED
      BY <3>3, <3>4
  <2>13. e \in G /\ (\A x \in G : x = e \/ Before(x, e)) /\ b.user_key = e.key /\ b.last = e.seq
    BY <1>3, <1>7
  <2> QED
    BY <2>11, <2>12, <2>13
<1>12. KeptOK(c, b, G)
  BY <1>11 DEF KeptOK
<1> QED
  BY <1>3, <1>7, <1>8, <1>9, <1>12 DEF OutputOK, b

\* The tables that a compaction writes hold entries of its inputs, all but those
\* it drops, and follow one another, and none is empty.
LEMMA CompactionOutputs ==
  ASSUME NEW H, EntriesOK(H), NEW c, NEW E \in SUBSET H, E = EntriesOf(c.inputs0 \o c.inputs1)
  PROVE  /\ DoCompactionWork(c) \in Seq(Tables(E)) /\ InSteps(DoCompactionWork(c), {})
         /\ c.smallest_snapshot \in 0..MaxSeq => Compacted(c, E, Held(DoCompactionWork(c), {}))
<1> DEFINE entries == InOrder(EntriesOf(c.inputs0 \o c.inputs1), Before)
           n == Len(entries)
           Turn(f, i) == IF i = 0 THEN NoOutput ELSE CompactEntry(c, f[i - 1], entries[i])
           P(f) == f = [i \in 0..n |-> Turn(f, i)]
           Upto(f, k) == \A i \in 0..n : i < k => f[i] = Turn(f, i)
           Bad == {k \in Nat : ~\E f : f = [i \in 0..n |-> f[i]] /\ Upto(f, k)}
<1>1. /\ entries \in Seq(E) /\ IsFiniteSet(E)
      /\ \A i, j \in 1..n : i < j => Before(entries[i], entries[j])
  BY EntriesInOrder
<1>2. DoCompactionWork(c) = LET end == (CHOOSE f : P(f))[n]
                            IN IF end.output = {} THEN end.done ELSE Append(end.done, end.output)
  BY Zenon DEF DoCompactionWork
<1> HIDE DEF entries
<1>3. n \in Nat /\ \A i \in 1..n : entries[i] \in E
  BY <1>1, LenProperties, ElementOfSeq
<1> HIDE DEF n
<1>4. ASSUME NEW f, NEW g, NEW k \in Nat, NEW i \in 0..n, i < k + 1,
             \A p \in 0..n : p < k => g[p] = f[p]
      PROVE  Turn(g, i) = Turn(f, i)
  <2>1. i = 0 \/ (i - 1 \in 0..n /\ i - 1 < k)
    BY <1>3, <1>4
  <2> QED
    BY <2>1, <1>4
<1> HIDE DEF Turn
<1>5. 0 \notin Bad
  <2> DEFINE f == [i \in 0..n |-> 0]
  <2>1. f = [i \in 0..n |-> f[i]] /\ Upto(f, 0)
    BY <1>3
  <2> QED
    BY <2>1
<1>6. ASSUME NEW k \in Nat, k \notin Bad PROVE k + 1 \notin Bad
  <2>1. PICK f : f = [i \in 0..n |-> f[i]] /\ Upto(f, k)
    BY <1>6
  <2> DEFINE g == [i \in 0..n |-> Turn(f, i)]
  <2>2. \A p \in 0..n : p < k => g[p] = f[p]
    BY <2>1
  <2>3. ASSUME NEW i \in 0..n, i < k + 1 PROVE g[i] = Turn(g, i)
    <3>1. g[i] = Turn(f, i)
      OBVIOUS
    <3> HIDE DEF g
    <3>2. Turn(g, i) = Turn(f, i)
      BY <2>2, <2>3, <1>4
    <3> QED
      BY <3>1, <3>2
  <2>4. g = [i \in 0..n |-> g[i]] /\ Upto(g, k + 1)
    BY <2>3
  <2> QED
    BY <2>4
<1>7. Bad = {}
  <2> SUFFICES ASSUME Bad # {} PROVE FALSE
    OBVIOUS
  <2>1. PICK k \in Bad : \A j \in Bad : k <= j
    <3>1. Bad \in SUBSET Nat
      OBVIOUS
    <3> HIDE DEF Bad
    <3> QED
      BY <3>1, LeastNat
  <2>2. k \in Nat /\ k # 0
    BY <1>5
  <2> HIDE DEF Bad
  <2>3. k - 1 \in Nat /\ k - 1 \notin Bad
    BY <2>1, <2>2
  <2> QED
    BY <2>1, <2>2, <2>3, <1>6
<1>8. \E f : P(f)
  <2>1. n + 1 \in Nat /\ n + 1 \notin Bad
    BY <1>3, <1>7
  <2>2. PICK f : f = [i \in 0..n |-> f[i]] /\ Upto(f, n + 1)
    <3> HIDE DEF Upto
    <3> QED
      BY <2>1
  <2>3. \A i \in 0..n : f[i] = Turn(f, i)
    BY <2>2, <1>3
  <2> QED
    BY <2>2, <2>3
<1>9. PICK f : /\ P(f)
               /\ DoCompactionWork(c) = IF f[n].output = {} THEN f[n].done ELSE Append(f[n].done, f[n].output)
  <2> HIDE DEF P
  <2>1. P(CHOOSE f : P(f))
    BY <1>8, Zenon
  <2> QED
    BY <2>1, <1>2
<1>10. \A i \in 0..n : f[i] = IF i = 0 THEN NoOutput ELSE CompactEntry(c, f[i - 1], entries[i])
  BY <1>9 DEF Turn
<1> DEFINE F(i) == {entries[j] : j \in 1..i}
           V == {0}
           LoopOK(i) == OutputOK(f[i], F(i)) /\ KeptOK(c, f[i], F(i))
           g == [i \in 0..n |-> IF LoopOK(i) THEN 0 ELSE 1]
<1>11. LoopOK(0)
  <2>1. f[0] = NoOutput
    BY <1>3, <1>10
  <2>2. PICK G : G = F(0)
    OBVIOUS
  <2>3. OutputOK(NoOutput, G)
    <3>1. <<>> \in Seq(Tables(G)) /\ Len(<<>>) = 0
      OBVIOUS
    <3>2. InSteps(<<>>, {})
      BY <3>1 DEF InSteps
    <3> QED
      BY <3>1, <3>2 DEF NoOutput, OutputOK, OutputFields
  <2>4. G = {}
    BY <2>2
  <2>5. KeptOK(c, NoOutput, G)
    <3>1. NoOutput.user_key = 0 /\ NoOutput.done = <<>> /\ NoOutput.output = {}
      BY DEF NoOutput
    <3>2. Held(<<>>, {}) = {}
      <4>1. 1..Len(<<>>) = {}
        OBVIOUS
      <4> QED
        BY <4>1 DEF Held
    <3> QED
      BY <3>1, <3>2, <2>4 DEF KeptOK, Compacted
  <2> QED
    BY <2>1, <2>2, <2>3, <2>5
<1>12. ASSUME NEW i \in 1..n, LoopOK(i - 1) PROVE LoopOK(i)
  <2>1. f[i] = CompactEntry(c, f[i - 1], entries[i])
    BY <1>3, <1>10
  <2>2. PICK G : G = F(i - 1)
    OBVIOUS
  <2>3. F(i) = G \cup {entries[i]}
    BY <2>2, <1>3
  <2>4. \A x \in G : Before(x, entries[i])
    BY <2>2, <1>1, <1>3
  <2>5. G \in SUBSET H /\ entries[i] \in H
    BY <2>2, <1>3
  <2>6. OutputOK(f[i - 1], G) /\ KeptOK(c, f[i - 1], G)
    BY <2>2, <1>12
  <2> HIDE DEF F
  <2>7. /\ OutputOK(CompactEntry(c, f[i - 1], entries[i]), G \cup {entries[i]})
        /\ KeptOK(c, CompactEntry(c, f[i - 1], entries[i]), G \cup {entries[i]})
    BY <2>4, <2>5, <2>6, CompactEntryKeeps
  <2> QED
    BY <2>1, <2>3, <2>7
<1>13. \A i \in 0..n : LoopOK(i)
  <2> HIDE DEF F, LoopOK
  <2>1. g[0] \in V /\ \A i \in 1..n : g[i - 1] \in V => g[i] \in V
    <3>1. 0 \in 0..n
      BY <1>3
    <3>2. ASSUME NEW i \in 1..n, g[i - 1] \in V PROVE g[i] \in V
      <4>1. i - 1 \in 0..n /\ i \in 0..n
        BY <1>3
      <4> QED
        BY <4>1, <3>2, <1>12
    <3> QED
      BY <3>1, <3>2, <1>11
  <2>2. \A i \in 0..n : g[i] \in V
    <3> HIDE DEF V, g
    <3> QED
      BY <2>1, <1>3, LoopKeeps
  <2> QED
    BY <2>2
<1>14. PICK done, X : /\ done = f[n].done /\ X = f[n].output
                      /\ done \in Seq(Tables(E)) /\ X \subseteq E /\ InSteps(done, X)
                      /\ c.smallest_snapshot \in 0..MaxSeq => Compacted(c, E, Held(done, X))
  <2>1. PICK G : G = F(n)
    OBVIOUS
  <2>2. G \subseteq E
    BY <2>1, <1>3
  <2>2a. G = E
    <3>1. \A x \in E : \E j \in 1..n : entries[j] = x
      BY EntriesInOrder DEF entries, n
    <3> QED
      BY <3>1, <2>1, <2>2
  <2>3. OutputOK(f[n], G) /\ KeptOK(c, f[n], G)
    BY <2>1, <1>3, <1>13
  <2>4. PICK q, Y : q = f[n].done /\ Y = f[n].output
    OBVIOUS
  <2>5. /\ q \in Seq(Tables(G)) /\ Y \subseteq G /\ InSteps(q, Y)
        /\ c.smallest_snapshot \in 0..MaxSeq => Compacted(c, G, Held(q, Y))
    BY <2>3, <2>4 DEF OutputOK, KeptOK
  <2>6. Tables(G) \subseteq Tables(E)
    BY <2>2 DEF Tables
  <2>7. q \in Seq(Tables(E))
    BY <2>5, <2>6
  <2>8. Y \subseteq E
    BY <2>2, <2>5
  <2> QED
    BY <2>2a, <2>4, <2>5, <2>7, <2>8
<1>15. DoCompactionWork(c) = IF X = {} THEN done ELSE Append(done, X)
  BY <1>9, <1>14
<1>16. X # {} => X \in Tables(E)
  BY <1>14 DEF Tables
<1>17. /\ InSteps(done, {})
       /\ X # {} => Append(done, X) \in Seq(Tables(E)) /\ InSteps(Append(done, X), {})
  BY <1>14, <1>16, CloseOutput
<1>18. CASE X = {}
  BY <1>14, <1>15, <1>17, <1>18
<1>19. CASE X # {}
  <2>1. Held(Append(done, X), {}) = Held(done, X)
    BY <1>14, HeldStays
  <2> QED
    BY <2>1, <1>14, <1>15, <1>17, <1>19
<1> QED
  BY <1>18, <1>19

-----------------------------------------------------------------------------
(* The manifest. *)

\* The files that a builder has on a level.
Live(b, l) == {f \in b.added[l] : f.number \notin b.deleted[l]}

\* The version that a builder leads to.
VersionOf(b) == [l \in Level |-> FileOrder(Live(b, l))]

\* What the records of the manifest add up to: the files are those of H, each
\* has its number alone, and a file is on a level below all that it was deleted
\* from. N is the next file number.
BuilderOK(b, H, N) ==
  /\ \A l \in Level : FilesAre(Live(b, l), H)
  /\ \A l \in Level : \A f \in Live(b, l) : 1 <= f.number /\ f.number < N
  /\ \A l \in Level : \A n \in b.deleted[l] : n \in Nat /\ n < N
  /\ \A l, m \in Level : \A f \in Live(b, l), g \in Live(b, m) : f.number = g.number => l = m /\ f = g
  /\ \A l, m \in Level : \A f \in Live(b, l) : f.number \in b.deleted[m] => m < l

LEMMA BuilderVersion ==
  ASSUME NEW H, EntriesOK(H), NEW b, NEW N, BuilderOK(b, H, N)
  PROVE  VersionOK(VersionOf(b), H) /\ \A l \in Level : ToSet(VersionOf(b)[l]) = Live(b, l)
<1> SUFFICES ASSUME NEW l \in Level
             PROVE  LET q == VersionOf(b)[l]
                    IN q \in Seq(ToSet(q)) /\ FilesAre(ToSet(q), H) /\ ToSet(q) = Live(b, l)
  BY DEF VersionOK
<1>1. VersionOf(b)[l] = FileOrder(Live(b, l))
  BY DEF VersionOf
<1>2. FilesAre(Live(b, l), H)
  BY DEF BuilderOK
<1>3. FileOrder(Live(b, l)) \in Seq(Live(b, l)) /\ ToSet(FileOrder(Live(b, l))) = Live(b, l)
  BY <1>2, FilesInOrder
<1> QED
  BY <1>1, <1>2, <1>3

\* History only grows.
LEMMA FilesStay ==
  ASSUME NEW H, NEW G, H \subseteq G
  PROVE  /\ \A S : FilesAre(S, H) => FilesAre(S, G)
         /\ \A b, N : BuilderOK(b, H, N) => BuilderOK(b, G, N)
<1>1. \A f : FileIs(f, H) => FileIs(f, G)
  BY DEF FileIs
<1>2. \A S : FilesAre(S, H) => FilesAre(S, G)
  BY <1>1 DEF FilesAre
<1> QED
  BY <1>2 DEF BuilderOK

\* The edit adds new files, and files that it moves down from a level on which
\* it deletes them; it deletes files that are there.
EditOK(b, H, N, M, D, A) ==
  /\ N \in Nat /\ M \in Nat /\ 1 <= N /\ N <= M
  /\ IsFiniteSet(A)
  /\ \A d \in D : d.level \in Level /\ \E f \in Live(b, d.level) : f.number = d.number
  /\ \A a \in A : a.level \in Level /\ FileIs(a.file, H) /\ a.file.number < M
  /\ \A a, x \in A : a.file.number = x.file.number => a = x
  /\ \A a \in A : \/ a.file.number >= N
                  \/ \E d \in D : /\ d.number = a.file.number /\ d.level < a.level
                                  /\ a.file \in Live(b, d.level)

\* LogAndApply: what the manifest adds up to with the record of the edit, and
\* that the new version has these files.
LEMMA ApplyEdit ==
  ASSUME NEW H, EntriesOK(H), NEW b, NEW N, NEW M, NEW D, NEW A, BuilderOK(b, H, N),
         EditOK(b, H, N, M, D, A)
  PROVE  LET edit == [deleted |-> D, added |-> A]
             x == Apply(b, edit)
         IN /\ BuilderOK(x, H, M)
            /\ SaveTo(Apply(EmptyBuilder, edit), VersionOf(b)) = VersionOf(x)
            /\ \A l \in Level : Live(x, l) = {f \in Live(b, l) : ~\E d \in D : d.level = l /\ d.number = f.number}
                                               \cup {a.file : a \in {y \in A : y.level = l}}
<1> DEFINE edit == [deleted |-> D, added |-> A]
           x == Apply(b, edit)
           del(l) == {d.number : d \in {y \in D : y.level = l}}
           add(l) == {a.file : a \in {y \in A : y.level = l}}
<1>1. \A l \in Level : /\ x.deleted[l] = (b.deleted[l] \cup del(l)) \ {f.number : f \in add(l)}
                       /\ x.added[l] = b.added[l] \cup add(l)
  BY DEF Apply
<1>2. /\ N \in Nat /\ M \in Nat /\ 1 <= N /\ N <= M
      /\ \A l \in Level : \A f \in Live(b, l) :
           f.number \in Nat /\ 1 <= f.number /\ f.number < N /\ FileIs(f, H)
  BY DEF EditOK, BuilderOK, FilesAre, FileIs
<1>3. ASSUME NEW l \in Level, NEW n \in del(l)
      PROVE  n \in Nat /\ n < N /\ \E f \in Live(b, l) : f.number = n
  <2>1. \E f \in Live(b, l) : f.number = n
    BY DEF EditOK
  <2> QED
    BY <2>1, <1>2
<1>4. ASSUME NEW l \in Level, NEW f \in add(l)
      PROVE  /\ FileIs(f, H) /\ f.number \in Nat /\ f.number < M
             /\ \/ f.number >= N
                \/ \E k \in Level : k < l /\ f \in Live(b, k) /\ f.number \in del(k)
  <2>1. PICK a \in A : a.level = l /\ a.file = f
    OBVIOUS
  <2>2. FileIs(f, H) /\ f.number < M
    BY <2>1 DEF EditOK
  <2>3. ASSUME ~(f.number >= N) PROVE \E k \in Level : k < l /\ f \in Live(b, k) /\ f.number \in del(k)
    <3>1. PICK d \in D : d.number = f.number /\ d.level < l /\ f \in Live(b, d.level)
      BY <2>1, <2>3 DEF EditOK
    <3>2. d.level \in Level /\ d.number \in del(d.level)
      BY DEF EditOK
    <3> HIDE DEF del
    <3> QED
      BY <3>1, <3>2
  <2> QED
    BY <2>2, <2>3 DEF FileIs
<1>5. ASSUME NEW l \in Level, NEW f \in add(l)
      PROVE  f.number \notin b.deleted[l] /\ f.number \notin del(l)
  <2>1. CASE f.number >= N
    <3>1. f.number \in Nat
      BY <1>4
    <3>2. \A n \in b.deleted[l] : n \in Nat /\ n < N
      BY DEF BuilderOK
    <3> HIDE DEF del, add
    <3> QED
      BY <2>1, <3>1, <3>2, <1>2, <1>3
  <2>2. CASE \E k \in Level : k < l /\ f \in Live(b, k) /\ f.number \in del(k)
    <3>1. PICK k \in Level : k < l /\ f \in Live(b, k) /\ f.number \in del(k)
      BY <2>2
    <3>2. ~(l < k) /\ l # k
      BY <3>1, VersionAssumption DEF Level
    <3>3. f.number \notin b.deleted[l]
      BY <3>1, <3>2 DEF BuilderOK
    <3>4. f.number \notin del(l)
      <4> SUFFICES ASSUME f.number \in del(l) PROVE FALSE
        OBVIOUS
      <4>1. PICK g \in Live(b, l) : g.number = f.number
        BY <1>3
      <4> QED
        BY <4>1, <3>1, <3>2 DEF BuilderOK
    <3> QED
      BY <3>3, <3>4
  <2> HIDE DEF del, add
  <2> QED
    BY <2>1, <2>2, <1>4
<1> HIDE DEF del, add, x
<1>6. \A l \in Level : x.deleted[l] = b.deleted[l] \cup del(l)
  BY <1>1, <1>5
<1>7. \A l \in Level : Live(x, l) = {f \in Live(b, l) : f.number \notin del(l)} \cup add(l)
  BY <1>1, <1>5, <1>6 DEF Live
<1>8. ASSUME NEW l \in Level, NEW m \in Level, NEW f \in Live(x, l), NEW g \in Live(x, m),
             f.number = g.number
      PROVE  l = m /\ f = g
  <2>1. ASSUME NEW k \in Level, NEW j \in Level, NEW p \in Live(b, k), p.number \notin del(k),
               NEW q \in add(j), p.number = q.number
        PROVE  FALSE
    <3>1. ~(q.number >= N)
      BY <2>1, <1>2
    <3>2. PICK i \in Level : q \in Live(b, i) /\ q.number \in del(i)
      BY <3>1, <1>4
    <3>3. i = k
      BY <2>1, <3>2 DEF BuilderOK
    <3> QED
      BY <2>1, <3>2, <3>3
  <2>2. CASE f \in add(l) /\ g \in add(m)
    BY <2>2, <1>8 DEF EditOK, add
  <2>3. CASE f \in add(l) /\ g \notin add(m)
    BY <2>1, <2>3, <1>7, <1>8
  <2>4. CASE f \notin add(l) /\ g \in add(m)
    BY <2>1, <2>4, <1>7, <1>8
  <2>5. CASE f \notin add(l) /\ g \notin add(m)
    BY <2>5, <1>7, <1>8 DEF BuilderOK
  <2> QED
    BY <2>2, <2>3, <2>4, <2>5
<1>9. ASSUME NEW l \in Level, NEW m \in Level, NEW f \in Live(x, l), f.number \in x.deleted[m]
      PROVE  m < l
  <2>1. f.number \in b.deleted[m] \/ f.number \in del(m)
    BY <1>6, <1>9
  <2>2. CASE f \in Live(b, l) /\ f.number \notin del(l)
    <3>1. CASE f.number \in b.deleted[m]
      BY <3>1, <2>2 DEF BuilderOK
    <3>2. CASE f.number \in del(m)
      <4>1. PICK g \in Live(b, m) : g.number = f.number
        BY <3>2, <1>3
      <4>2. l = m
        BY <4>1, <2>2 DEF BuilderOK
      <4> QED
        BY <4>2, <3>2, <2>2
    <3> QED
      BY <2>1, <3>1, <3>2
  <2>3. CASE f \in add(l)
    <3>1. f.number < N
      BY <2>1, <1>3 DEF BuilderOK
    <3>2. f.number \in Nat
      BY <2>3, <1>4
    <3>3. ~(f.number >= N)
      BY <3>1, <3>2, <1>2
    <3>4. PICK k \in Level : k < l /\ f \in Live(b, k) /\ f.number \in del(k)
      BY <2>3, <3>3, <1>4
    <3>5. m < k \/ m = k
      <4>1. CASE f.number \in b.deleted[m]
        BY <4>1, <3>4 DEF BuilderOK
      <4>2. CASE f.number \in del(m)
        <5>1. PICK g \in Live(b, m) : g.number = f.number
          BY <4>2, <1>3
        <5> QED
          BY <5>1, <3>4 DEF BuilderOK
      <4> QED
        BY <2>1, <4>1, <4>2
    <3> QED
      BY <3>4, <3>5, VersionAssumption DEF Level
  <2> QED
    BY <2>2, <2>3, <1>7
<1>10. ASSUME NEW l \in Level PROVE FilesAre(Live(x, l), H)
  <2>1. IsFiniteSet(Live(b, l))
    BY DEF BuilderOK, FilesAre
  <2>2. IsFiniteSet({f \in Live(b, l) : f.number \notin del(l)})
    BY <2>1, FS_Subset
  <2>3. IsFiniteSet(add(l))
    <3> DEFINE B == {y \in A : y.level = l}
    <3>1. IsFiniteSet(B)
      BY FS_Subset DEF EditOK
    <3>2. IsFiniteSet({a.file : a \in B})
      <4> DEFINE T == {a.file : a \in B}
                 h == [a \in B |-> a.file]
      <4>1. h \in Surjection(B, T)
        BY DEF Surjection
      <4> HIDE DEF B, T, h
      <4>2. IsFiniteSet(T)
        BY <3>1, <4>1, FS_Surjection DEF ExistsSurjection
      <4> QED
        BY <4>2 DEF T
    <3> QED
      BY <3>2 DEF add
  <2>4. IsFiniteSet(Live(x, l))
    <3> DEFINE S == {f \in Live(b, l) : f.number \notin del(l)}
               T == add(l)
    <3>1. Live(x, l) = S \cup T
      BY <1>7
    <3>2. IsFiniteSet(S) /\ IsFiniteSet(T)
      BY <2>2, <2>3
    <3> HIDE DEF S, T
    <3>3. IsFiniteSet(S \cup T)
      BY <3>2, FS_Union
    <3> QED
      BY <3>1, <3>3
  <2>5. \A f \in Live(x, l) : FileIs(f, H)
    BY <1>2, <1>4, <1>7
  <2>6. \A f, g \in Live(x, l) : f.number = g.number => f = g
    BY <1>8
  <2> QED
    BY <2>4, <2>5, <2>6 DEF FilesAre
<1>11. ASSUME NEW l \in Level, NEW f \in Live(x, l) PROVE 1 <= f.number /\ f.number < M
  BY <1>2, <1>4, <1>7
<1>12. ASSUME NEW l \in Level, NEW n \in x.deleted[l] PROVE n \in Nat /\ n < M
  <2>1. n \in Nat /\ n < N
    BY <1>3, <1>6 DEF BuilderOK
  <2> QED
    BY <2>1, <1>2
<1>13. BuilderOK(x, H, M)
  BY <1>8, <1>9, <1>10, <1>11, <1>12 DEF BuilderOK
<1>14. SaveTo(Apply(EmptyBuilder, edit), VersionOf(b)) = VersionOf(x)
  <2> DEFINE y == Apply(EmptyBuilder, edit)
             v == VersionOf(b)
             F(l) == {f \in ToSet(v[l]) \cup y.added[l] : f.number \notin y.deleted[l]}
  <2>1. \A l \in Level : y.deleted[l] = del(l) \ {f.number : f \in add(l)} /\ y.added[l] = add(l)
    BY DEF Apply, EmptyBuilder, del, add
  <2>2. \A l \in Level : ToSet(v[l]) = Live(b, l)
    BY BuilderVersion
  <2>3. SaveTo(y, v) = [l \in Level |-> FileOrder(F(l))]
    BY DEF SaveTo
  <2> HIDE DEF y, v
  <2>4. ASSUME NEW l \in Level PROVE F(l) = Live(x, l)
    BY <2>1, <2>2, <1>5, <1>7
  <2> HIDE DEF F
  <2>5. SaveTo(y, v) = [l \in Level |-> FileOrder(Live(x, l))]
    BY <2>3, <2>4
  <2> QED
    BY <2>5 DEF VersionOf, y, v
<1>15. ASSUME NEW l \in Level
       PROVE  Live(x, l) = {f \in Live(b, l) : ~\E d \in D : d.level = l /\ d.number = f.number} \cup add(l)
  <2>1. \A f : f.number \in del(l) <=> \E d \in D : d.level = l /\ d.number = f.number
    BY DEF del
  <2> QED
    BY <2>1, <1>7
<1> QED
  BY <1>13, <1>14, <1>15 DEF x, add

-----------------------------------------------------------------------------
(* Disjoint files. *)

\* One file ends before the other begins.
Separate(f, g) == Before(f.largest, g.smallest) \/ Before(g.largest, f.smallest)

\* The files of a level below level 0 are disjoint.
DisjointOK(v) == \A l \in Level \ {0} : \A f, g \in ToSet(v[l]) : f = g \/ Separate(f, g)

\* f is before or after all entries of E.
ApartFrom(f, E) == (\A e \in E : Before(f.largest, e)) \/ (\A e \in E : Before(e, f.smallest))

\* The files of the next level that c does not read are apart from what it
\* reads, so its outputs fit between them.
JobApart(v, c) ==
  \A f \in ToSet(v[c.level + 1]) \ ToSet(c.inputs1) : ApartFrom(f, EntriesOf(c.inputs0 \o c.inputs1))

\* The entries of a file are within its bounds.
LEMMA FileSides ==
  ASSUME NEW H, EntriesOK(H), NEW g, FileIs(g, H), NEW x \in H
  PROVE  /\ Before(x, g.smallest) => \A e \in g.entries : Before(x, e)
         /\ Before(g.largest, x) => \A e \in g.entries : Before(e, x)
         /\ Before(x, g.smallest) => Before(x, g.largest)
         /\ Before(g.largest, x) => Before(g.smallest, x)
<1>1. /\ \A e \in g.entries : e \in H /\ ~Before(e, g.smallest) /\ ~Before(g.largest, e)
      /\ g.smallest \in g.entries /\ g.largest \in g.entries
  BY DEF FileIs
<1>2. \A e \in g.entries : e = g.smallest \/ Before(g.smallest, e)
  BY <1>1, EntryOrder
<1>3. \A e \in g.entries : e = g.largest \/ Before(e, g.largest)
  BY <1>1, EntryOrder
<1>4. Before(x, g.smallest) => \A e \in g.entries : Before(x, e)
  BY <1>1, <1>2, EntryOrder
<1>5. Before(g.largest, x) => \A e \in g.entries : Before(e, x)
  BY <1>1, <1>3, EntryOrder
<1> QED
  BY <1>1, <1>4, <1>5

\* A file apart from the entries of another is separate from it.
LEMMA ApartSeparate ==
  ASSUME NEW f, NEW g, NEW H, FileIs(g, H), NEW E, ApartFrom(f, E), g.entries \subseteq E
  PROVE  Separate(f, g) /\ Separate(g, f)
BY DEF ApartFrom, Separate, FileIs

\* Files of different user keys are separate.
LEMMA KeysSeparate ==
  ASSUME NEW f, NEW g, KeysApart(f, g)
  PROVE  Separate(f, g) /\ Separate(g, f)
BY DEF KeysApart, Separate, Before

\* Disjoint files in the order of their smallest keys are sorted.
LEMMA DisjointInOrder ==
  ASSUME NEW H, EntriesOK(H), NEW S, FilesAre(S, H), \A f, g \in S : f = g \/ Separate(f, g)
  PROVE  LET q == FileOrder(S)
         IN \A i, j \in 1..Len(q) : i < j => Before(q[i].largest, q[j].smallest)
<1> DEFINE q == FileOrder(S)
<1>1. /\ \A i \in 1..Len(q) : q[i] \in S
      /\ \A i, j \in 1..Len(q) : i < j => BySmallestKey(q[i], q[j])
  BY FilesInOrder
<1> HIDE DEF q
<1>2. ASSUME NEW i \in 1..Len(q), NEW j \in 1..Len(q), i < j
      PROVE  Before(q[i].largest, q[j].smallest)
  <2>1. PICK f, g : f = q[i] /\ g = q[j]
    OBVIOUS
  <2>2. f \in S /\ g \in S /\ BySmallestKey(f, g)
    BY <2>1, <1>1, <1>2
  <2>3. FileIs(f, H) /\ FileIs(g, H)
    BY <2>2 DEF FilesAre
  <2>4. f.smallest \in H /\ g.smallest \in H /\ f.number \in Nat
    BY <2>3 DEF FileIs
  <2>5. f # g
    BY <2>2, <2>4, EntryOrder DEF BySmallestKey
  <2>6. ~Before(g.smallest, f.smallest)
    BY <2>2, <2>4, EntryOrder DEF BySmallestKey
  <2>7. ~Before(g.largest, f.smallest)
    BY <2>3, <2>4, <2>6, FileSides
  <2> QED
    BY <2>1, <2>2, <2>5, <2>7 DEF Separate
<1> QED
  BY <1>2 DEF q

\* SetupOtherInputs leaves out of the next level only files that are apart from
\* all that it takes.
LEMMA SetupApart ==
  ASSUME NEW H, EntriesOK(H), VersionOK(levels, H), DisjointOK(levels),
         NEW c, InputsOK(levels, c), c.inputs1 = NextLevelInputs(c.level, c.inputs0)
  PROVE  JobApart(levels, c)
<1>1. PICK m : m = c.level + 1
  OBVIOUS
<1>2. c.level \in Level /\ m \in Level \ {0} /\ m > 0
  BY <1>1, VersionAssumption DEF InputsOK, Level
<1>3. PICK V, W, C, D : V = ToSet(levels[c.level]) /\ W = ToSet(levels[m]) /\ C = ToSet(c.inputs0) /\ D = ToSet(c.inputs1)
  OBVIOUS
<1>4. C \subseteq V /\ C # {} /\ D \subseteq W
  BY <1>1, <1>3, SeqFiles DEF InputsOK
<1>5. \A f \in V \cup W : FileIs(f, H)
  BY <1>2, <1>3 DEF VersionOK, FilesAre
<1>6. PICK b, e : b = GetRange(c.inputs0).start.key /\ e = GetRange(c.inputs0).limit.key
  OBVIOUS
<1>7. /\ b \in Key /\ e \in Key
      /\ \A x \in EntriesOf(c.inputs0) : b <= x.key /\ x.key <= e
  BY <1>3, <1>4, <1>5, <1>6, RangeOfFiles
<1>8. D = InRange(levels, m, b, e)
  <2>1. \A f \in ToSet(c.inputs0) : FileIs(f, H)
    BY <1>3, <1>4, <1>5
  <2> QED
    BY <2>1, <1>1, <1>2, <1>3, <1>4, <1>6, OverlappingFiles DEF NextLevelInputs
<1>9. \A f \in W : f \in D <=> ~(b > f.largest.key) /\ ~(e < f.smallest.key)
  BY <1>3, <1>7, <1>8, InRangeMeets
<1>10. PICK E : E = EntriesOf(c.inputs0 \o c.inputs1)
  OBVIOUS
<1>11. \A x \in E : x \in H /\ ((b <= x.key /\ x.key <= e) \/ \E g \in D : x \in g.entries)
  <2>1. c.inputs0 \in Seq(V \cup W) /\ c.inputs1 \in Seq(V \cup W)
    BY <1>1, <1>3 DEF InputsOK
  <2>2. ToSet(c.inputs0 \o c.inputs1) = C \cup D
    BY <2>1, <1>3, ConcatFiles
  <2>3. E = UNION {f.entries : f \in C \cup D} /\ EntriesOf(c.inputs0) = UNION {f.entries : f \in C}
    BY <2>2, <1>3, <1>10 DEF EntriesOf
  <2>4. \A f \in C \cup D : f.entries \subseteq H
    BY <1>4, <1>5 DEF FileIs
  <2> QED
    BY <2>3, <2>4, <1>7
<1>12. b \in Nat /\ e \in Nat /\ \A x \in H : x.key \in Nat
  BY <1>7, EntryOrder, VersionAssumption DEF Key
<1>13. ASSUME NEW f \in W, f \notin D PROVE ApartFrom(f, E)
  <2>1. FileIs(f, H) /\ f.smallest \in H /\ f.largest \in H /\ f.smallest.key <= f.largest.key
        /\ f.smallest.key \in Nat /\ f.largest.key \in Nat
    BY <1>5, FileKeys
  <2>2. \A g \in D : Separate(f, g) /\ FileIs(g, H)
    BY <1>2, <1>3, <1>4, <1>5, <1>13 DEF DisjointOK
  <2>3. \A g \in D : /\ g.smallest.key \in Nat /\ g.largest.key \in Nat /\ g.smallest.key <= g.largest.key
                     /\ ~(b > g.largest.key) /\ ~(e < g.smallest.key)
    BY <2>2, <1>4, <1>9, FileKeys
  <2>4. CASE f.largest.key < b
    <3>1. \A g \in D : ~Before(g.largest, f.smallest)
      BY <2>1, <2>3, <2>4, <1>12 DEF Before
    <3>2. \A g \in D : \A x \in g.entries : Before(f.largest, x)
      BY <3>1, <2>1, <2>2, FileSides DEF Separate
    <3>3. \A x \in H : b <= x.key => Before(f.largest, x)
      BY <2>1, <2>4, <1>12 DEF Before
    <3> QED
      BY <3>2, <3>3, <1>11 DEF ApartFrom
  <2>5. CASE e < f.smallest.key
    <3>1. \A g \in D : ~Before(f.largest, g.smallest)
      BY <2>1, <2>3, <2>5, <1>12 DEF Before
    <3>2. \A g \in D : \A x \in g.entries : Before(x, f.smallest)
      BY <3>1, <2>1, <2>2, FileSides DEF Separate
    <3>3. \A x \in H : x.key <= e => Before(x, f.smallest)
      BY <2>1, <2>5, <1>12 DEF Before
    <3> QED
      BY <3>2, <3>3, <1>11 DEF ApartFrom
  <2> QED
    BY <2>1, <2>4, <2>5, <1>9, <1>12, <1>13
<1> QED
  BY <1>1, <1>3, <1>10, <1>13 DEF JobApart

\* OverlapInLevel finds a file of the range if there is one.
LEMMA NoOverlap ==
  ASSUME NEW H, EntriesOK(H), NEW v, VersionOK(v, H), DisjointOK(v), NEW l \in Level,
         v[l] = FileOrder(ToSet(v[l])), NEW b \in Key, NEW e \in Key, ~OverlapInLevel(v, l, b, e)
  PROVE  \A g \in ToSet(v[l]) : g.largest.key < b \/ e < g.smallest.key
<1>1. PICK files, S : files = v[l] /\ S = ToSet(v[l])
  OBVIOUS
<1>2. FilesAre(S, H) /\ files = FileOrder(S)
  BY <1>1 DEF VersionOK
<1>3. /\ DOMAIN files = 1..Len(files) /\ Len(files) \in Nat /\ ToSet(files) = S
      /\ \A i \in 1..Len(files) : files[i] \in S
  <2>1. files \in Seq(S) /\ DOMAIN files = 1..Len(files) /\ ToSet(files) = S /\ \A i \in 1..Len(files) : files[i] \in S
    BY <1>2, FilesInOrder
  <2> QED
    BY <2>1, LenProperties
<1>4. \A g \in S : /\ FileIs(g, H) /\ g.smallest.key \in Nat /\ g.largest.key \in Nat /\ g.smallest.key <= g.largest.key
                   /\ g.smallest \in H /\ g.largest \in H
  BY <1>2, FileKeys DEF FilesAre
<1>5. b # NoBegin /\ e # NoEnd /\ b \in Nat /\ e \in Nat
  BY VersionAssumption DEF Key, NoBegin, NoEnd
<1>6. SUFFICES ASSUME NEW j \in 1..Len(files) PROVE files[j].largest.key < b \/ e < files[j].smallest.key
  <2>1. \A g \in S : \E j \in 1..Len(files) : g = files[j]
    BY <1>3 DEF ToSet
  <2> QED
    BY <2>1, <1>1, <1>6
<1>7. CASE l = 0
  <2>1. ~(~AfterFile(b, files[j]) /\ ~BeforeFile(e, files[j]))
    BY <1>1, <1>3, <1>6, <1>7 DEF OverlapInLevel, SomeFileOverlapsRange
  <2>2. files[j] \in S
    BY <1>3
  <2> QED
    BY <2>1, <2>2, <1>4, <1>5 DEF AfterFile, BeforeFile
<1>8. CASE l # 0
  <2>1. \A f, g \in S : f = g \/ Separate(f, g)
    BY <1>1, <1>8 DEF DisjointOK
  <2>2. \A i, k \in 1..Len(files) : i < k => Before(files[i].largest, files[k].smallest)
    BY <2>1, <1>2, DisjointInOrder
  <2>3. PICK key : key = SeekKey(b, MaxSeq)
    OBVIOUS
  <2>4. key.key = b /\ key.seq = MaxSeq /\ MaxSeq \in Nat
    BY <2>3, VersionAssumption DEF SeekKey
  <2>5. \A x \in H : x.key \in Nat /\ x.seq \in Nat /\ x.seq <= MaxSeq
    BY <2>4, EntryOrder
  <2>6. Sorted(files, key)
    <3> SUFFICES ASSUME NEW i \in 1..Len(files), NEW k \in 1..Len(files), i < k, Before(files[k].largest, key)
                 PROVE  Before(files[i].largest, key)
      BY DEF Sorted
    <3>1. PICK x, y : x = files[i].largest /\ y = files[k].largest
      OBVIOUS
    <3>2. x \in H /\ y \in H /\ Before(x, files[k].smallest)
      BY <3>1, <2>2, <1>3, <1>4
    <3>3. Before(x, y)
      BY <3>1, <3>2, <1>3, <1>4, FileSides
    <3>4. Before(x, key)
      BY <3>1, <3>2, <3>3, <2>4, <2>5, <1>5 DEF Before
    <3> QED
      BY <3>1, <3>4
  <2>7. PICK i : i = FindFile(files, key)
    OBVIOUS
  <2>8. i \in 1..(Len(files) + 1) /\ \A k \in 1..(i - 1) : Before(files[k].largest, key)
    BY <2>6, <2>7, <1>3, FindFileIndex
  <2>9. ~(i <= Len(files) /\ ~BeforeFile(e, files[i]))
    <3>1. (l > 0) = TRUE
      BY <1>8, VersionAssumption DEF Level
    <3> QED
      BY <3>1, <2>3, <2>7, <1>1, <1>5 DEF OverlapInLevel, SomeFileOverlapsRange
  <2>10. PICK x : x = files[j]
    OBVIOUS
  <2>11. /\ x \in S /\ x.largest \in H /\ x.smallest \in H
         /\ x.largest.key \in Nat /\ x.smallest.key \in Nat
    BY <2>10, <1>3, <1>4
  <2>12. CASE j < i
    <3>1. Before(x.largest, key)
      BY <2>8, <2>10, <2>12
    <3>2. x.largest.key < b
      BY <3>1, <2>4, <2>5, <2>11, <1>5 DEF Before
    <3> QED
      BY <3>2, <2>10
  <2>13. CASE ~(j < i)
    <3>1. i \in 1..Len(files)
      BY <2>8, <2>13, <1>3
    <3>2. PICK y : y = files[i]
      OBVIOUS
    <3>3. y \in S /\ y.smallest.key \in Nat /\ y.largest.key \in Nat /\ y.smallest.key <= y.largest.key
      BY <3>1, <3>2, <1>3, <1>4
    <3>4. e < y.smallest.key
      BY <3>1, <3>2, <2>9, <1>3 DEF BeforeFile
    <3>5. CASE i = j
      BY <3>2, <3>4, <3>5
    <3>6. CASE i < j
      <4>1. Before(y.largest, x.smallest)
        BY <3>1, <3>2, <3>6, <2>2, <2>10
      <4>2. y.largest.key <= x.smallest.key
        BY <4>1, <3>3, <2>11 DEF Before
      <4>3. e < x.smallest.key
        BY <4>2, <3>3, <3>4, <2>11, <1>5
      <4> QED
        BY <4>3, <2>10
    <3> QED
      BY <3>1, <3>5, <3>6, <2>13
  <2> QED
    BY <2>8, <2>12, <2>13
<1> QED
  BY <1>7, <1>8

\* A table made from a memtable goes to a level; if that is below level 0, the
\* table overlaps no file of the levels down to it.
LEMMA PickedLevel ==
  ASSUME NEW v, NEW b, NEW e, NEW L, L = PickLevelForMemTableOutput(v, b, e)
  PROVE  L \in Level /\ (L > 0 => \A m \in 0..L : ~OverlapInLevel(v, m, b, e))
<1> DEFINE S == {l \in 0..kMaxMemCompactLevel : StopsAt(v, l, b, e)}
<1>1. kMaxMemCompactLevel \in Nat /\ 0..kMaxMemCompactLevel \subseteq Level /\ 0 \in Level
  BY VersionAssumption DEF Level
<1>2. S \in SUBSET (0..kMaxMemCompactLevel) /\ kMaxMemCompactLevel \in S
  BY <1>1 DEF StopsAt
<1>3. Min(S) \in S /\ \A l \in S : Min(S) <= l
  <2> HIDE DEF S
  <2> QED
    BY <1>1, <1>2, MinMax
<1>4. L = IF OverlapInLevel(v, 0, b, e) THEN 0 ELSE Min(S)
  BY DEF PickLevelForMemTableOutput
<1>5. L \in Level
  BY <1>1, <1>2, <1>3, <1>4
<1>6. ASSUME L > 0, NEW m \in 0..L PROVE ~OverlapInLevel(v, m, b, e)
  <2>1. L = Min(S) /\ ~OverlapInLevel(v, 0, b, e) /\ L \in 0..kMaxMemCompactLevel
    BY <1>2, <1>3, <1>4, <1>6
  <2>2. CASE m = 0
    BY <2>1, <2>2
  <2>3. CASE m # 0
    <3>1. PICK n : n = m - 1
      OBVIOUS
    <3>2. n \in 0..kMaxMemCompactLevel /\ n < L /\ n + 1 = m /\ n \in Nat /\ L \in Nat
      BY <3>1, <2>1, <2>3, <1>1, <1>6
    <3>3. n \notin S
      BY <3>2, <2>1, <1>3
    <3>4. ~StopsAt(v, n, b, e)
      BY <3>2, <3>3
    <3> QED
      BY <3>2, <3>4 DEF StopsAt
  <2> QED
    BY <2>2, <2>3
<1> QED
  BY <1>5, <1>6

\* The table has no user key in common with the files of these levels.
LEMMA NewTableApart ==
  ASSUME NEW H, EntriesOK(H), NEW v, VersionOK(v, H), DisjointOK(v),
         \A l \in Level : v[l] = FileOrder(ToSet(v[l])), NEW f, FileIs(f, H),
         NEW L, L = PickLevelForMemTableOutput(v, f.smallest.key, f.largest.key), L > 0
  PROVE  \A m \in 0..L : m \in Level /\ \A g \in ToSet(v[m]) : KeysApart(f, g)
<1>1. PICK b, e : b = f.smallest.key /\ e = f.largest.key
  OBVIOUS
<1>2. b \in Key /\ e \in Key
  BY <1>1, FileKeys
<1>3. L \in Level /\ \A m \in 0..L : ~OverlapInLevel(v, m, b, e)
  BY <1>1, PickedLevel
<1> SUFFICES ASSUME NEW m \in 0..L PROVE m \in Level /\ \A g \in ToSet(v[m]) : KeysApart(f, g)
  OBVIOUS
<1>4. m \in Level
  BY <1>3, VersionAssumption DEF Level
<1>5. \A g \in ToSet(v[m]) : g.largest.key < b \/ e < g.smallest.key
  BY <1>2, <1>3, <1>4, NoOverlap
<1> QED
  BY <1>1, <1>4, <1>5 DEF KeysApart

\* A table that has no user key in common with the files of a connected set is
\* before or after them all.
LEMMA ApartFromConnected ==
  ASSUME NEW H, EntriesOK(H), NEW C, \A g \in C : FileIs(g, H), Connected(C),
         NEW f, FileIs(f, H), \A g \in C : KeysApart(f, g)
  PROVE  ApartFrom(f, UNION {g.entries : g \in C})
<1>1. \A g \in C \cup {f} : /\ g.smallest.key \in Nat /\ g.largest.key \in Nat /\ g.smallest.key <= g.largest.key
                            /\ \A x \in g.entries : x.key \in Nat /\ g.smallest.key <= x.key /\ x.key <= g.largest.key
  BY FileKeys
<1>2. CASE \A g \in C : f.largest.key < g.smallest.key
  <2>1. ASSUME NEW g \in C, NEW x \in g.entries PROVE Before(f.largest, x)
    BY <1>1, <1>2 DEF Before
  <2> QED
    BY <2>1 DEF ApartFrom
<1>3. CASE \A g \in C : g.largest.key < f.smallest.key
  <2>1. ASSUME NEW g \in C, NEW x \in g.entries PROVE Before(x, f.smallest)
    BY <1>1, <1>3 DEF Before
  <2> QED
    BY <2>1 DEF ApartFrom
<1>4. CASE (\E g \in C : ~(f.largest.key < g.smallest.key)) /\ (\E g \in C : ~(g.largest.key < f.smallest.key))
  <2>1. PICK g \in C : ~(f.largest.key < g.smallest.key)
    BY <1>4
  <2>2. PICK h \in C : ~(h.largest.key < f.smallest.key)
    BY <1>4
  <2>3. PICK k : k = f.smallest.key
    OBVIOUS
  <2>4. k \in Nat /\ g.smallest.key <= k
    BY <2>1, <2>3, <1>1 DEF KeysApart
  <2>5. k <= h.largest.key
    BY <2>2, <2>3, <1>1
  <2>6. PICK x \in C : x.smallest.key <= k /\ k <= x.largest.key
    BY <2>4, <2>5 DEF Connected
  <2>7. FALSE
    BY <2>3, <2>6, <1>1 DEF KeysApart
  <2> QED
    BY <2>7
<1> QED
  BY <1>2, <1>3, <1>4

-----------------------------------------------------------------------------
(* The invariant. *)

HistoryOK ==
  /\ last_sequence \in 0..MaxSeq /\ snapshots \subseteq 0..last_sequence
  /\ EntriesOK(history) /\ memtable \subseteq history
  /\ \A e \in history : e.seq <= last_sequence

FilesOK ==
  /\ next_file \in 1..(MaxFile + 1) /\ manifest.next = next_file
  /\ BuilderOK(manifest.builder, history, next_file)
  /\ levels = VersionOf(manifest.builder)

JobOK ==
  job # <<>> => job = <<job[1]>> /\ job[1].level = job[1].c.level /\ InputsOK(levels, job[1].c)

\* The entries of files were written, each under its own sequence number; the
\* manifest adds up to the current version; the inputs of a compaction and the
\* file that a read has charged are files of the current version.
CompactionInv == HistoryOK /\ FilesOK /\ SeekFileOK(levels, file_to_compact) /\ JobOK

LEMMA CompactionInitInv == CompactionInit => CompactionInv
<1> SUFFICES ASSUME CompactionInit PROVE CompactionInv
  OBVIOUS
<1> USE DEF CompactionInit
<1>1. HistoryOK
  <2>1. IsFiniteSet({})
    BY FS_EmptySet
  <2> QED
    BY <2>1, VersionAssumption DEF HistoryOK, EntriesOK
<1>2. \A l \in Level : Live(EmptyBuilder, l) = {} /\ EmptyBuilder.deleted[l] = {}
  BY DEF Live, EmptyBuilder
<1>3. BuilderOK(EmptyBuilder, history, next_file)
  <2>1. FilesAre({}, history)
    BY FS_EmptySet DEF FilesAre
  <2> QED
    BY <2>1, <1>2 DEF BuilderOK
<1>4. VersionOf(EmptyBuilder) = NoFiles
  <2>1. FileOrder({}) = <<>>
    <3>1. Cardinality({}) = 0
      BY FS_EmptySet
    <3>2. 1..0 = {}
      OBVIOUS
    <3> QED
      BY <3>1, <3>2 DEF FileOrder, InOrder
  <2> QED
    BY <2>1, <1>2 DEF VersionOf, NoFiles
<1>5. FilesOK
  BY <1>3, <1>4, FileAssumption DEF FilesOK
<1> QED
  BY <1>1, <1>5 DEF CompactionInv, SeekFileOK, JobOK

\* What the invariant says of the current version.
LEMMA CurrentVersion ==
  ASSUME CompactionInv
  PROVE  /\ EntriesOK(history) /\ VersionOK(levels, history)
         /\ \A l \in Level : ToSet(levels[l]) = Live(manifest.builder, l)
         /\ \A l \in Level : levels[l] = FileOrder(ToSet(levels[l]))
<1>1. /\ EntriesOK(history) /\ VersionOK(levels, history)
      /\ \A l \in Level : ToSet(levels[l]) = Live(manifest.builder, l)
  BY BuilderVersion DEF CompactionInv, HistoryOK, FilesOK
<1>2. \A l \in Level : levels[l] = FileOrder(Live(manifest.builder, l))
  BY DEF CompactionInv, FilesOK, VersionOf
<1> QED
  BY <1>1, <1>2

\* The step installs a version without the files of D and with those of A.
Installs(D, A) ==
  \A l \in Level : ToSet(levels'[l]) =
    {f \in ToSet(levels[l]) : ~\E d \in D : d.level = l /\ d.number = f.number}
      \cup {a.file : a \in {y \in A : y.level = l}}

\* LogAndApply keeps the manifest and the current version together.
LEMMA LogAndApplyKeeps ==
  ASSUME CompactionInv, NEW D, NEW A, NEW p, NEW M, M \in 1..(MaxFile + 1),
         EditOK(manifest.builder, history, next_file, M, D, A),
         LogAndApply(D, A, p, M), history' = history
  PROVE  FilesOK' /\ file_to_compact' = <<>> /\ Installs(D, A)
<1>1. PICK b : b = manifest.builder
  OBVIOUS
<1>2. PICK H : H = history
  OBVIOUS
<1>3. PICK N : N = next_file
  OBVIOUS
<1>4. EntriesOK(H) /\ BuilderOK(b, H, N) /\ levels = VersionOf(b)
  BY <1>1, <1>2, <1>3 DEF CompactionInv, HistoryOK, FilesOK
<1>5. EditOK(b, H, N, M, D, A)
  BY <1>1, <1>2, <1>3
<1> DEFINE edit == [deleted |-> D, added |-> A]
<1>6. PICK x : x = Apply(b, edit)
  OBVIOUS
<1>7. /\ BuilderOK(x, H, M)
      /\ SaveTo(Apply(EmptyBuilder, edit), VersionOf(b)) = VersionOf(x)
      /\ \A l \in Level : Live(x, l) = {f \in Live(b, l) : ~\E d \in D : d.level = l /\ d.number = f.number}
                                         \cup {a.file : a \in {y \in A : y.level = l}}
  BY <1>4, <1>5, <1>6, ApplyEdit
<1>8. levels' = SaveTo(Apply(EmptyBuilder, edit), levels) /\ next_file' = M /\ file_to_compact' = <<>>
  BY DEF LogAndApply
<1>9. manifest'.builder = x /\ manifest'.next = M
  BY <1>1, <1>6 DEF LogAndApply, ManifestRecord
<1>10. levels' = VersionOf(x)
  BY <1>4, <1>7, <1>8
<1>11. FilesOK'
  BY <1>2, <1>7, <1>8, <1>9, <1>10 DEF FilesOK
<1>12. \A l \in Level : ToSet(levels'[l]) = Live(x, l) /\ ToSet(levels[l]) = Live(b, l)
  BY <1>4, <1>7, <1>10, BuilderVersion
<1>13. Installs(D, A)
  BY <1>7, <1>12 DEF Installs
<1> QED
  BY <1>8, <1>11, <1>13

LEMMA WriteEntryInv == CompactionInv /\ WriteEntry => CompactionInv'
<1> SUFFICES ASSUME CompactionInv, WriteEntry PROVE CompactionInv'
  OBVIOUS
<1>1. PICK k \in Key, t \in {"value", "deletion"} :
        /\ memtable' = memtable \cup {[key |-> k, seq |-> last_sequence + 1, type |-> t]}
        /\ history' = history \cup {[key |-> k, seq |-> last_sequence + 1, type |-> t]}
  BY DEF WriteEntry
<1>2. /\ last_sequence < MaxSeq /\ last_sequence' = last_sequence + 1
      /\ UNCHANGED <<levels, compact_pointer, file_to_compact, next_file, snapshots, job,
                     manifest, split, undercut>>
  BY DEF WriteEntry
<1>3. PICK s, e, H :
        /\ s = last_sequence /\ e = [key |-> k, seq |-> last_sequence + 1, type |-> t] /\ H = history
        /\ s \in 0..(MaxSeq - 1)
  <2>1. last_sequence \in 0..(MaxSeq - 1)
    BY <1>2, VersionAssumption DEF CompactionInv, HistoryOK
  <2> QED
    BY <2>1
<1>4. e \in Entry /\ e.seq = s + 1 /\ s \in Nat
  BY <1>3, VersionAssumption DEF Entry
<1>5. EntriesOK(H) /\ \A g \in H : g.seq <= s
  BY <1>3 DEF CompactionInv, HistoryOK
<1>6. history' = H \cup {e} /\ memtable' = memtable \cup {e}
  BY <1>1, <1>3
<1>7. EntriesOK(H \cup {e}) /\ \A g \in H \cup {e} : g.seq <= s + 1
  <2>1. \A g \in H : g.seq \in Nat
    BY <1>5, EntryOrder
  <2>2. \A g \in H : g.seq # e.seq
    BY <2>1, <1>4, <1>5
  <2>3. IsFiniteSet(H \cup {e})
    BY <1>5, FS_AddElement DEF EntriesOK
  <2>4. \A g \in H \cup {e} : g.seq <= s + 1
    BY <2>1, <1>4, <1>5
  <2> QED
    BY <2>2, <2>3, <2>4, <1>4, <1>5 DEF EntriesOK
<1>8. HistoryOK'
  <2>1. last_sequence' \in 0..MaxSeq /\ 0..last_sequence \subseteq 0..last_sequence'
    BY <1>2, <1>3, VersionAssumption
  <2> QED
    BY <2>1, <1>2, <1>3, <1>6, <1>7 DEF HistoryOK, CompactionInv
<1>9. FilesOK'
  <2>1. BuilderOK(manifest.builder, H, next_file)
    BY <1>3 DEF CompactionInv, FilesOK
  <2>2. BuilderOK(manifest.builder, H \cup {e}, next_file)
    BY <2>1, FilesStay
  <2> QED
    BY <2>2, <1>2, <1>6 DEF FilesOK, CompactionInv
<1>10. SeekFileOK(levels, file_to_compact)' /\ JobOK'
  BY <1>2 DEF CompactionInv, SeekFileOK, JobOK
<1> QED
  BY <1>8, <1>9, <1>10 DEF CompactionInv

LEMMA GetSnapshotInv == CompactionInv /\ GetSnapshot => CompactionInv'
<1> SUFFICES ASSUME CompactionInv, GetSnapshot PROVE CompactionInv'
  OBVIOUS
<1>1. snapshots' \subseteq 0..last_sequence
  BY DEF GetSnapshot, SnapshotNumber, CompactionInv, HistoryOK
<1> QED
  BY <1>1 DEF GetSnapshot, CompactionInv, HistoryOK, FilesOK, SeekFileOK, JobOK

LEMMA ReleaseSnapshotInv == CompactionInv /\ ReleaseSnapshot => CompactionInv'
<1> SUFFICES ASSUME CompactionInv, ReleaseSnapshot PROVE CompactionInv'
  OBVIOUS
<1>1. snapshots' \subseteq 0..last_sequence
  BY DEF ReleaseSnapshot, CompactionInv, HistoryOK
<1> QED
  BY <1>1 DEF ReleaseSnapshot, CompactionInv, HistoryOK, FilesOK, SeekFileOK, JobOK

LEMMA UpdateStatsKeeps ==
  ASSUME CompactionInv, NEW x, SeekFileOK(levels, x), UpdateStats(x)
  PROVE  CompactionInv'
<1>1. SeekFileOK(levels, file_to_compact)'
  BY DEF UpdateStats, SeekFileOK
<1> QED
  BY <1>1 DEF UpdateStats, CompactionInv, HistoryOK, FilesOK, JobOK

LEMMA GetKeyInv == CompactionInv /\ GetKey => CompactionInv'
<1> SUFFICES ASSUME CompactionInv, GetKey PROVE CompactionInv'
  OBVIOUS
<1>1. PICK k, s : UpdateStats(VersionGet(levels, k, s).seek_file)
  BY DEF GetKey
<1>2. PICK x : x = VersionGet(levels, k, s).seek_file
  OBVIOUS
<1>3. SeekFileOK(levels, x)
  BY <1>2, CurrentVersion, ChargedFile
<1>4. UpdateStats(x)
  BY <1>1, <1>2
<1> QED
  BY <1>3, <1>4, UpdateStatsKeeps

LEMMA RecordReadSampleInv == CompactionInv /\ RecordReadSample => CompactionInv'
<1> SUFFICES ASSUME CompactionInv, RecordReadSample PROVE CompactionInv'
  OBVIOUS
<1>1. PICK e : UpdateStats(ReadSample(levels, e))
  BY DEF RecordReadSample
<1>2. PICK x : x = ReadSample(levels, e)
  OBVIOUS
<1>3. SeekFileOK(levels, x)
  BY <1>2, CurrentVersion, SampledFile
<1>4. UpdateStats(x)
  BY <1>1, <1>2
<1> QED
  BY <1>3, <1>4, UpdateStatsKeeps

\* The inputs of the compaction under way stay when no file is deleted.
LEMMA JobStays ==
  ASSUME JobOK, job' = job, \A l \in Level : ToSet(levels[l]) \subseteq ToSet(levels'[l])
  PROVE  JobOK'
<1> SUFFICES ASSUME job # <<>>
             PROVE  job = <<job[1]>> /\ job[1].level = job[1].c.level /\ InputsOK(levels', job[1].c)
  BY DEF JobOK
<1>1. PICK c : c = job[1].c
  OBVIOUS
<1>2. InputsOK(levels, c) /\ job = <<job[1]>> /\ job[1].level = c.level
  BY <1>1 DEF JobOK
<1>3. c.level \in Level /\ c.level + 1 \in Level
  <2>1. c.level \in 0..(kNumLevels - 2)
    BY <1>2 DEF InputsOK
  <2> QED
    BY <2>1, VersionAssumption DEF Level
<1>4. ToSet(levels[c.level]) \subseteq ToSet(levels'[c.level])
      /\ ToSet(levels[c.level + 1]) \subseteq ToSet(levels'[c.level + 1])
  BY <1>3
<1>5. c.inputs0 \in Seq(ToSet(levels'[c.level])) /\ c.inputs1 \in Seq(ToSet(levels'[c.level + 1]))
  BY <1>2, <1>4 DEF InputsOK
<1> QED
  BY <1>1, <1>2, <1>5 DEF InputsOK

\* The table that a memtable becomes.
MemTableFile == FileMetaData(next_file, memtable)
MemTableLevel == PickLevelForMemTableOutput(levels, MemTableFile.smallest.key, MemTableFile.largest.key)

LEMMA CompactMemTableInv ==
  ASSUME CompactionInv, CompactMemTable
  PROVE  /\ CompactionInv' /\ FileIs(MemTableFile, history)
         /\ Installs({}, {[level |-> MemTableLevel, file |-> MemTableFile]})
<1>1. PICK f : f = FileMetaData(next_file, memtable)
  OBVIOUS
<1>2. PICK level : level = PickLevelForMemTableOutput(levels, f.smallest.key, f.largest.key)
  OBVIOUS
<1>3. PICK A : A = {[level |-> level, file |-> f]}
  OBVIOUS
<1>4. PICK M : M = next_file + 1
  OBVIOUS
<1>5. PICK p : p = NoPointers
  OBVIOUS
<1>6. /\ memtable # {} /\ next_file <= MaxFile
      /\ LogAndApply({}, A, p, M) /\ memtable' = {}
      /\ UNCHANGED <<compact_pointer, last_sequence, snapshots, job, history>>
  BY <1>1, <1>2, <1>3, <1>4, <1>5 DEF CompactMemTable
<1>7. PICK H, E : H = history /\ E = memtable
  OBVIOUS
<1>8. PICK N : N = next_file
  OBVIOUS
<1>9. EntriesOK(H) /\ E \subseteq H /\ E # {} /\ N \in 1..(MaxFile + 1) /\ M = N + 1 /\ N <= MaxFile
  BY <1>4, <1>6, <1>7, <1>8 DEF CompactionInv, HistoryOK, FilesOK
<1>10. FileIs(f, H) /\ f.number = N
  <2>1. N \in Nat /\ f = FileMetaData(N, E)
    BY <1>1, <1>7, <1>8, <1>9
  <2> QED
    BY <2>1, <1>9, TableIsFile
<1>11. level \in Level
  BY <1>2, PickedLevel
<1>12. \A b : EditOK(b, H, N, M, {}, A)
  <2>1. IsFiniteSet(A)
    BY <1>3, FS_Singleton
  <2>2. \A a \in A : a.level = level /\ a.file = f
    BY <1>3
  <2>3. \A a, x \in A : a = x
    BY <1>3
  <2>4. N \in Nat /\ M \in Nat /\ 1 <= N /\ N <= M /\ N < M /\ N >= N
    BY <1>9, FileAssumption
  <2> QED
    BY <2>1, <2>2, <2>3, <2>4, <1>10, <1>11 DEF EditOK
<1>13. M \in 1..(MaxFile + 1)
  BY <1>9, FileAssumption
<1>14. /\ FilesOK' /\ file_to_compact' = <<>>
       /\ \A l \in Level : ToSet(levels[l]) \subseteq ToSet(levels'[l])
       /\ Installs({}, A)
  <2>1. EditOK(manifest.builder, history, next_file, M, {}, A) /\ history' = history
    BY <1>6, <1>7, <1>8, <1>12
  <2>2. FilesOK' /\ file_to_compact' = <<>> /\ Installs({}, A)
    BY <2>1, <1>6, <1>13, LogAndApplyKeeps
  <2>3. \A l \in Level : ToSet(levels[l]) \subseteq ToSet(levels'[l])
    BY <2>2 DEF Installs
  <2> QED
    BY <2>2, <2>3
<1>15. HistoryOK'
  BY <1>6 DEF CompactionInv, HistoryOK
<1>16. JobOK'
  BY <1>6, <1>14, JobStays DEF CompactionInv
<1>17. SeekFileOK(levels, file_to_compact)'
  BY <1>14 DEF SeekFileOK
<1>18. f = MemTableFile /\ level = MemTableLevel
  BY <1>1, <1>2 DEF MemTableFile, MemTableLevel
<1>19. FileIs(MemTableFile, history) /\ Installs({}, {[level |-> MemTableLevel, file |-> MemTableFile]})
  BY <1>3, <1>7, <1>10, <1>14, <1>18
<1> QED
  BY <1>14, <1>15, <1>16, <1>17, <1>19 DEF CompactionInv

\* The inputs of a compaction are deleted from their levels.
LEMMA DeletedInputs ==
  ASSUME NEW v, NEW c, InputsOK(v, c)
  PROVE  /\ c.level \in Level /\ c.level + 1 \in Level
         /\ \A d \in InputDeletions(c) : d.level \in Level /\ \E f \in ToSet(v[d.level]) : f.number = d.number
         /\ \A f \in ToSet(c.inputs0) :
              /\ f \in ToSet(v[c.level])
              /\ \E d \in InputDeletions(c) : d.level = c.level /\ d.number = f.number
<1>1. c.level \in Level /\ c.level + 1 \in Level
  BY VersionAssumption DEF InputsOK, Level
<1>2. ToSet(c.inputs0) \subseteq ToSet(v[c.level]) /\ ToSet(c.inputs1) \subseteq ToSet(v[c.level + 1])
  BY SeqFiles DEF InputsOK
<1>3. ASSUME NEW d \in InputDeletions(c)
      PROVE  d.level \in Level /\ \E f \in ToSet(v[d.level]) : f.number = d.number
  <2>1. CASE d \in {[level |-> c.level, number |-> f.number] : f \in ToSet(c.inputs0)}
    <3>1. PICK f \in ToSet(c.inputs0) : d = [level |-> c.level, number |-> f.number]
      BY <2>1
    <3>2. d.level = c.level /\ d.number = f.number
      BY <3>1
    <3> QED
      BY <3>2, <1>1, <1>2
  <2>2. CASE d \in {[level |-> c.level + 1, number |-> f.number] : f \in ToSet(c.inputs1)}
    <3>1. PICK f \in ToSet(c.inputs1) : d = [level |-> c.level + 1, number |-> f.number]
      BY <2>2
    <3>2. d.level = c.level + 1 /\ d.number = f.number
      BY <3>1
    <3> QED
      BY <3>2, <1>1, <1>2
  <2> QED
    BY <2>1, <2>2 DEF InputDeletions
<1>4. ASSUME NEW f \in ToSet(c.inputs0)
      PROVE  \E d \in InputDeletions(c) : d.level = c.level /\ d.number = f.number
  <2>1. [level |-> c.level, number |-> f.number] \in InputDeletions(c)
    BY DEF InputDeletions
  <2> QED
    BY <2>1
<1> QED
  BY <1>1, <1>2, <1>3, <1>4

\* A compaction begins.
LEMMA BeginKeeps ==
  ASSUME CompactionInv, NEW c, NEW m, InputsOK(levels, c), Begin(c, m)
  PROVE  CompactionInv'
<1>1. PICK j : j = [manual |-> m, c |-> c, level |-> c.level]
  OBVIOUS
<1>2. job' = <<j>> /\ j.c = c /\ j.level = c.level
  BY <1>1 DEF Begin
<1>3. job'[1] = j /\ job' = <<job'[1]>>
  BY <1>2
<1>4. JobOK'
  BY <1>2, <1>3 DEF JobOK, Begin, InputsOK
<1> QED
  BY <1>4 DEF Begin, CompactionInv, HistoryOK, FilesOK, SeekFileOK

\* The move of a single file.
LEMMA MoveKeeps ==
  ASSUME CompactionInv, job = <<>>, NEW c, InputsOK(levels, c), Len(c.inputs0) = 1,
         LogAndApply(InputDeletions(c), {[level |-> c.level + 1, file |-> Head(c.inputs0)]},
                     EditPointer(c), next_file),
         UNCHANGED <<last_sequence, memtable, snapshots, job, history>>
  PROVE  /\ CompactionInv'
         /\ Installs(InputDeletions(c), {[level |-> c.level + 1, file |-> Head(c.inputs0)]})
<1>1. PICK D, A, p : /\ D = InputDeletions(c)
                     /\ A = {[level |-> c.level + 1, file |-> Head(c.inputs0)]} /\ p = EditPointer(c)
  OBVIOUS
<1>2. PICK N, H, b : N = next_file /\ H = history /\ b = manifest.builder
  OBVIOUS
<1>3. PICK f : f = Head(c.inputs0)
  OBVIOUS
<1>4. /\ \A l \in Level : ToSet(levels[l]) = Live(b, l)
      /\ N \in 1..(MaxFile + 1) /\ BuilderOK(b, H, N)
  BY <1>2, CurrentVersion DEF CompactionInv, FilesOK
<1>5. c.inputs0 \in Seq(ToSet(levels[c.level])) /\ f \in ToSet(c.inputs0)
  <2>1. c.inputs0 \in Seq(ToSet(levels[c.level])) /\ c.inputs0 # <<>>
    BY DEF InputsOK
  <2> QED
    BY <2>1, <1>3, SeqFiles
<1>6. /\ c.level \in Level /\ c.level + 1 \in Level /\ f \in Live(b, c.level)
      /\ \A d \in D : d.level \in Level /\ \E g \in Live(b, d.level) : g.number = d.number
      /\ \E d \in D : d.level = c.level /\ d.number = f.number
  BY <1>1, <1>4, <1>5, DeletedInputs
<1>7. FileIs(f, H) /\ f.number < N
  BY <1>4, <1>6 DEF BuilderOK, FilesAre
<1>8. EditOK(b, H, N, N, D, A)
  <2>1. IsFiniteSet(A)
    BY <1>1, FS_Singleton
  <2>2. \A a \in A : a.level = c.level + 1 /\ a.file = f
    BY <1>1, <1>3
  <2>3. \A a, x \in A : a = x
    BY <1>1
  <2>4. N \in Nat /\ 1 <= N /\ N <= N /\ c.level < c.level + 1
    BY <1>4, <1>6, FileAssumption, VersionAssumption DEF Level
  <2>5. \A a \in A : \E d \in D : d.number = a.file.number /\ d.level < a.level /\ a.file \in Live(b, d.level)
    <3>1. PICK d \in D : d.level = c.level /\ d.number = f.number
      BY <1>6
    <3> QED
      BY <3>1, <2>2, <2>4, <1>6
  <2> QED
    BY <2>1, <2>2, <2>3, <2>4, <2>5, <1>6, <1>7 DEF EditOK
<1>9. FilesOK' /\ file_to_compact' = <<>> /\ Installs(D, A)
  <2>1. EditOK(manifest.builder, history, next_file, N, D, A) /\ LogAndApply(D, A, p, N)
        /\ history' = history /\ N \in 1..(MaxFile + 1)
    BY <1>1, <1>2, <1>4, <1>8
  <2> QED
    BY <2>1, LogAndApplyKeeps
<1>10. HistoryOK'
  BY DEF CompactionInv, HistoryOK
<1>11. JobOK' /\ SeekFileOK(levels, file_to_compact)'
  BY <1>9 DEF JobOK, SeekFileOK
<1>12. Installs(InputDeletions(c), {[level |-> c.level + 1, file |-> Head(c.inputs0)]})
  BY <1>1, <1>9
<1> QED
  BY <1>9, <1>10, <1>11, <1>12 DEF CompactionInv

LEMMA PickCompactionInv == CompactionInv /\ PickCompaction => CompactionInv'
<1> SUFFICES ASSUME CompactionInv, PickCompaction PROVE CompactionInv'
  OBVIOUS
<1>1. PICK p : p = PickedInputs
  OBVIOUS
<1>2. PICK c : c = SetupOtherInputs(p.level, p.inputs0)
  OBVIOUS
<1>3. job = <<>> /\ NeedsCompaction
  BY DEF PickCompaction, Idle
<1>4. \/ /\ IsTrivialMove(c)
         /\ LogAndApply(InputDeletions(c), {[level |-> c.level + 1, file |-> Head(c.inputs0)]},
                        EditPointer(c), next_file)
         /\ UNCHANGED <<last_sequence, memtable, snapshots, job, history>>
      \/ Begin(c, FALSE)
  BY <1>1, <1>2 DEF PickCompaction
<1>5. EntriesOK(history) /\ VersionOK(levels, history) /\ SeekFileOK(levels, file_to_compact)
  BY CurrentVersion DEF CompactionInv
<1>6. /\ p.level \in 0..(kNumLevels - 2)
      /\ p.inputs0 \in Seq(ToSet(levels[p.level])) /\ p.inputs0 # <<>>
  BY <1>1, <1>3, <1>5, PickedInputsOK
<1>7. InputsOK(levels, c)
  BY <1>2, <1>5, <1>6, SetupInputs
<1>8. CASE Begin(c, FALSE)
  BY <1>7, <1>8, BeginKeeps
<1>9. CASE ~Begin(c, FALSE)
  <2>1. Len(c.inputs0) = 1
    BY <1>4, <1>9 DEF IsTrivialMove
  <2> QED
    BY <2>1, <1>3, <1>4, <1>7, <1>9, MoveKeeps
<1> QED
  BY <1>8, <1>9

LEMMA CompactRangeInv == CompactionInv /\ CompactRange => CompactionInv'
<1> SUFFICES ASSUME CompactionInv, CompactRange PROVE CompactionInv'
  OBVIOUS
<1>1. PICK l \in 0..(kNumLevels - 2) :
        \E inputs \in ManualInputs(l) : Begin(SetupOtherInputs(l, inputs), TRUE)
  BY DEF CompactRange
<1>2. PICK inputs \in ManualInputs(l) : Begin(SetupOtherInputs(l, inputs), TRUE)
  BY <1>1
<1>3. inputs # <<>> /\ \E b \in 0..MaxKey, e \in 1..NoEnd : inputs = RangeInputs(l, b, e)
  BY <1>2 DEF ManualInputs
<1>4. PICK c : c = SetupOtherInputs(l, inputs)
  OBVIOUS
<1>5. EntriesOK(history) /\ VersionOK(levels, history) /\ l \in Level
  BY CurrentVersion, VersionAssumption DEF Level
<1>6. inputs \in Seq(ToSet(levels[l])) /\ inputs # <<>>
  BY <1>2, <1>3, <1>5, RangeInputsOK
<1>7. InputsOK(levels, c)
  BY <1>4, <1>5, <1>6, SetupInputs
<1>8. Begin(c, TRUE)
  BY <1>2, <1>4
<1> QED
  BY <1>7, <1>8, BeginKeeps

\* InstallCompactionResults: the edit of a compaction that ends.
LEMMA ResultsEdit ==
  ASSUME NEW H, EntriesOK(H), NEW b, NEW N, BuilderOK(b, H, N), N \in Nat, 1 <= N,
         NEW v, \A l \in Level : ToSet(v[l]) = Live(b, l),
         NEW c, InputsOK(v, c), NEW outputs, outputs = DoCompactionWork(c),
         NEW A, A = {[level |-> c.level + 1, file |-> FileMetaData(N + i - 1, outputs[i])] : i \in DOMAIN outputs}
  PROVE  /\ Len(outputs) \in Nat
         /\ EditOK(b, H, N, N + Len(outputs), InputDeletions(c), A)
<1> DEFINE W == ToSet(v[c.level]) \cup ToSet(v[c.level + 1])
           both == c.inputs0 \o c.inputs1
           File(i) == FileMetaData(N + i - 1, outputs[i])
<1>1. c.level \in Level /\ c.level + 1 \in Level
  BY DeletedInputs
<1>2. PICK E : E = EntriesOf(both)
  OBVIOUS
<1>3. E \in SUBSET H
  <2>1. c.inputs0 \in Seq(W) /\ c.inputs1 \in Seq(W)
    BY DEF InputsOK
  <2>2. \A f \in W : FileIs(f, H)
    BY <1>1 DEF BuilderOK, FilesAre
  <2> HIDE DEF W
  <2>3. both \in Seq(W)
    BY <2>1, ConcatProperties
  <2> HIDE DEF both
  <2>4. \A f \in ToSet(both) : FileIs(f, H)
    BY <2>2, <2>3, SeqFiles
  <2> QED
    BY <2>4, <1>2, FileSizes
<1>4. outputs \in Seq(Tables(E))
  BY <1>2, <1>3, CompactionOutputs
<1>5. PICK n \in Nat : n = Len(outputs) /\ DOMAIN outputs = 1..n /\ \A i \in 1..n : outputs[i] \in Tables(E)
  BY <1>4, LenProperties, ElementOfSeq
<1>6. ASSUME NEW i \in 1..n PROVE FileIs(File(i), H) /\ File(i).number = N + i - 1
  <2>1. outputs[i] \in SUBSET H /\ outputs[i] # {} /\ N + i - 1 \in Nat
    BY <1>3, <1>5 DEF Tables
  <2> QED
    BY <2>1, TableIsFile
<1> HIDE DEF File, W, both
<1>7. A = {[level |-> c.level + 1, file |-> File(i)] : i \in 1..n}
  BY <1>5 DEF File
<1>8. \A a \in A : \E i \in 1..n : a.level = c.level + 1 /\ a.file = File(i) /\ a = [level |-> c.level + 1, file |-> File(i)]
  BY <1>7
<1>9. IsFiniteSet(A)
  <2> DEFINE h == [i \in 1..n |-> [level |-> c.level + 1, file |-> File(i)]]
  <2>1. h \in Surjection(1..n, A)
    BY <1>7 DEF Surjection
  <2>2. IsFiniteSet(1..n)
    <3>1. 1 \in Int /\ n \in Int
      OBVIOUS
    <3> QED
      BY <3>1, FS_Interval
  <2> HIDE DEF h
  <2> QED
    BY <2>1, <2>2, FS_Surjection
<1>10. \A a \in A : a.level \in Level /\ FileIs(a.file, H) /\ a.file.number < N + n /\ a.file.number >= N
  <2> SUFFICES ASSUME NEW a \in A
               PROVE  a.level \in Level /\ FileIs(a.file, H) /\ a.file.number < N + n /\ a.file.number >= N
    OBVIOUS
  <2>1. PICK i \in 1..n : a.level = c.level + 1 /\ a.file = File(i)
    BY <1>8
  <2>2. FileIs(a.file, H) /\ a.file.number = N + i - 1
    BY <2>1, <1>6
  <2> QED
    BY <2>1, <2>2, <1>1
<1>11. \A a, x \in A : a.file.number = x.file.number => a = x
  <2> SUFFICES ASSUME NEW a \in A, NEW x \in A, a.file.number = x.file.number PROVE a = x
    OBVIOUS
  <2>1. PICK i \in 1..n : a.file = File(i) /\ a = [level |-> c.level + 1, file |-> File(i)]
    BY <1>8
  <2>2. PICK j \in 1..n : x.file = File(j) /\ x = [level |-> c.level + 1, file |-> File(j)]
    BY <1>8
  <2>3. N + i - 1 = N + j - 1
    BY <2>1, <2>2, <1>6
  <2>4. i = j
    BY <2>3
  <2> QED
    BY <2>1, <2>2, <2>4
<1>12. \A d \in InputDeletions(c) : d.level \in Level /\ \E f \in Live(b, d.level) : f.number = d.number
  BY DeletedInputs
<1>13. N + n \in Nat /\ N <= N + n
  OBVIOUS
<1> QED
  BY <1>5, <1>9, <1>10, <1>11, <1>12, <1>13 DEF EditOK

\* The tables that the compaction c adds to the next level.
ResultFiles(c, N) ==
  {[level |-> c.level + 1, file |-> FileMetaData(N + i - 1, DoCompactionWork(c)[i])]
     : i \in DOMAIN DoCompactionWork(c)}

LEMMA FinishCompactionInv ==
  ASSUME CompactionInv, FinishCompaction
  PROVE  CompactionInv' /\ Installs(InputDeletions(job[1].c), ResultFiles(job[1].c, next_file))
<1>1. PICK c : c = job[1].c
  OBVIOUS
<1>2. PICK outputs : outputs = DoCompactionWork(c)
  OBVIOUS
<1>3. PICK A : A = {[level |-> c.level + 1, file |-> FileMetaData(next_file + i - 1, outputs[i])]
                      : i \in DOMAIN outputs}
  OBVIOUS
<1>4. PICK M, D, p : M = next_file + Len(outputs) /\ D = InputDeletions(c) /\ p = EditPointer(c)
  OBVIOUS
<1>5. /\ job # <<>> /\ next_file + Len(outputs) - 1 <= MaxFile
      /\ LogAndApply(D, A, p, M) /\ job' = <<>>
      /\ UNCHANGED <<compact_pointer, last_sequence, memtable, snapshots, history, undercut>>
  BY <1>1, <1>2, <1>3, <1>4 DEF FinishCompaction
<1>6. PICK H, b, N, v : H = history /\ b = manifest.builder /\ N = next_file /\ v = levels
  OBVIOUS
<1>7. /\ EntriesOK(H) /\ BuilderOK(b, H, N) /\ N \in 1..(MaxFile + 1)
      /\ \A l \in Level : ToSet(v[l]) = Live(b, l)
  BY <1>6, CurrentVersion DEF CompactionInv, FilesOK
<1>8. InputsOK(v, c)
  BY <1>1, <1>5, <1>6 DEF CompactionInv, JobOK
<1>9. A = {[level |-> c.level + 1, file |-> FileMetaData(N + i - 1, outputs[i])] : i \in DOMAIN outputs}
  BY <1>3, <1>6
<1>10. N \in Nat /\ 1 <= N
  BY <1>7, FileAssumption
<1>11. Len(outputs) \in Nat /\ EditOK(b, H, N, N + Len(outputs), InputDeletions(c), A)
  BY <1>2, <1>7, <1>8, <1>9, <1>10, ResultsEdit
<1>12. M \in 1..(MaxFile + 1)
  BY <1>4, <1>5, <1>6, <1>10, <1>11, FileAssumption
<1>13. FilesOK' /\ file_to_compact' = <<>> /\ Installs(D, A)
  <2>1. EditOK(manifest.builder, history, next_file, M, D, A) /\ history' = history
    BY <1>4, <1>5, <1>6, <1>11
  <2> QED
    BY <2>1, <1>5, <1>12, LogAndApplyKeeps
<1>14. HistoryOK'
  BY <1>5 DEF CompactionInv, HistoryOK
<1>15. JobOK' /\ SeekFileOK(levels, file_to_compact)'
  BY <1>5, <1>13 DEF JobOK, SeekFileOK
<1>16. D = InputDeletions(job[1].c) /\ A = ResultFiles(job[1].c, next_file)
  BY <1>1, <1>2, <1>3, <1>4 DEF ResultFiles
<1> QED
  BY <1>13, <1>14, <1>15, <1>16 DEF CompactionInv

\* Recover: the version that the manifest adds up to.
LEMMA RecoveredVersion ==
  ASSUME NEW b
  PROVE  SaveTo(b, NoFiles) = VersionOf(b)
<1> DEFINE F(l) == {f \in ToSet(NoFiles[l]) \cup b.added[l] : f.number \notin b.deleted[l]}
<1>1. SaveTo(b, NoFiles) = [l \in Level |-> FileOrder(F(l))]
  BY DEF SaveTo
<1>2. ASSUME NEW l \in Level PROVE F(l) = Live(b, l)
  <2>1. NoFiles[l] = <<>>
    BY DEF NoFiles
  <2>2. ToSet(<<>>) = {}
    BY DEF ToSet
  <2> QED
    BY <2>1, <2>2 DEF Live
<1> HIDE DEF F
<1> QED
  BY <1>1, <1>2 DEF VersionOf

\* A snapshot of the version stands for all the records before it.
LEMMA SnapshotRecord ==
  ASSUME NEW H, EntriesOK(H), NEW b, NEW N, BuilderOK(b, H, N)
  PROVE  LET y == WriteSnapshot(VersionOf(b))
         IN BuilderOK(y, H, N) /\ VersionOf(y) = VersionOf(b)
<1> DEFINE v == VersionOf(b)
           A == UNION {{[level |-> l, file |-> f] : f \in ToSet(v[l])} : l \in Level}
           y == WriteSnapshot(v)
<1>1. \A l \in Level : ToSet(v[l]) = Live(b, l)
  BY BuilderVersion
<1> HIDE DEF v
<1>2. ASSUME NEW l \in Level
      PROVE  y.deleted[l] = {} /\ y.added[l] = Live(b, l)
  <2>1. y = Apply(EmptyBuilder, [deleted |-> {}, added |-> A])
    BY DEF WriteSnapshot
  <2>2. {a.file : a \in {x \in A : x.level = l}} = ToSet(v[l])
    <3>1. \A a \in A : \E m \in Level : \E f \in ToSet(v[m]) : a = [level |-> m, file |-> f]
      OBVIOUS
    <3>2. \A f \in ToSet(v[l]) : [level |-> l, file |-> f] \in A
      OBVIOUS
    <3> HIDE DEF A
    <3>3. \A a \in A : a.level = l => a.file \in ToSet(v[l])
      BY <3>1
    <3>4. \A f \in ToSet(v[l]) : \E a \in A : a.level = l /\ a.file = f
      BY <3>2
    <3> QED
      BY <3>3, <3>4
  <2> HIDE DEF A, y
  <2>3. y.added[l] = {a.file : a \in {x \in A : x.level = l}} /\ y.deleted[l] = {}
    BY <2>1 DEF Apply, EmptyBuilder
  <2> QED
    BY <2>2, <2>3, <1>1
<1> HIDE DEF y
<1>3. \A l \in Level : Live(y, l) = Live(b, l)
  BY <1>2 DEF Live
<1>4. BuilderOK(y, H, N)
  BY <1>2, <1>3 DEF BuilderOK
<1>5. VersionOf(y) = VersionOf(b)
  BY <1>3 DEF VersionOf
<1> QED
  BY <1>4, <1>5 DEF y, v

LEMMA ReopenInv ==
  ASSUME CompactionInv, Reopen
  PROVE  /\ CompactionInv' /\ \A l \in Level \ {0} : ToSet(levels'[l]) = ToSet(levels[l])
         /\ Installs({}, IF memtable = {} THEN {}
                         ELSE {[level |-> 0, file |-> FileMetaData(next_file + 1, memtable)]})
<1>1. PICK b, H, N, E : b = manifest.builder /\ H = history /\ N = next_file /\ E = memtable
  OBVIOUS
<1>2. /\ EntriesOK(H) /\ E \subseteq H /\ BuilderOK(b, H, N) /\ manifest.next = N
      /\ N \in 1..(MaxFile + 1)
  BY <1>1 DEF CompactionInv, HistoryOK, FilesOK
<1>3. PICK f : f = FileMetaData(N + 1, E)
  OBVIOUS
<1>4. PICK A : A = IF E = {} THEN {} ELSE {[level |-> 0, file |-> f]}
  OBVIOUS
<1>5. PICK x : x = Apply(b, [deleted |-> {}, added |-> A])
  OBVIOUS
<1>6. PICK v : v = SaveTo(x, NoFiles)
  OBVIOUS
<1>7. /\ N + 1 <= MaxFile /\ levels' = v
      /\ manifest'.builder = WriteSnapshot(v) /\ manifest'.next = N + 2
      /\ next_file' = N + 2
  BY <1>1, <1>2, <1>3, <1>4, <1>5, <1>6 DEF Reopen
<1>8. /\ file_to_compact' = <<>> /\ memtable' = {} /\ snapshots' = {} /\ job' = <<>>
      /\ UNCHANGED <<last_sequence, history, split, undercut>>
  BY DEF Reopen
<1>9. N \in Nat /\ 1 <= N /\ N + 2 \in 1..(MaxFile + 1) /\ N + 1 >= N /\ N + 1 < N + 2 /\ N <= N + 2
  BY <1>2, <1>7, FileAssumption
<1>10. EditOK(b, H, N, N + 2, {}, A)
  <2>1. IsFiniteSet(A)
    BY <1>4, FS_Singleton, FS_EmptySet
  <2>2. \A a \in A : a.level = 0 /\ a.file = f /\ E # {}
    BY <1>4
  <2>3. \A a, z \in A : a = z
    BY <1>4
  <2>4. E # {} => FileIs(f, H) /\ f.number = N + 1
    <3>1. N + 1 \in Nat
      BY <1>9
    <3> QED
      BY <3>1, <1>2, <1>3, TableIsFile
  <2>5. 0 \in Level /\ N + 2 \in Nat
    BY <1>9, VersionAssumption DEF Level
  <2> QED
    BY <2>1, <2>2, <2>3, <2>4, <2>5, <1>9 DEF EditOK
<1>11. /\ BuilderOK(x, H, N + 2)
       /\ \A l \in Level : Live(x, l) = {g \in Live(b, l) : ~\E d \in {} : d.level = l /\ d.number = g.number}
                                          \cup {a.file : a \in {z \in A : z.level = l}}
  BY <1>2, <1>5, <1>10, ApplyEdit
<1>12. v = VersionOf(x)
  BY <1>6, RecoveredVersion
<1>13. PICK y : y = WriteSnapshot(v)
  OBVIOUS
<1>14. BuilderOK(y, H, N + 2) /\ VersionOf(y) = v
  BY <1>2, <1>11, <1>12, <1>13, SnapshotRecord
<1>15. FilesOK'
  <2>1. history' = H /\ manifest'.builder = y
    BY <1>1, <1>7, <1>8, <1>13
  <2> QED
    BY <2>1, <1>7, <1>9, <1>14 DEF FilesOK
<1>16. HistoryOK'
  BY <1>8 DEF CompactionInv, HistoryOK
<1>17. JobOK' /\ SeekFileOK(levels, file_to_compact)'
  BY <1>8 DEF JobOK, SeekFileOK
<1>18. \A l \in Level \ {0} : ToSet(levels'[l]) = ToSet(levels[l])
  <2>1. \A l \in Level : ToSet(levels'[l]) = Live(x, l) /\ ToSet(levels[l]) = Live(b, l)
    BY <1>1, <1>2, <1>7, <1>11, <1>12, BuilderVersion DEF CompactionInv, FilesOK
  <2>2. \A a \in A : a.level = 0
    BY <1>4
  <2>3. \A l \in Level \ {0} : Live(x, l) = Live(b, l)
    BY <2>2, <1>11
  <2> QED
    BY <2>1, <2>3
<1>19. Installs({}, A)
  <2>1. \A l \in Level : ToSet(levels'[l]) = Live(x, l) /\ ToSet(levels[l]) = Live(b, l)
    BY <1>1, <1>2, <1>7, <1>11, <1>12, BuilderVersion DEF CompactionInv, FilesOK
  <2> QED
    BY <2>1, <1>11 DEF Installs
<1>20. A = IF memtable = {} THEN {} ELSE {[level |-> 0, file |-> FileMetaData(next_file + 1, memtable)]}
  BY <1>1, <1>3, <1>4
<1> QED
  BY <1>15, <1>16, <1>17, <1>18, <1>19, <1>20 DEF CompactionInv

\* The invariant is inductive: whatever is written, moved, compacted or
\* replayed, the manifest and the current version stay together.
THEOREM LevelsInv == CompactionSpec => []CompactionInv
<1>1. CompactionInv /\ [CompactionNext]_compactionVars => CompactionInv'
  <2>1. CompactionInv /\ UNCHANGED compactionVars => CompactionInv'
    BY DEF compactionVars, CompactionInv, HistoryOK, FilesOK, SeekFileOK, JobOK
  <2> QED
    BY <2>1, WriteEntryInv, GetSnapshotInv, ReleaseSnapshotInv, GetKeyInv, RecordReadSampleInv,
       CompactMemTableInv, PickCompactionInv, CompactRangeInv, FinishCompactionInv, ReopenInv
    DEF CompactionNext
<1> QED
  BY CompactionInitInv, <1>1, PTL DEF CompactionSpec

\* Recover rebuilds exactly the current version from the manifest, at every
\* point between LogAndApply, compactions, moves and restarts.
THEOREM LevelsManifest == CompactionSpec => []ManifestIsCurrent
<1>1. CompactionInv => ManifestIsCurrent
  <2> SUFFICES ASSUME CompactionInv PROVE ManifestIsCurrent
    OBVIOUS
  <2>1. PICK b : b = manifest.builder
    OBVIOUS
  <2>2. levels = VersionOf(b)
    BY <2>1 DEF CompactionInv, FilesOK
  <2> QED
    BY <2>1, <2>2, RecoveredVersion DEF ManifestIsCurrent
<1> QED
  BY LevelsInv, <1>1, PTL

\* Nothing but its own end deletes the inputs of a compaction under way, also
\* when a memtable is written to a table in the middle of it.
THEOREM LevelsInputs == CompactionSpec => []InputsStayLive
<1>1. CompactionInv => InputsStayLive
  <2> SUFFICES ASSUME CompactionInv, job # <<>>
               PROVE  /\ ToSet(job[1].c.inputs0) \subseteq ToSet(levels[job[1].level])
                      /\ ToSet(job[1].c.inputs1) \subseteq ToSet(levels[job[1].level + 1])
    BY DEF InputsStayLive
  <2>1. job[1].level = job[1].c.level /\ InputsOK(levels, job[1].c)
    BY DEF CompactionInv, JobOK
  <2> QED
    BY <2>1, SeqFiles DEF InputsOK
<1> QED
  BY LevelsInv, <1>1, PTL

\* Levels, memtable, snapshots, file numbers and the compaction under way have
\* their types.
THEOREM LevelsTypes == CompactionSpec => []CompactionTypeOK
<1>1. CompactionInv => CompactionTypeOK
  <2> SUFFICES ASSUME CompactionInv PROVE CompactionTypeOK
    OBVIOUS
  <2>1. ASSUME NEW l \in Level, NEW f \in ToSet(levels[l])
        PROVE  f.entries \subseteq Entry /\ f.entries # {} /\ f.number \in 1..MaxFile
    <3>1. f \in Live(manifest.builder, l)
      BY CurrentVersion
    <3>2. FileIs(f, history) /\ 1 <= f.number /\ f.number < next_file
      BY <3>1 DEF CompactionInv, FilesOK, BuilderOK, FilesAre
    <3>3. f.number \in 1..MaxFile
      BY <3>2, FileAssumption DEF FileIs, CompactionInv, FilesOK
    <3>4. history \subseteq Entry
      BY DEF CompactionInv, HistoryOK, EntriesOK
    <3> QED
      BY <3>2, <3>3, <3>4 DEF FileIs
  <2>2. memtable \subseteq Entry /\ history \subseteq Entry /\ snapshots \subseteq 0..last_sequence
    BY DEF CompactionInv, HistoryOK, EntriesOK
  <2>3. next_file \in 1..(MaxFile + 2)
    BY FileAssumption DEF CompactionInv, FilesOK
  <2>4. \A q, a : q = <<a>> => Len(q) = 1
    OBVIOUS
  <2>5. Len(job) <= 1 /\ Len(file_to_compact) <= 1
    <3>1. Len(<<>>) = 0
      OBVIOUS
    <3>2. job = <<>> \/ job = <<job[1]>>
      BY DEF CompactionInv, JobOK
    <3>3. file_to_compact = <<>> \/ file_to_compact = <<file_to_compact[1]>>
      BY DEF CompactionInv, SeekFileOK
    <3>4. Len(job) = 0 \/ Len(job) = 1
      BY <3>1, <3>2, <2>4
    <3>5. Len(file_to_compact) = 0 \/ Len(file_to_compact) = 1
      BY <3>1, <3>3, <2>4
    <3> QED
      BY <3>4, <3>5
  <2> QED
    BY <2>1, <2>2, <2>3, <2>5 DEF CompactionTypeOK
<1> QED
  BY LevelsInv, <1>1, PTL

-----------------------------------------------------------------------------
(* The levels stay disjoint. *)

\* The files of an automatic compaction leave no gap of user keys that a new
\* table could be put into.
JobConnected ==
  job # <<>> /\ ~job[1].manual =>
    Connected(ToSet(job[1].c.inputs0) \cup ToSet(job[1].c.inputs1))

\* Unless a table was put below a manual compaction, the files of a level are
\* disjoint and the outputs of the compaction under way fit between them.
DisjointInv ==
  /\ undercut \/ (DisjointOK(levels) /\ (job # <<>> => JobApart(levels, job[1].c)))
  /\ JobConnected

LEMMA DisjointInit == CompactionInit => DisjointInv
<1> SUFFICES ASSUME CompactionInit PROVE DisjointInv
  OBVIOUS
<1>1. \A l \in Level : levels[l] = <<>>
  BY DEF CompactionInit, NoFiles
<1>2. ToSet(<<>>) = {}
  BY DEF ToSet
<1>3. DisjointOK(levels)
  BY <1>1, <1>2 DEF DisjointOK
<1> QED
  BY <1>3 DEF CompactionInit, DisjointInv, JobConnected

\* Writes, reads and snapshots leave the levels and the compaction alone.
LEMMA LevelsUntouched ==
  ASSUME DisjointInv, UNCHANGED <<levels, job, undercut>>
  PROVE  DisjointInv'
BY DEF DisjointInv, DisjointOK, JobApart, JobConnected

\* A compaction begins.
LEMMA BeginDisjoint ==
  ASSUME CompactionInv, DisjointInv, NEW c, NEW m, InputsOK(levels, c), Begin(c, m),
         c.inputs1 = NextLevelInputs(c.level, c.inputs0),
         m \/ Connected(ToSet(c.inputs0) \cup ToSet(c.inputs1))
  PROVE  DisjointInv'
<1>1. PICK j : j = [manual |-> m, c |-> c, level |-> c.level]
  OBVIOUS
<1>2. job' = <<j>> /\ j.c = c /\ j.manual = m
  BY <1>1 DEF Begin
<1>3. job'[1].c = c /\ job'[1].manual = m /\ levels' = levels /\ undercut' = undercut
  BY <1>2 DEF Begin
<1>4. JobConnected'
  BY <1>3 DEF JobConnected
<1>5. undercut \/ (DisjointOK(levels) /\ JobApart(levels, c))
  BY CurrentVersion, SetupApart DEF DisjointInv
<1>6. (undercut \/ (DisjointOK(levels) /\ (job # <<>> => JobApart(levels, job[1].c))))'
  BY <1>3, <1>5 DEF DisjointOK, JobApart
<1> QED
  BY <1>4, <1>6 DEF DisjointInv

\* The move of a single file: no file of the next level overlaps it.
LEMMA MoveDisjoint ==
  ASSUME CompactionInv, DisjointInv, NEW c, InputsOK(levels, c), Len(c.inputs0) = 1,
         c.inputs1 = <<>>, c.inputs1 = NextLevelInputs(c.level, c.inputs0),
         Installs(InputDeletions(c), {[level |-> c.level + 1, file |-> Head(c.inputs0)]}),
         job' = <<>>, undercut' = undercut
  PROVE  DisjointInv'
<1>1. JobConnected'
  BY DEF JobConnected
<1> SUFFICES ASSUME ~undercut PROVE DisjointOK(levels)'
  BY <1>1 DEF DisjointInv
<1>2. DisjointOK(levels)
  BY DEF DisjointInv
<1>3. JobApart(levels, c)
  BY <1>2, CurrentVersion, SetupApart
<1>4. PICK f, E, H : f = Head(c.inputs0) /\ E = EntriesOf(c.inputs0 \o c.inputs1) /\ H = history
  OBVIOUS
<1>5. FileIs(f, H) /\ f.entries \subseteq E
  <2>1. f \in ToSet(c.inputs0) /\ f \in ToSet(levels[c.level])
    BY <1>4, SeqFiles DEF InputsOK
  <2>2. c.level \in Level
    BY DeletedInputs
  <2>3. FileIs(f, H)
    BY <2>1, <2>2, <1>4, CurrentVersion DEF VersionOK, FilesAre
  <2>4. c.inputs0 \o c.inputs1 = c.inputs0
    BY DEF InputsOK
  <2> QED
    BY <2>1, <2>3, <2>4, <1>4 DEF EntriesOf
<1>6. \A g \in ToSet(levels[c.level + 1]) : Separate(f, g) /\ Separate(g, f)
  <2>1. ToSet(c.inputs1) = {}
    BY DEF ToSet
  <2>2. \A g \in ToSet(levels[c.level + 1]) : ApartFrom(g, E)
    BY <2>1, <1>3, <1>4 DEF JobApart
  <2> QED
    BY <2>2, <1>5, ApartSeparate
<1>7. \A l \in Level : \A g \in ToSet(levels'[l]) : g \in ToSet(levels[l]) \/ (l = c.level + 1 /\ g = f)
  BY <1>4 DEF Installs
<1> QED
  BY <1>2, <1>6, <1>7 DEF DisjointOK

LEMMA PickCompactionDisjoint ==
  ASSUME CompactionInv, DisjointInv, PickCompaction
  PROVE  DisjointInv'
<1>1. PICK p : p = PickedInputs
  OBVIOUS
<1>2. PICK c : c = SetupOtherInputs(p.level, p.inputs0)
  OBVIOUS
<1>3. job = <<>> /\ NeedsCompaction
  BY DEF PickCompaction, Idle
<1>4. \/ /\ IsTrivialMove(c)
         /\ LogAndApply(InputDeletions(c), {[level |-> c.level + 1, file |-> Head(c.inputs0)]},
                        EditPointer(c), next_file)
         /\ UNCHANGED <<last_sequence, memtable, snapshots, job, history, undercut>>
      \/ Begin(c, FALSE)
  BY <1>1, <1>2 DEF PickCompaction
<1>5. EntriesOK(history) /\ VersionOK(levels, history) /\ SeekFileOK(levels, file_to_compact)
  BY CurrentVersion DEF CompactionInv
<1>6. /\ p.level \in 0..(kNumLevels - 2)
      /\ p.inputs0 \in Seq(ToSet(levels[p.level])) /\ p.inputs0 # <<>>
      /\ Connected(ToSet(p.inputs0))
  BY <1>1, <1>3, <1>5, PickedInputsOK
<1>7. /\ InputsOK(levels, c) /\ c.level = p.level /\ c.inputs1 = NextLevelInputs(p.level, c.inputs0)
      /\ Connected(ToSet(c.inputs0) \cup ToSet(c.inputs1))
  BY <1>2, <1>5, <1>6, SetupInputs
<1>8. CASE Begin(c, FALSE)
  BY <1>7, <1>8, BeginDisjoint
<1>9. CASE ~Begin(c, FALSE)
  <2>1. Len(c.inputs0) = 1 /\ c.inputs1 = <<>>
    BY <1>4, <1>9 DEF IsTrivialMove
  <2>2. Installs(InputDeletions(c), {[level |-> c.level + 1, file |-> Head(c.inputs0)]})
    BY <2>1, <1>3, <1>4, <1>7, <1>9, MoveKeeps
  <2>3. job' = <<>> /\ undercut' = undercut
    BY <1>3, <1>4, <1>9
  <2> QED
    BY <2>1, <2>2, <2>3, <1>7, MoveDisjoint
<1> QED
  BY <1>8, <1>9

LEMMA CompactRangeDisjoint ==
  ASSUME CompactionInv, DisjointInv, CompactRange
  PROVE  DisjointInv'
<1>1. PICK l \in 0..(kNumLevels - 2) :
        \E inputs \in ManualInputs(l) : Begin(SetupOtherInputs(l, inputs), TRUE)
  BY DEF CompactRange
<1>2. PICK inputs \in ManualInputs(l) : Begin(SetupOtherInputs(l, inputs), TRUE)
  BY <1>1
<1>3. inputs # <<>> /\ \E b \in 0..MaxKey, e \in 1..NoEnd : inputs = RangeInputs(l, b, e)
  BY <1>2 DEF ManualInputs
<1>4. PICK c : c = SetupOtherInputs(l, inputs)
  OBVIOUS
<1>5. EntriesOK(history) /\ VersionOK(levels, history) /\ l \in Level
  BY CurrentVersion, VersionAssumption DEF Level
<1>6. inputs \in Seq(ToSet(levels[l])) /\ inputs # <<>>
  BY <1>2, <1>3, <1>5, RangeInputsOK
<1>7. InputsOK(levels, c) /\ c.level = l /\ c.inputs1 = NextLevelInputs(l, c.inputs0)
  BY <1>4, <1>5, <1>6, SetupInputs
<1>8. Begin(c, TRUE)
  BY <1>2, <1>4
<1> QED
  BY <1>7, <1>8, BeginDisjoint

\* A memtable becomes a table: below level 0 it goes where it overlaps no file,
\* and not into a gap of the compaction under way.
LEMMA CompactMemTableDisjoint ==
  ASSUME CompactionInv, DisjointInv, CompactMemTable
  PROVE  DisjointInv'
<1>1. PICK f, L, H, v : f = MemTableFile /\ L = MemTableLevel /\ H = history /\ v = levels
  OBVIOUS
<1>2. /\ EntriesOK(H) /\ VersionOK(v, H) /\ \A l \in Level : v[l] = FileOrder(ToSet(v[l]))
  BY <1>1, CurrentVersion
<1>3. FileIs(f, H) /\ Installs({}, {[level |-> L, file |-> f]})
  BY <1>1, CompactMemTableInv
<1>4. L = PickLevelForMemTableOutput(v, f.smallest.key, f.largest.key)
  BY <1>1 DEF MemTableLevel
<1>5. /\ undercut' = (undercut \/ (job # <<>> /\ job[1].manual /\ L > job[1].level))
      /\ job' = job
  BY <1>1 DEF CompactMemTable, MemTableLevel, MemTableFile
<1>6. JobConnected'
  BY <1>5 DEF DisjointInv, JobConnected
<1> SUFFICES ASSUME ~undercut'
             PROVE  DisjointOK(levels)' /\ (job # <<>> => JobApart(levels', job[1].c))
  BY <1>5, <1>6 DEF DisjointInv, JobApart
<1>7. DisjointOK(v) /\ (job # <<>> => JobApart(v, job[1].c))
  BY <1>1, <1>5 DEF DisjointInv
<1>8. L \in Level
  BY <1>4, PickedLevel
<1>9. L > 0 => \A m \in 0..L : m \in Level /\ \A g \in ToSet(v[m]) : KeysApart(f, g)
  BY <1>2, <1>3, <1>4, <1>7, NewTableApart
<1>10. \A l \in Level : \A g \in ToSet(levels'[l]) : g \in ToSet(v[l]) \/ (l = L /\ g = f)
  BY <1>1, <1>3 DEF Installs
<1>11. L > 0 => \A g \in ToSet(v[L]) : Separate(f, g) /\ Separate(g, f)
  <2>1. L > 0 => L \in 0..L
    BY <1>8, VersionAssumption DEF Level
  <2> QED
    BY <2>1, <1>9, KeysSeparate
<1>12. DisjointOK(levels)'
  <2>1. \A l \in Level \ {0} : l > 0
    BY VersionAssumption DEF Level
  <2> QED
    BY <2>1, <1>7, <1>10, <1>11 DEF DisjointOK
<1>13. ASSUME job # <<>> PROVE JobApart(levels', job[1].c)
  <2>1. PICK c : c = job[1].c
    OBVIOUS
  <2>2. InputsOK(v, c) /\ job[1].level = c.level
    BY <2>1, <1>1, <1>13 DEF CompactionInv, JobOK
  <2>3. c.level \in Level /\ c.level + 1 \in Level /\ c.level \in Nat /\ c.level + 1 > 0
    BY <2>2, VersionAssumption DEF InputsOK, Level
  <2>4. PICK E : E = EntriesOf(c.inputs0 \o c.inputs1)
    OBVIOUS
  <2>5. \A g \in ToSet(v[c.level + 1]) \ ToSet(c.inputs1) : ApartFrom(g, E)
    BY <2>1, <2>4, <1>7, <1>13 DEF JobApart
  <2>6. ASSUME L = c.level + 1 PROVE ApartFrom(f, E)
    <3>1. ~job[1].manual
      <4>1. L > job[1].level
        BY <2>2, <2>3, <2>6
      <4>2. ~(undercut \/ (job # <<>> /\ job[1].manual /\ L > job[1].level))
        BY Zenon, <1>5
      <4> QED
        BY Zenon, <4>1, <4>2, <1>13
    <3>2. PICK C, V, W : /\ C = ToSet(c.inputs0) \cup ToSet(c.inputs1)
                         /\ V = ToSet(v[c.level]) /\ W = ToSet(v[c.level + 1])
      OBVIOUS
    <3>3. Connected(C)
      BY <3>1, <3>2, <2>1, <1>13 DEF DisjointInv, JobConnected
    <3>4. C \subseteq V \cup W
      BY <3>2, <2>2, SeqFiles DEF InputsOK
    <3>5. \A g \in V \cup W : FileIs(g, H) /\ KeysApart(f, g)
      <4>1. c.level \in 0..L /\ c.level + 1 \in 0..L /\ L > 0
        BY <2>3, <2>6
      <4>2. \A g \in V \cup W : KeysApart(f, g)
        BY <4>1, <3>2, <1>9
      <4>3. \A g \in V \cup W : FileIs(g, H)
        BY <3>2, <2>3, <1>2 DEF VersionOK, FilesAre
      <4> QED
        BY <4>2, <4>3
    <3>6. ApartFrom(f, UNION {g.entries : g \in C})
      BY <3>3, <3>4, <3>5, <1>2, <1>3, ApartFromConnected
    <3>7. ToSet(c.inputs0 \o c.inputs1) = C
      <4>1. c.inputs0 \in Seq(V \cup W) /\ c.inputs1 \in Seq(V \cup W)
        BY <3>2, <2>2 DEF InputsOK
      <4> QED
        BY <4>1, <3>2, ConcatFiles
    <3> QED
      BY <3>6, <3>7, <2>4 DEF EntriesOf
  <2>7. \A g \in ToSet(levels'[c.level + 1]) \ ToSet(c.inputs1) : ApartFrom(g, E)
    BY <2>3, <2>5, <2>6, <1>10
  <2>8. JobApart(levels', c)
    BY <2>4, <2>7 DEF JobApart
  <2> QED
    BY <2>1, <2>8
<1> QED
  BY <1>12, <1>13

\* The outputs of a compaction follow one another.
LEMMA ResultsSeparate ==
  ASSUME NEW H, EntriesOK(H), NEW c, NEW E \in SUBSET H, E = EntriesOf(c.inputs0 \o c.inputs1),
         NEW N \in Nat, 1 <= N
  PROVE  /\ \A a \in ResultFiles(c, N) : /\ a.level = c.level + 1 /\ FileIs(a.file, H)
                                         /\ a.file.entries \subseteq E
         /\ \A a, x \in ResultFiles(c, N) : a.file = x.file \/ Separate(a.file, x.file)
         /\ Held(DoCompactionWork(c), {}) = UNION {a.file.entries : a \in ResultFiles(c, N)}
<1>1. PICK outputs : outputs = DoCompactionWork(c)
  OBVIOUS
<1>2. outputs \in Seq(Tables(E)) /\ InSteps(outputs, {})
  BY <1>1, CompactionOutputs
<1>3. PICK n \in Nat : n = Len(outputs) /\ DOMAIN outputs = 1..n /\ \A i \in 1..n : outputs[i] \in Tables(E)
  BY <1>2, LenProperties, ElementOfSeq
<1> DEFINE File(i) == FileMetaData(N + i - 1, outputs[i])
<1>4. ASSUME NEW i \in 1..n PROVE FileIs(File(i), H) /\ File(i).entries = outputs[i] /\ outputs[i] \subseteq E
  <2>1. outputs[i] \in SUBSET H /\ outputs[i] # {} /\ outputs[i] \subseteq E /\ N + i - 1 \in Nat
    BY <1>3 DEF Tables
  <2> QED
    BY <2>1, TableIsFile
<1> HIDE DEF File
<1>5. ResultFiles(c, N) = {[level |-> c.level + 1, file |-> File(i)] : i \in 1..n}
  BY <1>1, <1>3 DEF ResultFiles, File
<1>6. \A a \in ResultFiles(c, N) : \E i \in 1..n : a.level = c.level + 1 /\ a.file = File(i)
  BY <1>5
<1>7. ASSUME NEW i \in 1..n, NEW j \in 1..n, i < j PROVE Before(File(i).largest, File(j).smallest)
  <2>1. AllBefore(outputs[i], outputs[j])
    BY <1>2, <1>3, <1>7 DEF InSteps
  <2>2. File(i).largest \in outputs[i] /\ File(j).smallest \in outputs[j]
    BY <1>4 DEF FileIs
  <2> QED
    BY <2>1, <2>2 DEF AllBefore
<1>8. \A a \in ResultFiles(c, N) : a.level = c.level + 1 /\ FileIs(a.file, H) /\ a.file.entries \subseteq E
  BY <1>4, <1>6
<1>9. ASSUME NEW a \in ResultFiles(c, N), NEW x \in ResultFiles(c, N)
      PROVE  a.file = x.file \/ Separate(a.file, x.file)
  <2>1. PICK i \in 1..n : a.file = File(i)
    BY <1>6
  <2>2. PICK j \in 1..n : x.file = File(j)
    BY <1>6
  <2>3. i = j \/ i < j \/ j < i
    OBVIOUS
  <2> QED
    BY <2>1, <2>2, <2>3, <1>7 DEF Separate
<1>10. Held(outputs, {}) = UNION {a.file.entries : a \in ResultFiles(c, N)}
  <2>1. Held(outputs, {}) = UNION {outputs[i] : i \in 1..n}
    BY <1>3 DEF Held
  <2>2. \A a \in ResultFiles(c, N) : \E i \in 1..n : a.file.entries = outputs[i]
    BY <1>4, <1>6
  <2>3. \A i \in 1..n : \E a \in ResultFiles(c, N) : a.file.entries = outputs[i]
    <3> SUFFICES ASSUME NEW i \in 1..n PROVE \E a \in ResultFiles(c, N) : a.file.entries = outputs[i]
      OBVIOUS
    <3>1. [level |-> c.level + 1, file |-> File(i)] \in ResultFiles(c, N)
      BY <1>5
    <3>2. [level |-> c.level + 1, file |-> File(i)].file = File(i)
      OBVIOUS
    <3> QED
      BY <3>1, <3>2, <1>4
  <2> QED
    BY <2>1, <2>2, <2>3
<1> QED
  BY <1>1, <1>8, <1>9, <1>10

\* InstallCompactionResults: the outputs take the place of the inputs.
LEMMA FinishCompactionDisjoint ==
  ASSUME CompactionInv, DisjointInv, FinishCompaction
  PROVE  DisjointInv'
<1>1. job # <<>> /\ job' = <<>> /\ undercut' = undercut
  BY DEF FinishCompaction
<1>2. JobConnected'
  BY <1>1 DEF JobConnected
<1> SUFFICES ASSUME ~undercut PROVE DisjointOK(levels)'
  BY <1>1, <1>2 DEF DisjointInv
<1>3. PICK c, H, N, v : c = job[1].c /\ H = history /\ N = next_file /\ v = levels
  OBVIOUS
<1>4. DisjointOK(v) /\ JobApart(v, c)
  BY <1>1, <1>3 DEF DisjointInv
<1>5. EntriesOK(H) /\ VersionOK(v, H) /\ InputsOK(v, c) /\ N \in Nat /\ 1 <= N
  BY <1>1, <1>3, CurrentVersion, FileAssumption DEF CompactionInv, FilesOK, JobOK
<1>6. PICK D, A : D = InputDeletions(c) /\ A = ResultFiles(c, N)
  OBVIOUS
<1>7. Installs(D, A)
  BY <1>3, <1>6, FinishCompactionInv
<1>8. PICK E : E = EntriesOf(c.inputs0 \o c.inputs1)
  OBVIOUS
<1>9. c.level \in Level /\ c.level + 1 \in Level
  BY <1>5, DeletedInputs
<1>10. E \in SUBSET H
  <2>1. PICK W, both : W = ToSet(v[c.level]) \cup ToSet(v[c.level + 1]) /\ both = c.inputs0 \o c.inputs1
    OBVIOUS
  <2>2. c.inputs0 \in Seq(W) /\ c.inputs1 \in Seq(W)
    BY <2>1, <1>5 DEF InputsOK
  <2>3. both \in Seq(W)
    BY <2>1, <2>2, ConcatFiles
  <2>4. \A f \in W : FileIs(f, H)
    BY <2>1, <1>5, <1>9 DEF VersionOK, FilesAre
  <2>5. \A f \in ToSet(both) : FileIs(f, H)
    BY <2>3, <2>4, SeqFiles
  <2> QED
    BY <2>1, <2>5, <1>5, <1>8, FileSizes
<1>11. /\ \A a \in A : a.level = c.level + 1 /\ FileIs(a.file, H) /\ a.file.entries \subseteq E
       /\ \A a, x \in A : a.file = x.file \/ Separate(a.file, x.file)
  BY <1>5, <1>6, <1>8, <1>10, ResultsSeparate
<1>12. ASSUME NEW f \in ToSet(v[c.level + 1]), ~\E d \in D : d.level = c.level + 1 /\ d.number = f.number
       PROVE  ApartFrom(f, E)
  <2>1. f \notin ToSet(c.inputs1)
    <3>1. f \in ToSet(c.inputs1) => [level |-> c.level + 1, number |-> f.number] \in D
      BY <1>6 DEF InputDeletions
    <3> QED
      BY <3>1, <1>12
  <2> QED
    BY <2>1, <1>4, <1>8 DEF JobApart
<1>13. ASSUME NEW l \in Level, NEW f \in ToSet(levels'[l])
       PROVE  \/ f \in ToSet(v[l]) /\ (l = c.level + 1 => ApartFrom(f, E))
              \/ l = c.level + 1 /\ \E a \in A : a.file = f
  <2>1. \/ f \in ToSet(v[l]) /\ ~\E d \in D : d.level = l /\ d.number = f.number
        \/ \E a \in A : a.level = l /\ a.file = f
    BY <1>3, <1>7 DEF Installs
  <2> QED
    BY <2>1, <1>11, <1>12
<1>14. \A f : ApartFrom(f, E) => \A a \in A : Separate(f, a.file) /\ Separate(a.file, f)
  BY <1>11, ApartSeparate
<1>15. ASSUME NEW l \in Level \ {0}, NEW f \in ToSet(levels'[l]), NEW g \in ToSet(levels'[l])
       PROVE  f = g \/ Separate(f, g)
  <2>1. CASE f \in ToSet(v[l]) /\ g \in ToSet(v[l])
    BY <2>1, <1>4 DEF DisjointOK
  <2>2. CASE l = c.level + 1 /\ (\E a \in A : a.file = f) /\ (\E a \in A : a.file = g)
    BY <2>2, <1>11
  <2>3. CASE l = c.level + 1 /\ ApartFrom(f, E) /\ (\E a \in A : a.file = g)
    BY <2>3, <1>14
  <2>4. CASE l = c.level + 1 /\ ApartFrom(g, E) /\ (\E a \in A : a.file = f)
    BY <2>4, <1>14
  <2> QED
    BY <1>13, <2>1, <2>2, <2>3, <2>4
<1> QED
  BY <1>15 DEF DisjointOK

\* A restart writes to level 0 alone.
LEMMA ReopenDisjoint ==
  ASSUME CompactionInv, DisjointInv, Reopen
  PROVE  DisjointInv'
<1>1. \A l \in Level \ {0} : ToSet(levels'[l]) = ToSet(levels[l])
  BY ReopenInv
<1>2. job' = <<>> /\ undercut' = undercut
  BY DEF Reopen
<1>3. DisjointOK(levels) => DisjointOK(levels)'
  BY <1>1 DEF DisjointOK
<1> QED
  BY <1>2, <1>3 DEF DisjointInv, JobConnected

\* Tables are added and replaced only where they fit: no flush, move, compaction
\* or restart makes files of a level below level 0 overlap, unless a table was
\* put below a manual compaction.
THEOREM LevelsFit == CompactionSpec => []DisjointInv
<1>1. CompactionInv /\ DisjointInv /\ [CompactionNext]_compactionVars => DisjointInv'
  <2> SUFFICES ASSUME CompactionInv, DisjointInv, [CompactionNext]_compactionVars PROVE DisjointInv'
    OBVIOUS
  <2>1. CASE UNCHANGED compactionVars
    BY <2>1, LevelsUntouched DEF compactionVars
  <2>2. CASE WriteEntry
    BY <2>2, LevelsUntouched DEF WriteEntry
  <2>3. CASE GetSnapshot
    BY <2>3, LevelsUntouched DEF GetSnapshot
  <2>4. CASE ReleaseSnapshot
    BY <2>4, LevelsUntouched DEF ReleaseSnapshot
  <2>5. CASE GetKey
    BY <2>5, LevelsUntouched DEF GetKey, UpdateStats
  <2>6. CASE RecordReadSample
    BY <2>6, LevelsUntouched DEF RecordReadSample, UpdateStats
  <2> QED
    BY <2>1, <2>2, <2>3, <2>4, <2>5, <2>6, CompactMemTableDisjoint, PickCompactionDisjoint,
       CompactRangeDisjoint, FinishCompactionDisjoint, ReopenDisjoint DEF CompactionNext
<1> QED
  BY DisjointInit, <1>1, LevelsInv, PTL DEF CompactionSpec

\* The files of a level below level 0 are sorted and disjoint, as MaybeAddFile
\* asserts, also when a memtable is written to a table during a compaction,
\* unless that compaction is a manual one.
THEOREM LevelsSorted == CompactionSpec => []LevelsDisjoint
<1>1. CompactionInv /\ DisjointInv /\ CompactionTypeOK => LevelsDisjoint
  <2> SUFFICES ASSUME CompactionInv, DisjointInv, ~undercut,
                      NEW l \in Level \ {0}, NEW i \in 1..(Len(levels[l]) - 1)
               PROVE  Before(levels[l][i].largest, levels[l][i + 1].smallest)
    BY DEF LevelsDisjoint
  <2>1. PICK S, q : S = ToSet(levels[l]) /\ q = levels[l]
    OBVIOUS
  <2>2. EntriesOK(history) /\ FilesAre(S, history) /\ q = FileOrder(S) /\ q \in Seq(S)
    BY <2>1, CurrentVersion DEF VersionOK
  <2>3. \A f, g \in S : f = g \/ Separate(f, g)
    BY <2>1 DEF DisjointInv, DisjointOK
  <2>4. \A j, k \in 1..Len(q) : j < k => Before(q[j].largest, q[k].smallest)
    BY <2>2, <2>3, DisjointInOrder
  <2>5. Len(q) \in Nat
    BY <2>2, LenProperties
  <2>6. i \in 1..Len(q) /\ i + 1 \in 1..Len(q) /\ i < i + 1
    BY <2>1, <2>5
  <2> QED
    BY <2>1, <2>4, <2>6
<1> QED
  BY LevelsInv, LevelsFit, LevelsTypes, <1>1, PTL

-----------------------------------------------------------------------------
(* Reads see the newest entries. *)

\* Entries of a user key not in S are newer in E than in F; E and F have only
\* user keys of S in common.
Newer(E, F, S) == \A x \in E, y \in F : x.key = y.key /\ x.key \notin S => x.seq > y.seq
Common(E, F, S) == \A x \in E, y \in F : x.key = y.key => x.key \in S

\* At most one file of a level below level 0 holds a user key that is not in S.
OneFile(v, S) ==
  \A l \in Level \ {0} : \A f, g \in ToSet(v[l]) : f = g \/ Common(f.entries, g.entries, S)

\* Two files of a sorted level that hold a user key share it at the bounds of
\* the first and of its successor.
LEMMA KeysInOneFile ==
  ASSUME NEW H, EntriesOK(H), NEW v, VersionOK(v, H), \A l \in Level : v[l] = FileOrder(ToSet(v[l])),
         DisjointOK(v), NEW S, SharedKeys(v) \subseteq S,
         NEW l \in Level \ {0}, NEW f \in ToSet(v[l]), NEW g \in ToSet(v[l]),
         NEW x \in f.entries, NEW y \in g.entries, x.key = y.key, x.key \notin S
  PROVE  f = g
<1>1. PICK q, F : q = v[l] /\ F = ToSet(v[l])
  OBVIOUS
<1>2. FilesAre(F, H) /\ q = FileOrder(F)
  BY <1>1 DEF VersionOK
<1>3. /\ DOMAIN q = 1..Len(q) /\ Len(q) \in Nat /\ ToSet(q) = F /\ \A i \in 1..Len(q) : q[i] \in F
  <2>1. q \in Seq(F) /\ DOMAIN q = 1..Len(q) /\ ToSet(q) = F /\ \A i \in 1..Len(q) : q[i] \in F
    BY <1>2, FilesInOrder
  <2> QED
    BY <2>1, LenProperties
<1>4. \A a \in F : FileIs(a, H) /\ a.smallest.key \in Nat /\ a.largest.key \in Nat /\ a.smallest.key <= a.largest.key
  BY <1>2, FileKeys DEF FilesAre
<1>5. \A i, j \in 1..Len(q) : i < j => Before(q[i].largest, q[j].smallest)
  <2>1. \A a, b \in F : a = b \/ Separate(a, b)
    BY <1>1 DEF DisjointOK
  <2> QED
    BY <2>1, <1>2, DisjointInOrder
<1>6. ASSUME NEW i \in 1..Len(q), NEW j \in 1..Len(q), i < j,
             NEW a \in q[i].entries, NEW b \in q[j].entries, a.key = b.key
      PROVE  a.key \in SharedKeys(v)
  <2>1. PICK k, d, e, h : k = a.key /\ d = q[i] /\ e = q[i + 1] /\ h = q[j]
    OBVIOUS
  <2>2. i + 1 \in 1..Len(q) /\ i < i + 1 /\ i \in 1..(Len(q) - 1) /\ (i + 1 = j \/ i + 1 < j)
    BY <1>3, <1>6
  <2>3. d \in F /\ e \in F /\ h \in F
    BY <2>1, <2>2, <1>3
  <2>4. k \in Key /\ k \in Nat /\ k <= d.largest.key /\ h.smallest.key <= k
    <3>1. a \in H /\ k \in Nat /\ k <= d.largest.key
      BY <2>1, <2>3, <1>4, <1>6, FileKeys
    <3>2. h.smallest.key <= k
      BY <2>1, <2>3, <1>4, <1>6, FileKeys
    <3>3. k \in Key
      BY <3>1, <2>1, EntryOrder
    <3> QED
      BY <3>1, <3>2, <3>3
  <2>5. d.largest.key <= e.smallest.key
    BY <2>1, <2>2, <2>3, <1>4, <1>5 DEF Before
  <2>6. e.smallest.key <= h.smallest.key
    <3>1. CASE i + 1 = j
      BY <3>1, <2>1, <2>3, <1>4
    <3>2. CASE i + 1 < j
      <4>1. e.largest.key <= h.smallest.key
        BY <3>2, <2>1, <2>2, <2>3, <1>4, <1>5 DEF Before
      <4> QED
        BY <4>1, <2>3, <1>4
    <3> QED
      BY <3>1, <3>2, <2>2
  <2>7. d.largest.key = k /\ e.smallest.key = k
    BY <2>3, <2>4, <2>5, <2>6, <1>4
  <2>8. v[l][i].largest.key = k /\ v[l][i + 1].smallest.key = k /\ i \in 1..(Len(v[l]) - 1)
    BY <2>1, <2>2, <2>7, <1>1
  <2> QED
    BY <2>1, <2>4, <2>8 DEF SharedKeys
<1>7. PICK i \in 1..Len(q) : q[i] = f
  BY <1>1, <1>3 DEF ToSet
<1>8. PICK j \in 1..Len(q) : q[j] = g
  BY <1>1, <1>3 DEF ToSet
<1>9. ~(i < j) /\ ~(j < i)
  BY <1>6, <1>7, <1>8
<1>10. i = j
  BY <1>9
<1> QED
  BY <1>7, <1>8, <1>10

LEMMA LevelsHoldOnce ==
  ASSUME NEW H, EntriesOK(H), NEW v, VersionOK(v, H), \A l \in Level : v[l] = FileOrder(ToSet(v[l])),
         DisjointOK(v), NEW S, SharedKeys(v) \subseteq S
  PROVE  OneFile(v, S)
<1> SUFFICES ASSUME NEW l \in Level \ {0}, NEW f \in ToSet(v[l]), NEW g \in ToSet(v[l]), f # g,
                    NEW x \in f.entries, NEW y \in g.entries, x.key = y.key, x.key \notin S
             PROVE  FALSE
  BY DEF OneFile, Common
<1>1. f = g
  BY KeysInOneFile
<1> QED
  BY <1>1

\* The newer entries of a user key are on the levels above, in level 0 in the
\* files with the larger numbers, and in the memtable before all.
LevelOrder(v, S) ==
  \A l, m \in Level : l < m =>
    \A f \in ToSet(v[l]), g \in ToSet(v[m]) : Newer(f.entries, g.entries, S)
Level0Order(v) ==
  \A f, g \in ToSet(v[0]) : f.number < g.number => \A x \in f.entries, y \in g.entries : x.seq < y.seq
MemNewer(M, v) ==
  \A l \in Level : \A f \in ToSet(v[l]) : \A x \in M, y \in f.entries : x.seq > y.seq

\* For the compaction c under way: files of its level that it does not read
\* hold nothing older; files of the next level that it does not read, and files
\* that were put below since it started, have no user key of its inputs.
Job0(v, c) ==
  c.level = 0 => \A f \in ToSet(v[0]) \ ToSet(c.inputs0), g \in ToSet(c.inputs0) : Newer(f.entries, g.entries, {})
JobNext(v, c) ==
  \A f \in ToSet(v[c.level + 1]) \ ToSet(c.inputs1), g \in ToSet(c.inputs0) : Common(f.entries, g.entries, {})
JobDeeper(v, c) ==
  \A m \in Level : m >= c.level + 2 =>
    \A f \in ToSet(v[m]) \ c.deeper, g \in ToSet(c.inputs0) \cup ToSet(c.inputs1) : Common(f.entries, g.entries, {})

\* No read point is before the smallest snapshot of the compaction.
JobSnapshot(c, R) == c.smallest_snapshot \in 0..MaxSeq /\ \A s \in R : c.smallest_snapshot <= s

\* e is what a read at s has to find.
NewestAt(H, s, e) == e.seq <= s /\ \A x \in H : x.key = e.key /\ x.seq <= s => x.seq <= e.seq

\* Of the entries H, those stored in E show each read point in R the newest
\* entry; it may be missing when it is a deletion marker that hides nothing.
NewestSeen(E, H, R, S) ==
  \A s \in R, e \in H : e.key \notin S /\ NewestAt(H, s, e) =>
    e \in E \/ (e.type = "deletion" /\ \A x \in E : x.key = e.key => x.seq > s)

OrderInv ==
  /\ SharedKeys(levels) \subseteq split /\ MemNewer(memtable, levels) /\ Level0Order(levels)
  /\ job # <<>> => Job0(levels, job[1].c) /\ JobSnapshot(job[1].c, ReadPoints)

\* Unless a table was put below a manual compaction, nothing is found before
\* something newer, and nothing that a read point needs is lost.
NewestInv ==
  undercut \/ /\ LevelOrder(levels, split)
              /\ NewestSeen(memtable \cup AllEntries(levels), history, ReadPoints, split)
              /\ job # <<>> => JobNext(levels, job[1].c) /\ JobDeeper(levels, job[1].c)

\* The entries of the files.
LEMMA StoredEntries ==
  ASSUME NEW v, NEW x
  PROVE  x \in AllEntries(v) <=> \E l \in Level : \E f \in ToSet(v[l]) : x \in f.entries
BY DEF AllEntries, FilesOf

\* Files without a common user key hold no common user key.
LEMMA ApartCommon ==
  ASSUME NEW H, EntriesOK(H), NEW f, FileIs(f, H), NEW g, FileIs(g, H), KeysApart(f, g)
  PROVE  Common(f.entries, g.entries, {}) /\ Common(g.entries, f.entries, {})
<1>1. \A h \in {f, g} : /\ h.smallest.key \in Nat /\ h.largest.key \in Nat
                        /\ \A e \in h.entries : /\ e.key \in Nat
                                                /\ h.smallest.key <= e.key /\ e.key <= h.largest.key
  BY FileKeys
<1> QED
  BY <1>1 DEF KeysApart, Common

\* f is put on level L of v.
Adds(v, w, L, f) == \A l \in Level : \A g : g \in ToSet(w[l]) <=> g \in ToSet(v[l]) \/ (l = L /\ g = f)

\* A table is made from the memtable: it is newer than all the other files.
LEMMA TableEntries ==
  ASSUME NEW v, NEW w, NEW f, NEW L \in Level, Adds(v, w, L, f)
  PROVE  AllEntries(w) = f.entries \cup AllEntries(v)
<1>1. \A x : x \in AllEntries(w) <=> x \in f.entries \cup AllEntries(v)
  BY StoredEntries DEF Adds
<1> QED
  BY <1>1

LEMMA TableNewer ==
  ASSUME NEW H, EntriesOK(H), NEW v, VersionOK(v, H), NEW w, NEW f, FileIs(f, H), NEW L \in Level,
         Adds(v, w, L, f), MemNewer(f.entries, v),
         NEW l \in Level, NEW g \in ToSet(v[l]), NEW x \in f.entries, NEW y \in g.entries
  PROVE  x.seq > y.seq /\ y.seq < x.seq
<1>1. x.seq > y.seq
  BY DEF MemNewer
<1>2. x \in H /\ y \in H
  BY DEF VersionOK, FilesAre, FileIs
<1> QED
  BY <1>1, <1>2, EntryOrder

LEMMA TableAdded ==
  ASSUME NEW H, EntriesOK(H), NEW v, VersionOK(v, H), NEW w, NEW f, FileIs(f, H), NEW L \in Level,
         Adds(v, w, L, f), MemNewer(f.entries, v),
         Level0Order(v), \A g \in ToSet(v[0]) : g.number < f.number
  PROVE  Level0Order(w)
<1>1. 0 \in Level /\ Level \subseteq Nat
  BY VersionAssumption DEF Level
<1>2. \A l \in Level : \A g \in ToSet(v[l]) : FileIs(g, H) /\ g.number \in Nat
  BY DEF VersionOK, FilesAre, FileIs
<1>3. \A g \in ToSet(v[0]), x \in f.entries : \A y \in g.entries : y.seq < x.seq
  BY <1>1, TableNewer
<1> SUFFICES ASSUME NEW g \in ToSet(w[0]), NEW h \in ToSet(w[0]), g.number < h.number,
                    NEW x \in g.entries, NEW y \in h.entries
             PROVE  x.seq < y.seq
  BY DEF Level0Order
<1>4. (g \in ToSet(v[0]) \/ g = f) /\ (h \in ToSet(v[0]) \/ h = f)
  BY <1>1 DEF Adds
<1>5. g # f
  <2>1. f.number \in Nat
    BY DEF FileIs
  <2>2. h = f \/ (h.number < f.number /\ h.number \in Nat)
    BY <1>1, <1>2, <1>4
  <2> QED
    BY <2>1, <2>2
<1>6. CASE h \in ToSet(v[0])
  BY <1>4, <1>5, <1>6 DEF Level0Order
<1>7. CASE h = f
  BY <1>3, <1>4, <1>5, <1>7
<1> QED
  BY <1>4, <1>6, <1>7

LEMMA TableOrder ==
  ASSUME NEW H, EntriesOK(H), NEW v, VersionOK(v, H), NEW w, NEW f, FileIs(f, H), NEW L \in Level,
         Adds(v, w, L, f), MemNewer(f.entries, v),
         NEW S, LevelOrder(v, S), NEW T, S \subseteq T,
         L > 0 => \A m \in 0..L : \A g \in ToSet(v[m]) : KeysApart(f, g)
  PROVE  LevelOrder(w, T)
<1> SUFFICES ASSUME NEW l \in Level, NEW m \in Level, l < m, NEW g \in ToSet(w[l]), NEW h \in ToSet(w[m]),
                    NEW x \in g.entries, NEW y \in h.entries, x.key = y.key, x.key \notin T
             PROVE  x.seq > y.seq
  BY DEF LevelOrder, Newer
<1>1. (g \in ToSet(v[l]) \/ (l = L /\ g = f)) /\ (h \in ToSet(v[m]) \/ (m = L /\ h = f))
  BY DEF Adds
<1>2. \A n \in Level : n \in Nat
  BY VersionAssumption DEF Level
<1>3. CASE g \in ToSet(v[l]) /\ h \in ToSet(v[m])
  <2>1. Newer(g.entries, h.entries, S)
    BY <1>3 DEF LevelOrder
  <2> QED
    BY <2>1 DEF Newer
<1>4. CASE g = f /\ h \in ToSet(v[m])
  BY <1>4, TableNewer
<1>5. CASE g \in ToSet(v[l]) /\ h = f /\ m = L
  <2>1. L > 0 /\ l \in 0..L
    BY <1>2, <1>5
  <2>2. KeysApart(f, g) /\ FileIs(g, H)
    BY <2>1, <1>5 DEF VersionOK, FilesAre
  <2>3. Common(g.entries, f.entries, {})
    BY <2>2, ApartCommon
  <2> QED
    BY <2>3, <1>5 DEF Common
<1>6. CASE g = f /\ h = f /\ l = L /\ m = L
  BY <1>2, <1>6
<1> QED
  BY <1>1, <1>3, <1>4, <1>5, <1>6

\* The compaction c under way when a table is put on level L.
LEMMA JobWithTable ==
  ASSUME NEW H, EntriesOK(H), NEW v, VersionOK(v, H), NEW w, NEW f, FileIs(f, H), NEW L \in Level,
         Adds(v, w, L, f), MemNewer(f.entries, v), NEW c, InputsOK(v, c)
  PROVE  /\ Job0(v, c) => Job0(w, c)
         /\ JobNext(v, c) /\ JobDeeper(v, c)
              /\ (L > 0 => \A m \in 0..L : \A g \in ToSet(v[m]) : KeysApart(f, g))
              => JobNext(w, c) /\ JobDeeper(w, c)
<1>1. /\ 0 \in Level /\ c.level \in Level /\ c.level + 1 \in Level /\ c.level \in Nat
      /\ Level \subseteq Nat
  BY VersionAssumption DEF Level, InputsOK
<1>2. ToSet(c.inputs0) \subseteq ToSet(v[c.level]) /\ ToSet(c.inputs1) \subseteq ToSet(v[c.level + 1])
  BY SeqFiles DEF InputsOK
<1>3. \A l \in Level : \A g \in ToSet(v[l]) : FileIs(g, H)
  BY DEF VersionOK, FilesAre
<1>4. ASSUME Job0(v, c), c.level = 0, NEW g \in ToSet(w[0]) \ ToSet(c.inputs0), NEW h \in ToSet(c.inputs0)
      PROVE  Newer(g.entries, h.entries, {})
  <2>1. g \in ToSet(v[0]) \/ g = f
    BY <1>1 DEF Adds
  <2>2. CASE g \in ToSet(v[0])
    BY <2>2, <1>4 DEF Job0
  <2>3. CASE g = f
    <3>1. h \in ToSet(v[0])
      BY <1>2, <1>4
    <3> QED
      BY <3>1, <2>3, <1>1 DEF MemNewer, Newer
  <2> QED
    BY <2>1, <2>2, <2>3
<1>5. ASSUME L > 0 => \A m \in 0..L : \A g \in ToSet(v[m]) : KeysApart(f, g),
             NEW m \in Level, m < L, NEW g \in ToSet(v[m])
      PROVE  Common(f.entries, g.entries, {})
  <2>1. L > 0 /\ m \in 0..L
    BY <1>1, <1>5
  <2>2. KeysApart(f, g)
    BY <2>1, <1>5
  <2> QED
    BY <2>2, <1>3, ApartCommon
<1>6. ASSUME JobNext(v, c), L > 0 => \A m \in 0..L : \A g \in ToSet(v[m]) : KeysApart(f, g),
             NEW g \in ToSet(w[c.level + 1]) \ ToSet(c.inputs1), NEW h \in ToSet(c.inputs0)
      PROVE  Common(g.entries, h.entries, {})
  <2>1. g \in ToSet(v[c.level + 1]) \/ (g = f /\ L = c.level + 1)
    BY <1>1 DEF Adds
  <2>2. CASE g \in ToSet(v[c.level + 1])
    BY <2>2, <1>6 DEF JobNext
  <2>3. CASE g = f /\ L = c.level + 1
    <3>1. c.level < L /\ h \in ToSet(v[c.level])
      BY <2>3, <1>1, <1>2
    <3> QED
      BY <3>1, <2>3, <1>1, <1>5, <1>6
  <2> QED
    BY <2>1, <2>2, <2>3
<1>7. ASSUME JobDeeper(v, c), L > 0 => \A m \in 0..L : \A g \in ToSet(v[m]) : KeysApart(f, g),
             NEW m \in Level, m >= c.level + 2,
             NEW g \in ToSet(w[m]) \ c.deeper, NEW h \in ToSet(c.inputs0) \cup ToSet(c.inputs1)
      PROVE  Common(g.entries, h.entries, {})
  <2>1. g \in ToSet(v[m]) \/ (g = f /\ L = m)
    BY DEF Adds
  <2>2. CASE g \in ToSet(v[m])
    BY <2>2, <1>7 DEF JobDeeper
  <2>3. CASE g = f /\ L = m
    <3>1. c.level < L /\ c.level + 1 < L
      BY <2>3, <1>1, <1>7
    <3>2. h \in ToSet(v[c.level]) \/ h \in ToSet(v[c.level + 1])
      BY <1>2
    <3> QED
      BY <3>1, <3>2, <2>3, <1>1, <1>5, <1>7
  <2> QED
    BY <2>1, <2>2, <2>3
<1>8. Job0(v, c) => Job0(w, c)
  BY <1>4 DEF Job0
<1> QED
  BY <1>6, <1>7, <1>8 DEF JobNext, JobDeeper

\* The files R take the place of the inputs of c, on the next level.
Replaces(v, w, c, R) ==
  /\ \A l \in Level : \A g \in ToSet(w[l]) :
       \/ /\ g \in ToSet(v[l]) /\ (l = c.level => g \notin ToSet(c.inputs0))
          /\ l = c.level + 1 => g \notin ToSet(c.inputs1)
       \/ l = c.level + 1 /\ g \in R
  /\ \A l \in Level : \A g \in ToSet(v[l]) :
       \/ g \in ToSet(w[l])
       \/ l = c.level /\ g \in ToSet(c.inputs0)
       \/ l = c.level + 1 /\ g \in ToSet(c.inputs1)
  /\ R \subseteq ToSet(w[c.level + 1])

Inputs(c) == ToSet(c.inputs0) \cup ToSet(c.inputs1)

\* A file that c does not read holds nothing that is older than an input, on the
\* levels down to that of the input.
LEMMA OtherFiles ==
  ASSUME NEW v, NEW c, InputsOK(v, c), NEW S, LevelOrder(v, S), OneFile(v, S), Job0(v, c),
         NEW l \in Level, l <= c.level, NEW g \in ToSet(v[l]), l = c.level => g \notin ToSet(c.inputs0),
         NEW h \in Inputs(c)
  PROVE  Newer(g.entries, h.entries, S)
<1>1. /\ c.level \in Level /\ c.level + 1 \in Level /\ (\A n \in Level : n \in Nat) /\ c.level \in Nat
      /\ \A x \in ToSet(c.inputs0) : x \in ToSet(v[c.level])
      /\ \A x \in ToSet(c.inputs1) : x \in ToSet(v[c.level + 1])
  BY SeqFiles, VersionAssumption DEF Level, InputsOK
<1>2. CASE h \in ToSet(c.inputs1)
  <2>1. l < c.level + 1
    BY <1>1
  <2> QED
    BY <2>1, <1>1, <1>2 DEF LevelOrder
<1>3. CASE h \in ToSet(c.inputs0) /\ l < c.level
  BY <1>1, <1>3 DEF LevelOrder
<1>4. CASE h \in ToSet(c.inputs0) /\ l = c.level /\ l = 0
  <2>1. Newer(g.entries, h.entries, {})
    BY <1>4 DEF Job0
  <2> QED
    BY <2>1 DEF Newer
<1>5. CASE h \in ToSet(c.inputs0) /\ l = c.level /\ l # 0
  <2>1. g # h /\ l \in Level \ {0} /\ h \in ToSet(v[l])
    BY <1>1, <1>5
  <2>2. Common(g.entries, h.entries, S)
    BY <2>1 DEF OneFile
  <2> QED
    BY <2>2 DEF Common, Newer
<1> QED
  BY <1>1, <1>2, <1>3, <1>4, <1>5 DEF Inputs

LEMMA ResultsEntries ==
  ASSUME NEW v, NEW w, NEW c, InputsOK(v, c), NEW R, Replaces(v, w, c, R),
         \A g \in R : \A x \in g.entries : \E h \in Inputs(c) : x \in h.entries
  PROVE  /\ \A l \in Level : \A g \in ToSet(w[l]) : \A x \in g.entries :
              \E m \in Level : \E h \in ToSet(v[m]) : x \in h.entries
         /\ AllEntries(w) \subseteq AllEntries(v)
<1>1. /\ c.level \in Level /\ c.level + 1 \in Level
      /\ \A x \in ToSet(c.inputs0) : x \in ToSet(v[c.level])
      /\ \A x \in ToSet(c.inputs1) : x \in ToSet(v[c.level + 1])
  BY SeqFiles, VersionAssumption DEF Level, InputsOK
<1>2. ASSUME NEW l \in Level, NEW g \in ToSet(w[l]), NEW x \in g.entries
      PROVE  \E m \in Level : \E h \in ToSet(v[m]) : x \in h.entries
  <2>1. g \in ToSet(v[l]) \/ g \in R
    BY DEF Replaces
  <2>2. CASE g \in R
    <3>1. PICK h \in Inputs(c) : x \in h.entries
      BY <2>2
    <3> QED
      BY <3>1, <1>1 DEF Inputs
  <2> QED
    BY <2>1, <2>2
<1>3. AllEntries(w) \subseteq AllEntries(v)
  <2> SUFFICES ASSUME NEW x \in AllEntries(w) PROVE x \in AllEntries(v)
    OBVIOUS
  <2>1. PICK l \in Level : \E g \in ToSet(w[l]) : x \in g.entries
    BY StoredEntries
  <2> QED
    BY <2>1, <1>2, StoredEntries
<1> QED
  BY <1>2, <1>3

\* Nothing of the outputs of c, or of the file that it moves, is older or newer
\* than what it read.
LEMMA ResultsAbove ==
  ASSUME NEW v, NEW w, NEW c, InputsOK(v, c), NEW R, Replaces(v, w, c, R),
         \A g \in R : \A x \in g.entries : \E h \in Inputs(c) : x \in h.entries,
         NEW M, MemNewer(M, v), Level0Order(v)
  PROVE  MemNewer(M, w) /\ Level0Order(w)
<1>1. 0 \in Level /\ c.level \in Nat
  BY VersionAssumption DEF Level, InputsOK
<1>2. \A l \in Level : \A g \in ToSet(w[l]) : \A x \in g.entries :
        \E m \in Level : \E h \in ToSet(v[m]) : x \in h.entries
  BY ResultsEntries
<1>3. \A g \in ToSet(w[0]) : g \in ToSet(v[0])
  <2>1. 0 # c.level + 1
    BY <1>1
  <2> QED
    BY <2>1, <1>1 DEF Replaces
<1>4. Level0Order(w)
  BY <1>3 DEF Level0Order
<1>5. MemNewer(M, w)
  BY <1>2 DEF MemNewer
<1> QED
  BY <1>4, <1>5

\* They may go to the next level.
LEMMA ResultsOrder ==
  ASSUME NEW H, EntriesOK(H), NEW v, VersionOK(v, H), NEW w, NEW c, InputsOK(v, c),
         NEW R, Replaces(v, w, c, R), \A g \in R : \A x \in g.entries : \E h \in Inputs(c) : x \in h.entries,
         NEW S, LevelOrder(v, S), OneFile(v, S), Job0(v, c), NEW T, S \subseteq T
  PROVE  LevelOrder(w, T)
<1>1. /\ 0 \in Level /\ c.level \in Level /\ c.level + 1 \in Level /\ (\A n \in Level : n \in Nat) /\ c.level \in Nat
      /\ \A x \in ToSet(c.inputs0) : x \in ToSet(v[c.level])
      /\ \A x \in ToSet(c.inputs1) : x \in ToSet(v[c.level + 1])
  BY SeqFiles, VersionAssumption DEF Level, InputsOK
<1> SUFFICES ASSUME NEW l \in Level, NEW m \in Level, l < m, NEW f \in ToSet(w[l]), NEW g \in ToSet(w[m]),
                    NEW x \in f.entries, NEW y \in g.entries, x.key = y.key, x.key \notin S
             PROVE  x.seq > y.seq
  BY DEF LevelOrder, Newer
<1>2. CASE f \in ToSet(v[l]) /\ g \in ToSet(v[m])
  <2>1. Newer(f.entries, g.entries, S)
    BY <1>2 DEF LevelOrder
  <2> QED
    BY <2>1 DEF Newer
<1>3. CASE f \in R /\ l = c.level + 1 /\ g \in ToSet(v[m])
  <2>1. PICK h \in Inputs(c) : x \in h.entries
    BY <1>3
  <2>2. c.level < m /\ c.level + 1 < m
    BY <1>3, <1>1
  <2>3. Newer(h.entries, g.entries, S)
    BY <2>2, <1>3, <1>1 DEF LevelOrder, Inputs
  <2> QED
    BY <2>1, <2>3 DEF Newer
<1>4. CASE g \in R /\ m = c.level + 1
  <2>1. PICK h \in Inputs(c) : y \in h.entries
    BY <1>4
  <2>2. l <= c.level /\ l # c.level + 1
    BY <1>4, <1>1
  <2>3. f \in ToSet(v[l]) /\ (l = c.level => f \notin ToSet(c.inputs0))
    BY <2>2 DEF Replaces
  <2>4. Newer(f.entries, h.entries, S)
    BY <2>2, <2>3, OtherFiles
  <2> QED
    BY <2>1, <2>4 DEF Newer
<1> QED
  BY <1>2, <1>3, <1>4 DEF Replaces

\* What c drops is not needed: it is hidden from every read point, or it is a
\* deletion marker, and nothing older of its user key is left.
LEMMA ResultsNewest ==
  ASSUME NEW H, EntriesOK(H), NEW v, VersionOK(v, H), NEW w, NEW c, InputsOK(v, c),
         NEW R, Replaces(v, w, c, R), NEW E, E = UNION {h.entries : h \in Inputs(c)},
         NEW W, W = UNION {g.entries : g \in R}, Compacted(c, E, W),
         NEW M, MemNewer(M, v), NEW S, LevelOrder(v, S), OneFile(v, S),
         Job0(v, c), JobNext(v, c), JobDeeper(v, c),
         NEW Q, Q \subseteq Nat, JobSnapshot(c, Q), M \subseteq H,
         NewestSeen(M \cup AllEntries(v), H, Q, S), NEW T, S \subseteq T
  PROVE  NewestSeen(M \cup AllEntries(w), H, Q, T)
<1>1. /\ c.level \in Level /\ c.level + 1 \in Level /\ (\A n \in Level : n \in Nat) /\ c.level \in Nat
      /\ \A x \in ToSet(c.inputs0) : x \in ToSet(v[c.level])
      /\ \A x \in ToSet(c.inputs1) : x \in ToSet(v[c.level + 1])
  BY SeqFiles, VersionAssumption DEF Level, InputsOK
<1>2. \A l \in Level : \A g \in ToSet(v[l]) : FileIs(g, H) /\ g.entries \subseteq H
  BY DEF VersionOK, FilesAre, FileIs
<1>3. E \subseteq H
  BY <1>1, <1>2 DEF Inputs
<1>4. \A x \in H : x.seq \in Nat /\ x.key \in Nat
  BY EntryOrder
<1>5. AllEntries(w) \subseteq AllEntries(v) /\ W \subseteq E
  <2>1. W \subseteq E
    BY DEF Compacted
  <2>2. \A g \in R : \A x \in g.entries : \E h \in Inputs(c) : x \in h.entries
    BY <2>1
  <2> QED
    BY <2>1, <2>2, ResultsEntries
<1>6. W \subseteq AllEntries(w)
  BY <1>1, StoredEntries DEF Replaces
<1>7. \A x \in AllEntries(v) : x \in AllEntries(w) \/ x \in E
  <2> SUFFICES ASSUME NEW x \in AllEntries(v), x \notin E PROVE x \in AllEntries(w)
    OBVIOUS
  <2>1. PICK l \in Level : \E g \in ToSet(v[l]) : x \in g.entries
    BY StoredEntries
  <2>2. PICK g \in ToSet(v[l]) : x \in g.entries
    BY <2>1
  <2>3. g \notin Inputs(c)
    BY <2>2
  <2>4. g \in ToSet(w[l])
    BY <2>3 DEF Replaces, Inputs
  <2> QED
    BY <2>2, <2>4, StoredEntries
<1>8. /\ c.smallest_snapshot \in Nat /\ \A s \in Q : s \in Nat /\ c.smallest_snapshot <= s
  <2>1. \A s \in 0..MaxSeq : s \in Nat
    BY VersionAssumption
  <2> QED
    BY <2>1 DEF JobSnapshot
<1> SUFFICES ASSUME NEW s \in Q, NEW e \in H, e.key \notin S, NewestAt(H, s, e),
                    e \notin M \cup AllEntries(w)
             PROVE  e.type = "deletion" /\ \A x \in M \cup AllEntries(w) : x.key = e.key => x.seq > s
  BY DEF NewestSeen
<1>9. CASE e \notin M \cup AllEntries(v)
  <2>1. e.type = "deletion" /\ \A x \in M \cup AllEntries(v) : x.key = e.key => x.seq > s
    BY <1>9 DEF NewestSeen
  <2> QED
    BY <2>1, <1>5
<1>10. CASE e \in M \cup AllEntries(v)
  <2>1. e \in E /\ e \notin W
    BY <1>6, <1>7, <1>10
  <2>2. ~Hidden(c, E, e)
    <3> SUFFICES ASSUME NEW p \in E, p.key = e.key, p.seq > e.seq, p.seq <= c.smallest_snapshot PROVE FALSE
      BY DEF Hidden
    <3>1. p \in H /\ p.seq <= s
      BY <1>3, <1>4, <1>8
    <3>2. p.seq <= e.seq
      BY <3>1 DEF NewestAt
    <3> QED
      BY <3>1, <3>2, <1>4
  <2>3. Obsolete(c, e)
    BY <2>1, <2>2 DEF Compacted
  <2>4. e.type = "deletion" /\ e.seq <= c.smallest_snapshot /\ IsBaseLevelForKey(c, e.key)
    BY <2>3 DEF Obsolete
  <2>5. PICK h \in Inputs(c) : e \in h.entries
    BY <2>1
  <2>6. ASSUME NEW x \in M \cup AllEntries(w), x.key = e.key, ~(x.seq > s) PROVE FALSE
    <3>1. x \in H
      <4>1. \A y \in AllEntries(v) : y \in H
        BY <1>2, StoredEntries
      <4> QED
        BY <4>1, <1>5
    <3>2. x.seq < e.seq
      <4>1. x.seq <= s
        BY <3>1, <2>6, <1>4, <1>8
      <4>2. x.seq <= e.seq
        BY <4>1, <3>1, <2>6 DEF NewestAt
      <4>3. x # e
        OBVIOUS
      <4>4. x.seq # e.seq
        BY <4>3, <3>1 DEF EntriesOK
      <4> QED
        BY <4>2, <4>4, <3>1, <1>4
    <3>3. ~(x.seq > e.seq)
      BY <3>1, <3>2, <1>4
    <3>4. CASE x \in M
      <4>1. \E l \in Level : h \in ToSet(v[l])
        BY <1>1 DEF Inputs
      <4>2. x.seq > e.seq
        BY <4>1, <3>4, <2>5 DEF MemNewer
      <4> QED
        BY <4>2, <3>3
    <3>5. CASE x \in W
      <4>1. ~Hidden(c, E, x)
        BY <3>5 DEF Compacted
      <4>2. e.seq > x.seq
        BY <3>1, <3>2, <1>4
      <4> QED
        BY <4>1, <4>2, <2>1, <2>4, <2>6 DEF Hidden
    <3>6. CASE x \in AllEntries(w) /\ x \notin W
      <4>1. PICK l \in Level : \E g \in ToSet(w[l]) : x \in g.entries
        BY <3>6, StoredEntries
      <4>2. PICK g \in ToSet(w[l]) : x \in g.entries
        BY <4>1
      <4>3. /\ g \in ToSet(v[l]) /\ (l = c.level => g \notin ToSet(c.inputs0))
            /\ l = c.level + 1 => g \notin ToSet(c.inputs1)
        BY <4>2, <3>6 DEF Replaces
      <4>4. CASE l <= c.level
        <5>1. Newer(g.entries, h.entries, S)
          BY <4>3, <4>4, OtherFiles
        <5> QED
          BY <5>1, <4>2, <3>3, <2>5, <2>6 DEF Newer
      <4>5. CASE l = c.level + 1 /\ h \in ToSet(c.inputs0)
        <5>1. Common(g.entries, h.entries, {})
          BY <4>3, <4>5 DEF JobNext
        <5> QED
          BY <5>1, <4>2, <2>5, <2>6 DEF Common
      <4>6. CASE l = c.level + 1 /\ h \in ToSet(c.inputs1)
        <5>1. l \in Level \ {0} /\ h \in ToSet(v[l]) /\ g # h
          BY <4>3, <4>6, <1>1
        <5>2. Common(g.entries, h.entries, S)
          BY <5>1, <4>3 DEF OneFile
        <5> QED
          BY <5>2, <4>2, <2>5, <2>6 DEF Common
      <4>7. CASE l >= c.level + 2
        <5>1. CASE g \in c.deeper
          <6>1. ~(g.smallest.key <= e.key /\ e.key <= g.largest.key)
            BY <5>1, <2>4 DEF IsBaseLevelForKey
          <6>2. g.smallest.key <= x.key /\ x.key <= g.largest.key
            BY <4>2, <4>3, <1>2, FileKeys
          <6> QED
            BY <6>1, <6>2, <2>6
        <5>2. CASE g \notin c.deeper
          <6>1. Common(g.entries, h.entries, {})
            BY <5>2, <4>3, <4>7 DEF JobDeeper, Inputs
          <6> QED
            BY <6>1, <4>2, <2>5, <2>6 DEF Common
        <5> QED
          BY <5>1, <5>2
      <4>8. l \in Nat /\ (l <= c.level \/ l = c.level + 1 \/ l >= c.level + 2)
        BY <1>1
      <4> QED
        BY <4>4, <4>5, <4>6, <4>7, <4>8 DEF Inputs
    <3> QED
      BY <3>4, <3>5, <3>6
  <2> QED
    BY <2>4, <2>6
<1> QED
  BY <1>9, <1>10

LEMMA OrderInit == CompactionInit => OrderInv /\ NewestInv
<1> SUFFICES ASSUME CompactionInit PROVE OrderInv /\ NewestInv
  OBVIOUS
<1>1. \A l \in Level : levels[l] = <<>> /\ Len(levels[l]) = 0
  BY DEF CompactionInit, NoFiles
<1>2. ToSet(<<>>) = {}
  BY DEF ToSet
<1>3. \A l \in Level : ToSet(levels[l]) = {}
  BY <1>1, <1>2
<1>4. SharedKeys(levels) = {}
  <2>1. \A l \in Level \ {0} : {k \in Key : \E i \in 1..(Len(levels[l]) - 1) :
                 levels[l][i].largest.key = k /\ levels[l][i + 1].smallest.key = k} = {}
    <3>1. \A l \in Level : 1..(Len(levels[l]) - 1) = {}
      <4>1. 1..(0 - 1) = {}
        OBVIOUS
      <4> QED
        BY <4>1, <1>1
    <3> QED
      BY <3>1
  <2> QED
    BY <2>1 DEF SharedKeys
<1>5. 0 \in Level /\ memtable = {} /\ history = {} /\ job = <<>>
  BY VersionAssumption DEF CompactionInit, Level
<1>6. OrderInv
  BY <1>3, <1>4, <1>5 DEF OrderInv, MemNewer, Level0Order
<1>7. NewestInv
  BY <1>3, <1>5 DEF NewestInv, LevelOrder, NewestSeen
<1> QED
  BY <1>6, <1>7

\* A write: its entry is newer than all, and in the memtable.
LEMMA WriteEntryOrder ==
  ASSUME CompactionInv, OrderInv, NewestInv, WriteEntry
  PROVE  OrderInv' /\ NewestInv'
<1>1. PICK H, M, A, n, s, v : /\ H = history /\ M = memtable /\ A = AllEntries(levels) /\ s = last_sequence
                              /\ v = levels /\ n.seq = s + 1 /\ n \in Entry
                              /\ history' = H \cup {n} /\ memtable' = M \cup {n}
  <2>1. PICK k \in Key, t \in {"value", "deletion"} :
        /\ memtable' = memtable \cup {[key |-> k, seq |-> last_sequence + 1, type |-> t]}
        /\ history' = history \cup {[key |-> k, seq |-> last_sequence + 1, type |-> t]}
    BY DEF WriteEntry
  <2>2. last_sequence + 1 \in 1..MaxSeq
    BY VersionAssumption DEF WriteEntry, CompactionInv, HistoryOK
  <2>3. PICK n : n = [key |-> k, seq |-> last_sequence + 1, type |-> t]
    OBVIOUS
  <2>4. n \in Entry /\ n.seq = last_sequence + 1
    BY <2>2, <2>3 DEF Entry
  <2> QED
    BY <2>1, <2>3, <2>4
<1>2. /\ s \in Nat /\ s \in 0..MaxSeq /\ last_sequence' = s + 1 /\ snapshots \subseteq 0..s
      /\ UNCHANGED <<levels, snapshots, job, split, undercut>>
  BY <1>1, VersionAssumption DEF WriteEntry, CompactionInv, HistoryOK
<1>3. /\ EntriesOK(H) /\ VersionOK(v, H) /\ M \subseteq H /\ \A e \in H : e.seq <= s /\ e.seq \in Nat
  <2>1. EntriesOK(H) /\ VersionOK(v, H) /\ M \subseteq H /\ \A e \in H : e.seq <= s
    BY <1>1, CurrentVersion DEF CompactionInv, HistoryOK
  <2> QED
    BY <2>1, EntryOrder
<1>4. A \subseteq H
  BY <1>1, <1>3, StoredEntries DEF VersionOK, FilesAre, FileIs
<1>5. PICK Q, K : Q = ReadPoints /\ K = ReadPoints'
  OBVIOUS
<1>6. Q = snapshots \cup {s} /\ K = snapshots \cup {s + 1} /\ \A r \in snapshots : r \in Nat /\ r <= s
  BY <1>1, <1>2, <1>5 DEF ReadPoints
<1>7. MemNewer(M \cup {n}, v)
  <2>1. \A l \in Level : \A f \in ToSet(v[l]) : \A y \in f.entries : n.seq > y.seq
    BY <1>1, <1>2, <1>3 DEF VersionOK, FilesAre, FileIs
  <2>2. MemNewer(M, v)
    BY <1>1 DEF OrderInv
  <2> QED
    BY <2>1, <2>2 DEF MemNewer
<1>8. OrderInv'
  <2>1. ASSUME job # <<>> PROVE JobSnapshot(job[1].c, K)
    <3>1. PICK x : x = job[1].c.smallest_snapshot
      OBVIOUS
    <3>2. x \in 0..MaxSeq /\ \A r \in Q : x <= r
      BY <3>1, <2>1, <1>5 DEF OrderInv, JobSnapshot
    <3>3. x \in Nat /\ x <= s
      BY <3>2, <1>6, VersionAssumption
    <3>4. x <= s + 1
      BY <3>3, <1>2
    <3> QED
      BY <3>1, <3>2, <3>4, <1>6 DEF JobSnapshot
  <2> QED
    BY <2>1, <1>1, <1>2, <1>5, <1>7 DEF OrderInv
<1>9. ASSUME NewestSeen(M \cup A, H, Q, split)
      PROVE  NewestSeen((M \cup {n}) \cup A, H \cup {n}, K, split)
  <2> SUFFICES ASSUME NEW r \in K, NEW e \in H \cup {n}, e.key \notin split, NewestAt(H \cup {n}, r, e),
                      e # n, e \notin M \cup A
               PROVE  e.type = "deletion" /\ \A x \in (M \cup {n}) \cup A : x.key = e.key => x.seq > r
    BY DEF NewestSeen
  <2>1. e \in H /\ e.seq <= s /\ e.seq \in Nat
    BY <1>3
  <2>2. CASE r \in snapshots
    <3>1. NewestAt(H, r, e) /\ r \in Q
      BY <2>2, <1>6 DEF NewestAt
    <3>2. e.type = "deletion" /\ \A x \in M \cup A : x.key = e.key => x.seq > r
      BY <3>1, <2>1, <1>9 DEF NewestSeen
    <3>3. n.seq > r
      BY <2>2, <1>1, <1>2, <1>6
    <3> QED
      BY <3>2, <3>3
  <2>3. CASE r = s + 1
    <3>1. NewestAt(H, s, e) /\ s \in Q
      <4>1. \A x \in H : x.seq <= s + 1
        BY <1>2, <1>3
      <4> QED
        BY <4>1, <2>1, <2>3, <1>6 DEF NewestAt
    <3>2. e.type = "deletion" /\ \A x \in M \cup A : x.key = e.key => x.seq > s
      BY <3>1, <2>1, <1>9 DEF NewestSeen
    <3>3. \A x \in M \cup A : ~(x.seq > s)
      BY <1>2, <1>3, <1>4
    <3>4. n.key # e.key
      <4>1. n.seq <= r /\ ~(n.seq <= e.seq)
        BY <2>1, <2>3, <1>1, <1>2
      <4> QED
        BY <4>1 DEF NewestAt
    <3> QED
      BY <3>2, <3>3, <3>4
  <2> QED
    BY <2>2, <2>3, <1>6
<1>10. NewestInv'
  <2>1. AllEntries(levels') = A
    BY <1>1, <1>2
  <2> QED
    BY <2>1, <1>1, <1>2, <1>5, <1>9 DEF NewestInv
<1> QED
  BY <1>8, <1>10

\* Reads and snapshots: no read point is added.
LEMMA SnapshotsOrder ==
  ASSUME OrderInv, NewestInv, ReadPoints' \subseteq ReadPoints,
         UNCHANGED <<levels, memtable, job, history, split, undercut>>
  PROVE  OrderInv' /\ NewestInv'
<1>1. PICK Q, K : Q = ReadPoints /\ K = ReadPoints' /\ K \subseteq Q
  OBVIOUS
<1>2. OrderInv'
  BY <1>1 DEF OrderInv, JobSnapshot
<1>3. \A E, H, S : NewestSeen(E, H, Q, S) => NewestSeen(E, H, K, S)
  BY <1>1 DEF NewestSeen
<1>4. NewestInv'
  BY <1>1, <1>3 DEF NewestInv
<1> QED
  BY <1>2, <1>4

\* What SetupOtherInputs leaves out.
LEMMA SetupJob ==
  ASSUME CompactionInv, NEW l \in 0..(kNumLevels - 2), NEW inputs0, NEW c, c = SetupOtherInputs(l, inputs0),
         InputsOK(levels, c), c.level = l, c.inputs1 = NextLevelInputs(l, c.inputs0),
         l = 0 => Closed(levels, ToSet(c.inputs0))
  PROVE  Job0(levels, c) /\ JobNext(levels, c) /\ JobDeeper(levels, c) /\ JobSnapshot(c, ReadPoints)
<1>1. PICK H, v : H = history /\ v = levels
  OBVIOUS
<1>2. EntriesOK(H) /\ VersionOK(v, H) /\ InputsOK(v, c)
  BY <1>1, CurrentVersion
<1>3. /\ 0 \in Level /\ l \in Level /\ l + 1 \in Level /\ l + 1 > 0 /\ l \in Nat /\ (\A n \in Level : n \in Nat)
      /\ ToSet(c.inputs0) \subseteq ToSet(v[l]) /\ ToSet(c.inputs1) \subseteq ToSet(v[l + 1])
      /\ ToSet(c.inputs0) # {}
  BY <1>2, SeqFiles, VersionAssumption DEF Level, InputsOK
<1>4. \A m \in Level : \A f \in ToSet(v[m]) : FileIs(f, H)
  BY <1>2 DEF VersionOK, FilesAre
<1>5. Job0(v, c)
  <2> SUFFICES ASSUME l = 0, NEW f \in ToSet(v[0]) \ ToSet(c.inputs0), NEW g \in ToSet(c.inputs0)
               PROVE  Newer(f.entries, g.entries, {})
    BY DEF Job0
  <2>1. KeysApart(f, g)
    BY <1>1 DEF Closed
  <2>2. FileIs(f, H) /\ FileIs(g, H)
    BY <1>3, <1>4
  <2>3. Common(f.entries, g.entries, {})
    BY <2>1, <2>2, <1>2, ApartCommon
  <2> QED
    BY <2>3 DEF Common, Newer
<1>6. JobNext(v, c)
  <2>1. PICK b, e : b = GetRange(c.inputs0).start.key /\ e = GetRange(c.inputs0).limit.key
    OBVIOUS
  <2>2. \A f \in ToSet(c.inputs0) : FileIs(f, H)
    BY <1>3, <1>4
  <2>3. b \in Key /\ e \in Key /\ \A x \in EntriesOf(c.inputs0) : b <= x.key /\ x.key <= e
    BY <2>1, <2>2, <1>2, <1>3, RangeOfFiles
  <2>4. ToSet(c.inputs1) = InRange(v, l + 1, b, e)
    BY <2>1, <2>2, <1>1, <1>2, <1>3, OverlappingFiles DEF NextLevelInputs
  <2> SUFFICES ASSUME NEW f \in ToSet(v[l + 1]) \ ToSet(c.inputs1), NEW g \in ToSet(c.inputs0),
                      NEW x \in f.entries, NEW y \in g.entries, x.key = y.key
               PROVE  FALSE
    BY DEF JobNext, Common
  <2>5. b > f.largest.key \/ e < f.smallest.key
    BY <2>3, <2>4, InRangeMeets
  <2>6. b <= x.key /\ x.key <= e
    BY <2>3 DEF EntriesOf
  <2>7. f.smallest.key <= x.key /\ x.key <= f.largest.key /\ x.key \in Nat
        /\ f.smallest.key \in Nat /\ f.largest.key \in Nat
    BY <1>2, <1>3, <1>4, FileKeys
  <2>8. b \in Nat /\ e \in Nat
    BY <2>3, VersionAssumption DEF Key
  <2> QED
    BY <2>5, <2>6, <2>7, <2>8
<1>7. JobDeeper(v, c)
  <2>1. c.deeper = UNION {ToSet(levels[m]) : m \in (l + 2)..(kNumLevels - 1)}
    BY DEF SetupOtherInputs
  <2>2. \A m \in Level : m >= l + 2 => m \in (l + 2)..(kNumLevels - 1)
    BY VersionAssumption DEF Level
  <2>3. \A m \in Level : m >= l + 2 => ToSet(v[m]) \subseteq c.deeper
    BY <2>1, <2>2, <1>1
  <2> QED
    BY <2>3 DEF JobDeeper
<1>8. JobSnapshot(c, ReadPoints)
  <2>1. c.smallest_snapshot = IF snapshots = {} THEN last_sequence ELSE Min(snapshots)
    BY DEF SetupOtherInputs
  <2>2. PICK P, s, x : P = snapshots /\ s = last_sequence /\ x = c.smallest_snapshot
    OBVIOUS
  <2>3. s \in 0..MaxSeq /\ P \in SUBSET (0..s) /\ s \in Nat
    BY <2>2, VersionAssumption DEF CompactionInv, HistoryOK
  <2>4. x = IF P = {} THEN s ELSE Min(P)
    BY <2>1, <2>2
  <2>5. P # {} => Min(P) \in P /\ \A r \in P : Min(P) <= r
    BY <2>3, MinMax
  <2>6. x \in 0..s /\ \A r \in P : x <= r
    BY <2>3, <2>4, <2>5
  <2>7. x \in 0..MaxSeq /\ \A r \in P \cup {s} : x <= r
    BY <2>3, <2>6, VersionAssumption
  <2> QED
    BY <2>2, <2>7 DEF JobSnapshot, ReadPoints
<1> QED
  BY <1>1, <1>5, <1>6, <1>7, <1>8

\* A compaction begins.
LEMMA BeginOrder ==
  ASSUME OrderInv, NewestInv, NEW c, NEW m, Begin(c, m),
         Job0(levels, c), JobNext(levels, c), JobDeeper(levels, c), JobSnapshot(c, ReadPoints)
  PROVE  OrderInv' /\ NewestInv'
<1>1. PICK j : j = [manual |-> m, c |-> c, level |-> c.level]
  OBVIOUS
<1>2. job' = <<j>> /\ j.c = c
  BY <1>1 DEF Begin
<1>3. job'[1].c = c
  BY <1>2
<1>4. UNCHANGED <<levels, last_sequence, memtable, snapshots, history, split, undercut>>
  BY DEF Begin
<1>5. ReadPoints' = ReadPoints
  BY <1>4 DEF ReadPoints
<1>6. OrderInv'
  BY <1>3, <1>4, <1>5 DEF OrderInv
<1>7. NewestInv'
  BY <1>3, <1>4, <1>5 DEF NewestInv
<1> QED
  BY <1>6, <1>7

\* LogAndApply with the edit of a compaction or of a move.
LEMMA InstallsReplaces ==
  ASSUME CompactionInv, NEW c, InputsOK(levels, c), NEW A, \A a \in A : a.level = c.level + 1,
         Installs(InputDeletions(c), A)
  PROVE  Replaces(levels, levels', c, {a.file : a \in A})
<1>1. PICK v, w, D, R : v = levels /\ w = levels' /\ D = InputDeletions(c) /\ R = {a.file : a \in A}
  OBVIOUS
<1>2. \A l \in Level : ToSet(w[l]) = {f \in ToSet(v[l]) : ~\E d \in D : d.level = l /\ d.number = f.number}
                                      \cup {a.file : a \in {y \in A : y.level = l}}
  BY <1>1 DEF Installs
<1>3. /\ c.level \in Level /\ c.level + 1 \in Level
      /\ ToSet(c.inputs0) \subseteq ToSet(v[c.level]) /\ ToSet(c.inputs1) \subseteq ToSet(v[c.level + 1])
  <2>1. /\ c.level \in 0..(kNumLevels - 2) /\ c.inputs0 \in Seq(ToSet(v[c.level]))
        /\ c.inputs1 \in Seq(ToSet(v[c.level + 1]))
    BY <1>1 DEF InputsOK
  <2>2. c.level \in Level /\ c.level + 1 \in Level
    BY <2>1, VersionAssumption DEF Level
  <2>3. ToSet(c.inputs0) \subseteq ToSet(v[c.level])
    BY <2>1, SeqFiles
  <2>4. ToSet(c.inputs1) \subseteq ToSet(v[c.level + 1])
    BY <2>1, SeqFiles
  <2> QED
    BY <2>2, <2>3, <2>4
<1>4. \A l \in Level : \A f, g \in ToSet(v[l]) : f.number = g.number => f = g
  BY <1>1, CurrentVersion DEF VersionOK, FilesAre
<1>5. /\ \A f \in ToSet(c.inputs0) : [level |-> c.level, number |-> f.number] \in D
      /\ \A f \in ToSet(c.inputs1) : [level |-> c.level + 1, number |-> f.number] \in D
  BY <1>1 DEF InputDeletions
<1>6. \A d \in D : \/ d.level = c.level /\ \E f \in ToSet(c.inputs0) : d.number = f.number
                   \/ d.level = c.level + 1 /\ \E f \in ToSet(c.inputs1) : d.number = f.number
  BY <1>1 DEF InputDeletions
<1>7. /\ \A f \in ToSet(c.inputs0) : \E d \in D : d.level = c.level /\ d.number = f.number
      /\ \A f \in ToSet(c.inputs1) : \E d \in D : d.level = c.level + 1 /\ d.number = f.number
  BY <1>5
<1>8. ASSUME NEW l \in Level, NEW g \in ToSet(w[l])
      PROVE  \/ /\ g \in ToSet(v[l]) /\ (l = c.level => g \notin ToSet(c.inputs0))
                /\ l = c.level + 1 => g \notin ToSet(c.inputs1)
             \/ l = c.level + 1 /\ g \in R
  <2>1. \/ g \in ToSet(v[l]) /\ ~\E d \in D : d.level = l /\ d.number = g.number
        \/ \E a \in A : a.level = l /\ a.file = g
    BY <1>2
  <2> QED
    BY <2>1, <1>1, <1>7
<1>9. ASSUME NEW l \in Level, NEW g \in ToSet(v[l]), g \notin ToSet(w[l])
      PROVE  \/ l = c.level /\ g \in ToSet(c.inputs0)
             \/ l = c.level + 1 /\ g \in ToSet(c.inputs1)
  <2>1. PICK d \in D : d.level = l /\ d.number = g.number
    BY <1>2, <1>9
  <2> QED
    BY <2>1, <1>3, <1>4, <1>6
<1>10. R \subseteq ToSet(w[c.level + 1])
  BY <1>1, <1>2, <1>3
<1>11. Replaces(v, w, c, R)
  BY <1>8, <1>9, <1>10 DEF Replaces
<1> QED
  BY <1>1, <1>11

\* What the invariants say of the current version, with the files of a level.
LEMMA CurrentOrder ==
  ASSUME CompactionInv, DisjointInv, OrderInv, ~undercut
  PROVE  OneFile(levels, split)
<1>1. DisjointOK(levels)
  BY DEF DisjointInv
<1>2. SharedKeys(levels) \subseteq split
  BY DEF OrderInv
<1> QED
  BY <1>1, <1>2, CurrentVersion, LevelsHoldOnce

\* The move of a single file.
LEMMA MoveOrder ==
  ASSUME CompactionInv, DisjointInv, OrderInv, NewestInv, NEW c, InputsOK(levels, c), Len(c.inputs0) = 1,
         c.inputs1 = <<>>, Job0(levels, c),
         Installs(InputDeletions(c), {[level |-> c.level + 1, file |-> Head(c.inputs0)]}),
         split' = split \cup SharedKeys(levels'), job' = <<>>,
         UNCHANGED <<last_sequence, memtable, snapshots, history, undercut>>
  PROVE  OrderInv' /\ NewestInv'
<1>1. PICK f, A : f = Head(c.inputs0) /\ A = {[level |-> c.level + 1, file |-> Head(c.inputs0)]}
  OBVIOUS
<1>2. PICK H, v, w, M, S, T : /\ H = history /\ v = levels /\ w = levels' /\ M = memtable
                              /\ S = split /\ T = split'
  OBVIOUS
<1>3. EntriesOK(H) /\ VersionOK(v, H) /\ InputsOK(v, c) /\ S \subseteq T /\ Job0(v, c)
  BY <1>2, CurrentVersion
<1>4. Inputs(c) = {f} /\ ToSet(c.inputs0) = {f} /\ ToSet(c.inputs1) = {}
  <2>1. ToSet(c.inputs0) = {f}
    BY <1>1, SeqFiles DEF InputsOK
  <2>2. ToSet(c.inputs1) = {}
    BY DEF ToSet
  <2> QED
    BY <2>1, <2>2 DEF Inputs
<1>5. PICK R : R = {f}
  OBVIOUS
<1>14. Replaces(v, w, c, R)
  <2>1. \A a \in A : a.level = c.level + 1
    BY <1>1
  <2>2. {a.file : a \in A} = {f}
    BY <1>1
  <2>3. Installs(InputDeletions(c), A)
    BY <1>1
  <2>4. Replaces(levels, levels', c, {a.file : a \in A})
    BY <2>1, <2>3, InstallsReplaces
  <2> QED
    BY <2>2, <2>4, <1>2, <1>5
<1>6. \A g \in R : \A x \in g.entries : \E h \in Inputs(c) : x \in h.entries
  BY <1>4, <1>5
<1>7. AllEntries(w) = AllEntries(v)
  <2>1. AllEntries(w) \subseteq AllEntries(v)
    BY <1>3, <1>14, <1>6, ResultsEntries
  <2>2. ASSUME NEW x \in AllEntries(v) PROVE x \in AllEntries(w)
    <3>1. PICK l \in Level : \E g \in ToSet(v[l]) : x \in g.entries
      BY StoredEntries
    <3>2. PICK g \in ToSet(v[l]) : x \in g.entries
      BY <3>1
    <3>3. g \in ToSet(w[l]) \/ g = f
      BY <1>4, <1>14 DEF Replaces
    <3>4. f \in ToSet(w[c.level + 1]) /\ c.level + 1 \in Level
      BY <1>3, <1>5, <1>14, VersionAssumption DEF Replaces, InputsOK, Level
    <3> QED
      BY <3>2, <3>3, <3>4, StoredEntries
  <2> QED
    BY <2>1, <2>2
<1>8. MemNewer(M, w) /\ Level0Order(w)
  <2>1. MemNewer(M, v) /\ Level0Order(v) /\ InputsOK(v, c)
    BY <1>2, <1>3 DEF OrderInv
  <2>2. \A l \in Level : \A g \in ToSet(w[l]) : \A x \in g.entries :
          \E m \in Level : \E h \in ToSet(v[m]) : x \in h.entries
    BY <2>1, <1>14, <1>6, ResultsEntries
  <2>3. MemNewer(M, w)
    BY <2>1, <2>2 DEF MemNewer
  <2>4. 0 # c.level + 1 /\ 0 \in Level
    BY <2>1, VersionAssumption DEF InputsOK, Level
  <2>5. \A g \in ToSet(w[0]) : g \in ToSet(v[0])
    BY <2>4, <1>14 DEF Replaces
  <2>6. Level0Order(w)
    BY <2>1, <2>5 DEF Level0Order
  <2> QED
    BY <2>3, <2>6
<1>9. OrderInv'
  BY <1>2, <1>8 DEF OrderInv
<1>10. ASSUME ~undercut PROVE LevelOrder(w, T)
  <2>1. LevelOrder(v, S) /\ OneFile(v, S)
    BY <1>2, <1>10, CurrentOrder DEF NewestInv
  <2> QED
    BY <2>1, <1>3, <1>14, <1>6, ResultsOrder
<1>11. ASSUME ~undercut PROVE NewestSeen(M \cup AllEntries(w), H, ReadPoints, T)
  <2>1. NewestSeen(M \cup AllEntries(w), H, ReadPoints, S)
    BY <1>2, <1>7, <1>11 DEF NewestInv
  <2> QED
    BY <2>1, <1>3 DEF NewestSeen
<1>12. ReadPoints' = ReadPoints
  BY DEF ReadPoints
<1>13. NewestInv'
  BY <1>2, <1>10, <1>11, <1>12 DEF NewestInv
<1> QED
  BY <1>9, <1>13

LEMMA PickCompactionOrder ==
  ASSUME CompactionInv, DisjointInv, OrderInv, NewestInv, PickCompaction
  PROVE  OrderInv' /\ NewestInv'
<1>1. PICK p : p = PickedInputs
  OBVIOUS
<1>2. PICK c : c = SetupOtherInputs(p.level, p.inputs0)
  OBVIOUS
<1>3. job = <<>> /\ NeedsCompaction
  BY DEF PickCompaction, Idle
<1>4. \/ /\ IsTrivialMove(c)
         /\ LogAndApply(InputDeletions(c), {[level |-> c.level + 1, file |-> Head(c.inputs0)]},
                        EditPointer(c), next_file)
         /\ UNCHANGED <<last_sequence, memtable, snapshots, job, history, undercut>>
      \/ Begin(c, FALSE)
  BY <1>1, <1>2 DEF PickCompaction
<1>5. EntriesOK(history) /\ VersionOK(levels, history) /\ SeekFileOK(levels, file_to_compact)
  BY CurrentVersion DEF CompactionInv
<1>6. /\ p.level \in 0..(kNumLevels - 2)
      /\ p.inputs0 \in Seq(ToSet(levels[p.level])) /\ p.inputs0 # <<>>
      /\ p.level = 0 => Closed(levels, ToSet(p.inputs0))
  BY <1>1, <1>3, <1>5, PickedInputsOK
<1>7. /\ InputsOK(levels, c) /\ c.level = p.level /\ c.inputs1 = NextLevelInputs(p.level, c.inputs0)
      /\ p.level = 0 => Closed(levels, ToSet(c.inputs0))
  BY <1>2, <1>5, <1>6, SetupInputs
<1>8. Job0(levels, c) /\ JobNext(levels, c) /\ JobDeeper(levels, c) /\ JobSnapshot(c, ReadPoints)
  <2>1. PICK l, inputs0 : l = p.level /\ inputs0 = p.inputs0
    OBVIOUS
  <2>2. /\ l \in 0..(kNumLevels - 2) /\ c = SetupOtherInputs(l, inputs0) /\ InputsOK(levels, c) /\ c.level = l
        /\ c.inputs1 = NextLevelInputs(l, c.inputs0) /\ (l = 0 => Closed(levels, ToSet(c.inputs0)))
    BY <2>1, <1>2, <1>6, <1>7
  <2> QED
    BY <2>2, SetupJob
<1>9. CASE Begin(c, FALSE)
  BY <1>8, <1>9, BeginOrder
<1>10. CASE ~Begin(c, FALSE)
  <2>1. Len(c.inputs0) = 1 /\ c.inputs1 = <<>>
    BY <1>4, <1>10 DEF IsTrivialMove
  <2>2. Installs(InputDeletions(c), {[level |-> c.level + 1, file |-> Head(c.inputs0)]})
    BY <2>1, <1>3, <1>4, <1>7, <1>10, MoveKeeps
  <2>3. split' = split \cup SharedKeys(levels')
    BY <1>4, <1>10 DEF LogAndApply
  <2>4. job' = <<>> /\ UNCHANGED <<last_sequence, memtable, snapshots, history, undercut>>
    BY <1>3, <1>4, <1>10
  <2> QED
    BY <2>1, <2>2, <2>3, <2>4, <1>7, <1>8, MoveOrder
<1> QED
  BY <1>9, <1>10

LEMMA CompactRangeOrder ==
  ASSUME CompactionInv, DisjointInv, OrderInv, NewestInv, CompactRange
  PROVE  OrderInv' /\ NewestInv'
<1>1. PICK l \in 0..(kNumLevels - 2) :
        \E inputs \in ManualInputs(l) : Begin(SetupOtherInputs(l, inputs), TRUE)
  BY DEF CompactRange
<1>2. PICK inputs \in ManualInputs(l) : Begin(SetupOtherInputs(l, inputs), TRUE)
  BY <1>1
<1>3. inputs # <<>> /\ \E b \in 0..MaxKey, e \in 1..NoEnd : inputs = RangeInputs(l, b, e)
  BY <1>2 DEF ManualInputs
<1>4. PICK c : c = SetupOtherInputs(l, inputs)
  OBVIOUS
<1>5. EntriesOK(history) /\ VersionOK(levels, history) /\ l \in Level
  BY CurrentVersion, VersionAssumption DEF Level
<1>6. inputs \in Seq(ToSet(levels[l])) /\ inputs # <<>> /\ (l = 0 => Closed(levels, ToSet(inputs)))
  BY <1>2, <1>3, <1>5, RangeInputsOK
<1>7. /\ InputsOK(levels, c) /\ c.level = l /\ c.inputs1 = NextLevelInputs(l, c.inputs0)
      /\ l = 0 => Closed(levels, ToSet(c.inputs0))
  BY <1>4, <1>5, <1>6, SetupInputs
<1>8. Begin(c, TRUE)
  BY <1>2, <1>4
<1>9. Job0(levels, c) /\ JobNext(levels, c) /\ JobDeeper(levels, c) /\ JobSnapshot(c, ReadPoints)
  BY <1>1, <1>4, <1>7, SetupJob
<1> QED
  BY <1>8, <1>9, BeginOrder

\* InstallCompactionResults.
LEMMA FinishCompactionOrder ==
  ASSUME CompactionInv, DisjointInv, OrderInv, NewestInv, FinishCompaction
  PROVE  OrderInv' /\ NewestInv'
<1>1. /\ job # <<>> /\ job' = <<>> /\ split' = split \cup SharedKeys(levels')
      /\ UNCHANGED <<last_sequence, memtable, snapshots, history, undercut>>
  BY DEF FinishCompaction, LogAndApply
<1>2. PICK H, v, w, M, S, T : /\ H = history /\ v = levels /\ w = levels' /\ M = memtable
                              /\ S = split /\ T = split'
  OBVIOUS
<1>3. PICK c, N, Q : c = job[1].c /\ N = next_file /\ Q = ReadPoints
  OBVIOUS
<1>4. EntriesOK(H) /\ VersionOK(v, H) /\ InputsOK(v, c) /\ N \in Nat /\ 1 <= N /\ S \subseteq T /\ M \subseteq H
  BY <1>1, <1>2, <1>3, CurrentVersion, FileAssumption DEF CompactionInv, FilesOK, JobOK, HistoryOK
<1>5. /\ Job0(v, c) /\ JobSnapshot(c, Q) /\ MemNewer(M, v) /\ Level0Order(v)
  BY <1>1, <1>2, <1>3 DEF OrderInv
<1>6. Q \subseteq Nat
  <2>1. last_sequence \in Nat /\ snapshots \subseteq Nat
    BY VersionAssumption DEF CompactionInv, HistoryOK
  <2> QED
    BY <2>1, <1>3 DEF ReadPoints
<1>7. PICK E, F : E = EntriesOf(c.inputs0 \o c.inputs1) /\ F = ToSet(v[c.level]) \cup ToSet(v[c.level + 1])
  OBVIOUS
<1>8. E = UNION {h.entries : h \in Inputs(c)} /\ E \subseteq H
  <2>1. c.inputs0 \in Seq(F) /\ c.inputs1 \in Seq(F)
    BY <1>4, <1>7 DEF InputsOK
  <2>2. ToSet(c.inputs0 \o c.inputs1) = Inputs(c)
    BY <2>1, ConcatFiles DEF Inputs
  <2>3. Inputs(c) \subseteq F
    BY <2>1, SeqFiles DEF Inputs
  <2>4. c.level \in Level /\ c.level + 1 \in Level
    BY <1>4, DeletedInputs
  <2>5. \A f \in F : f.entries \subseteq H
    BY <2>4, <1>4, <1>7 DEF VersionOK, FilesAre, FileIs
  <2>6. E = UNION {h.entries : h \in Inputs(c)}
    BY <2>2, <1>7 DEF EntriesOf
  <2> QED
    BY <2>3, <2>5, <2>6
<1>9. PICK A, R, W : A = ResultFiles(c, N) /\ R = {a.file : a \in A} /\ W = UNION {g.entries : g \in R}
  OBVIOUS
<1>10. /\ \A a \in A : a.level = c.level + 1 /\ a.file.entries \subseteq E
       /\ Held(DoCompactionWork(c), {}) = UNION {a.file.entries : a \in A}
  <2>1. E \in SUBSET H /\ InputsOK(v, c) /\ EntriesOK(H) /\ VersionOK(v, H) /\ N \in Nat /\ 1 <= N
    BY <1>4, <1>8
  <2> QED
    BY <2>1, <1>7, <1>9, ResultsSeparate
<1>11. Compacted(c, E, W)
  <2>1. c.smallest_snapshot \in 0..MaxSeq
    BY <1>5 DEF JobSnapshot
  <2>2. Compacted(c, E, Held(DoCompactionWork(c), {}))
    BY <2>1, <1>4, <1>7, <1>8, CompactionOutputs
  <2>3. W = UNION {a.file.entries : a \in A}
    BY <1>9
  <2> QED
    BY <2>2, <2>3, <1>10
<1>12. Replaces(v, w, c, R)
  <2>1. Installs(InputDeletions(c), A)
    BY <1>3, <1>9, FinishCompactionInv
  <2>2. InputsOK(levels, c) /\ \A a \in A : a.level = c.level + 1
    BY <1>2, <1>4, <1>10
  <2>3. Replaces(levels, levels', c, {a.file : a \in A})
    BY <2>1, <2>2, InstallsReplaces
  <2> QED
    BY <2>3, <1>2, <1>9
<1>13. \A g \in R : \A x \in g.entries : \E h \in Inputs(c) : x \in h.entries
  BY <1>8, <1>9, <1>10
<1>14. MemNewer(M, w) /\ Level0Order(w)
  BY <1>4, <1>5, <1>12, <1>13, ResultsAbove
<1>15. OrderInv'
  BY <1>1, <1>2, <1>14 DEF OrderInv
<1>16. ASSUME ~undercut PROVE LevelOrder(w, T) /\ NewestSeen(M \cup AllEntries(w), H, Q, T)
  <2>1. /\ LevelOrder(v, S) /\ OneFile(v, S) /\ JobNext(v, c) /\ JobDeeper(v, c)
        /\ NewestSeen(M \cup AllEntries(v), H, Q, S)
    BY <1>1, <1>2, <1>3, <1>16, CurrentOrder DEF NewestInv
  <2>2. LevelOrder(w, T)
    BY <2>1, <1>4, <1>5, <1>12, <1>13, ResultsOrder
  <2>3. NewestSeen(M \cup AllEntries(w), H, Q, T)
    BY <2>1, <1>4, <1>5, <1>6, <1>8, <1>9, <1>11, <1>12, ResultsNewest
  <2> QED
    BY <2>2, <2>3
<1>17. ReadPoints' = Q
  BY <1>1, <1>3 DEF ReadPoints
<1>18. NewestInv'
  BY <1>1, <1>2, <1>16, <1>17 DEF NewestInv
<1> QED
  BY <1>15, <1>18

\* A memtable becomes the newest file.
LEMMA NewFile ==
  ASSUME CompactionInv, NEW n \in Nat, n >= next_file, memtable # {}, NEW f, f = FileMetaData(n, memtable)
  PROVE  /\ FileIs(f, history) /\ f.entries = memtable
         /\ \A g \in ToSet(levels[0]) : g.number < f.number
<1>1. EntriesOK(history) /\ memtable \in SUBSET history /\ next_file \in Nat
  BY FileAssumption DEF CompactionInv, HistoryOK, FilesOK
<1>2. FileIs(f, history) /\ f.entries = memtable /\ f.number = n
  BY <1>1, TableIsFile
<1>3. \A g \in ToSet(levels[0]) : g.number \in Nat /\ g.number < next_file
  <2>1. 0 \in Level
    BY VersionAssumption DEF Level
  <2>2. \A g \in ToSet(levels[0]) : g.number < next_file
    BY <2>1, CurrentVersion DEF CompactionInv, FilesOK, BuilderOK
  <2>3. \A g \in ToSet(levels[0]) : g.number \in Nat
    BY <2>1, CurrentVersion DEF VersionOK, FilesAre, FileIs
  <2> QED
    BY <2>2, <2>3
<1> QED
  BY <1>1, <1>2, <1>3

\* An edit that adds one file.
LEMMA InstallsOne ==
  ASSUME NEW L, NEW f, Installs({}, {[level |-> L, file |-> f]})
  PROVE  Adds(levels, levels', L, f)
<1> SUFFICES ASSUME NEW l \in Level, NEW g
             PROVE  g \in ToSet(levels'[l]) <=> g \in ToSet(levels[l]) \/ (l = L /\ g = f)
  BY DEF Adds
<1>1. PICK a : a = [level |-> L, file |-> f]
  OBVIOUS
<1>2. a.level = L /\ a.file = f
  BY <1>1
<1>3. PICK A : A = {y \in {a} : y.level = l}
  OBVIOUS
<1>4. ToSet(levels'[l]) = ToSet(levels[l]) \cup {y.file : y \in A}
  BY <1>1, <1>3 DEF Installs
<1>5. \A y : y \in A <=> y = a /\ l = L
  BY <1>2, <1>3
<1> QED
  BY <1>2, <1>4, <1>5

\* CompactMemTable.
LEMMA CompactMemTableOrder ==
  ASSUME CompactionInv, DisjointInv, OrderInv, NewestInv, CompactMemTable
  PROVE  OrderInv' /\ NewestInv'
<1>1. PICK f, L, H, v, w, S, T, M : /\ f = MemTableFile /\ L = MemTableLevel /\ H = history /\ v = levels
                                    /\ w = levels' /\ S = split /\ T = split' /\ M = memtable
  OBVIOUS
<1>2. /\ EntriesOK(H) /\ VersionOK(v, H) /\ \A l \in Level : v[l] = FileOrder(ToSet(v[l]))
  BY <1>1, CurrentVersion
<1>3. FileIs(f, H) /\ Adds(v, w, L, f)
  BY <1>1, CompactMemTableInv, InstallsOne
<1>4. L = PickLevelForMemTableOutput(v, f.smallest.key, f.largest.key)
  BY <1>1 DEF MemTableLevel
<1>5. /\ undercut' = (undercut \/ (job # <<>> /\ job[1].manual /\ L > job[1].level))
      /\ memtable # {} /\ memtable' = {} /\ T = S \cup SharedKeys(w)
      /\ UNCHANGED <<last_sequence, snapshots, job, history>>
  BY <1>1 DEF CompactMemTable, MemTableLevel, MemTableFile, LogAndApply
<1>6. L \in Level
  BY <1>4, PickedLevel
<1>7. f.entries = M /\ \A g \in ToSet(v[0]) : g.number < f.number
  <2>1. next_file \in Nat /\ next_file >= next_file
    BY FileAssumption DEF CompactionInv, FilesOK
  <2> QED
    BY <2>1, <1>1, <1>5, NewFile DEF MemTableFile
<1>8. MemNewer(f.entries, v) /\ Level0Order(v)
  BY <1>1, <1>7 DEF OrderInv
<1>9. AllEntries(w) = f.entries \cup AllEntries(v)
  BY <1>3, <1>6, TableEntries
<1>10. Level0Order(w)
  BY <1>2, <1>3, <1>6, <1>7, <1>8, TableAdded
<1>11. ReadPoints' = ReadPoints
  BY <1>5 DEF ReadPoints
<1>12. ASSUME job # <<>> PROVE Job0(w, job[1].c)
  <2>1. PICK c : c = job[1].c
    OBVIOUS
  <2>2. InputsOK(v, c) /\ Job0(v, c)
    BY <2>1, <1>1, <1>12 DEF CompactionInv, JobOK, OrderInv
  <2> QED
    BY <2>1, <2>2, <1>2, <1>3, <1>6, <1>8, JobWithTable
<1>13. OrderInv'
  <2>1. MemNewer({}, w)
    BY DEF MemNewer
  <2> QED
    BY <2>1, <1>1, <1>5, <1>10, <1>11, <1>12 DEF OrderInv
<1>14. ASSUME ~undercut
       PROVE  /\ LevelOrder(w, T) /\ NewestSeen(AllEntries(w), H, ReadPoints, T)
              /\ job # <<>> => JobNext(w, job[1].c) /\ JobDeeper(w, job[1].c)
  <2>1. /\ LevelOrder(v, S) /\ NewestSeen(M \cup AllEntries(v), H, ReadPoints, S)
        /\ job # <<>> => JobNext(v, job[1].c) /\ JobDeeper(v, job[1].c)
    BY <1>1, <1>14 DEF NewestInv
  <2>2. DisjointOK(v)
    BY <1>1, <1>14 DEF DisjointInv
  <2>3. L > 0 => \A m \in 0..L : \A g \in ToSet(v[m]) : KeysApart(f, g)
    BY <2>2, <1>2, <1>3, <1>4, NewTableApart
  <2>4. S \subseteq T
    BY <1>5
  <2>5. LevelOrder(w, T)
    BY <2>1, <2>3, <2>4, <1>2, <1>3, <1>6, <1>8, TableOrder
  <2>6. NewestSeen(AllEntries(w), H, ReadPoints, T)
    <3>1. NewestSeen(AllEntries(w), H, ReadPoints, S)
      BY <2>1, <1>7, <1>9
    <3> QED
      BY <3>1, <2>4 DEF NewestSeen
  <2>7. ASSUME job # <<>> PROVE JobNext(w, job[1].c) /\ JobDeeper(w, job[1].c)
    <3>1. PICK c : c = job[1].c
      OBVIOUS
    <3>2. InputsOK(v, c) /\ JobNext(v, c) /\ JobDeeper(v, c)
      BY <3>1, <2>1, <2>7, <1>1 DEF CompactionInv, JobOK
    <3> QED
      BY <3>1, <3>2, <2>3, <1>2, <1>3, <1>6, <1>8, JobWithTable
  <2> QED
    BY <2>5, <2>6, <2>7
<1>15. NewestInv'
  <2>1. {} \cup AllEntries(w) = AllEntries(w)
    OBVIOUS
  <2>2. undercut => undercut'
    BY Zenon, <1>5
  <2> QED
    BY <2>1, <2>2, <1>1, <1>5, <1>11, <1>14 DEF NewestInv
<1> QED
  BY <1>13, <1>15

\* Reopen: the memtable becomes a file of level 0; snapshots and the compaction
\* under way are gone.
LEMMA ReopenOrder ==
  ASSUME CompactionInv, OrderInv, NewestInv, Reopen
  PROVE  OrderInv' /\ NewestInv'
<1>1. PICK f, n, H, v, w, S, M, Q, K : /\ n = next_file + 1 /\ f = FileMetaData(n, memtable) /\ H = history
                                       /\ v = levels /\ w = levels' /\ S = split /\ M = memtable
                                       /\ Q = ReadPoints /\ K = ReadPoints'
  OBVIOUS
<1>2. EntriesOK(H) /\ VersionOK(v, H) /\ \A l \in Level : v[l] = FileOrder(ToSet(v[l]))
  BY <1>1, CurrentVersion
<1>3. /\ memtable' = {} /\ snapshots' = {} /\ job' = <<>>
      /\ UNCHANGED <<last_sequence, history, split, undercut>>
  BY DEF Reopen
<1>4. K \subseteq Q
  BY <1>1, <1>3 DEF ReadPoints
<1>5. SharedKeys(w) = SharedKeys(v)
  <2>1. CompactionInv' /\ \A l \in Level \ {0} : ToSet(w[l]) = ToSet(v[l])
    BY <1>1, ReopenInv
  <2>2. PICK b, G, N : b = manifest'.builder /\ G = history' /\ N = next_file'
    OBVIOUS
  <2>3. EntriesOK(G) /\ BuilderOK(b, G, N) /\ w = VersionOf(b)
    BY <2>1, <2>2, <1>1 DEF CompactionInv, HistoryOK, FilesOK
  <2>4. \A l \in Level : ToSet(w[l]) = Live(b, l) /\ w[l] = FileOrder(Live(b, l))
    BY <2>3, BuilderVersion DEF VersionOf
  <2>5. \A l \in Level \ {0} : w[l] = v[l]
    BY <2>1, <2>4, <1>2
  <2> QED
    BY <2>5 DEF SharedKeys
<1>6. MemNewer({}, w)
  BY DEF MemNewer
<1>7. SharedKeys(w) \subseteq S /\ MemNewer(M, v) /\ Level0Order(v)
  BY <1>1, <1>5 DEF OrderInv
<1>8. Level0Order(w) /\ AllEntries(w) = M \cup AllEntries(v) /\ (LevelOrder(v, S) => LevelOrder(w, S))
  <2>1. CASE M = {}
    <3>1. \A l \in Level : ToSet(w[l]) = ToSet(v[l])
      <4>1. Installs({}, {})
        BY <2>1, <1>1, ReopenInv
      <4>2. ASSUME NEW l \in Level
            PROVE  /\ {x \in ToSet(v[l]) : ~\E d \in {} : d.level = l /\ d.number = x.number} = ToSet(v[l])
                   /\ {a.file : a \in {y \in {} : y.level = l}} = {}
        OBVIOUS
      <4>3. ASSUME NEW l \in Level PROVE ToSet(w[l]) = ToSet(v[l]) \cup {}
        BY <4>1, <4>2, <1>1 DEF Installs
      <4> QED
        BY <4>3
    <3>2. 0 \in Level
      BY VersionAssumption DEF Level
    <3>3. AllEntries(w) = AllEntries(v)
      <4>1. \A x : x \in AllEntries(w) <=> x \in AllEntries(v)
        BY <3>1, StoredEntries
      <4> QED
        BY <4>1
    <3>4. Level0Order(w)
      BY <3>1, <3>2, <1>7 DEF Level0Order
    <3>5. LevelOrder(v, S) => LevelOrder(w, S)
      BY <3>1 DEF LevelOrder
    <3> QED
      BY <3>3, <3>4, <3>5, <2>1
  <2>2. CASE M # {}
    <3>1. n \in Nat /\ n >= next_file
      BY <1>1, FileAssumption DEF CompactionInv, FilesOK
    <3>2. FileIs(f, H) /\ f.entries = M /\ \A g \in ToSet(v[0]) : g.number < f.number
      BY <3>1, <2>2, <1>1, NewFile
    <3>3. Adds(v, w, 0, f)
      <4>1. Installs({}, {[level |-> 0, file |-> f]})
        BY <2>2, <1>1, ReopenInv
      <4> QED
        BY <4>1, <1>1, InstallsOne
    <3>4. 0 \in Level /\ ~(0 > 0) /\ S \subseteq S
      BY VersionAssumption DEF Level
    <3>5. MemNewer(f.entries, v)
      BY <3>2, <1>7
    <3>6. Level0Order(w)
      BY <3>2, <3>3, <3>4, <3>5, <1>2, <1>7, TableAdded
    <3>7. AllEntries(w) = M \cup AllEntries(v)
      BY <3>2, <3>3, <3>4, TableEntries
    <3>8. LevelOrder(v, S) => LevelOrder(w, S)
      BY <3>2, <3>3, <3>4, <3>5, <1>2, <1>7, TableOrder
    <3> QED
      BY <3>6, <3>7, <3>8
  <2> QED
    BY <2>1, <2>2
<1>9. OrderInv'
  BY <1>1, <1>3, <1>6, <1>7, <1>8 DEF OrderInv
<1>10. ASSUME ~undercut PROVE LevelOrder(w, S) /\ NewestSeen({} \cup AllEntries(w), H, K, S)
  <2>1. LevelOrder(v, S) /\ NewestSeen(M \cup AllEntries(v), H, Q, S)
    BY <1>1, <1>10 DEF NewestInv
  <2>2. {} \cup AllEntries(w) = M \cup AllEntries(v)
    BY <1>8
  <2>3. NewestSeen(M \cup AllEntries(v), H, K, S)
    BY <2>1, <1>4 DEF NewestSeen
  <2> QED
    BY <2>1, <2>2, <2>3, <1>8
<1>11. NewestInv'
  BY <1>1, <1>3, <1>10 DEF NewestInv
<1> QED
  BY <1>9, <1>11

\* Reads see the newest: no flush, move, compaction or restart puts an older
\* entry of a user key in front of a newer one, or loses one that a read needs.
THEOREM LevelsOrder == CompactionSpec => [](OrderInv /\ NewestInv)
<1>1. /\ CompactionInv /\ DisjointInv /\ (OrderInv /\ NewestInv) /\ [CompactionNext]_compactionVars
      => (OrderInv /\ NewestInv)'
  <2> SUFFICES ASSUME CompactionInv, DisjointInv, OrderInv, NewestInv, [CompactionNext]_compactionVars
               PROVE  OrderInv' /\ NewestInv'
    OBVIOUS
  <2>1. CASE UNCHANGED compactionVars
    <3>1. ReadPoints' \subseteq ReadPoints
      BY <2>1 DEF ReadPoints, compactionVars
    <3> QED
      BY <3>1, <2>1, SnapshotsOrder DEF compactionVars
  <2>2. CASE WriteEntry
    BY <2>2, WriteEntryOrder
  <2>3. CASE GetSnapshot
    <3>1. ReadPoints' \subseteq ReadPoints
      BY <2>3 DEF ReadPoints, GetSnapshot, SnapshotNumber
    <3> QED
      BY <3>1, <2>3, SnapshotsOrder DEF GetSnapshot
  <2>4. CASE ReleaseSnapshot
    <3>1. ReadPoints' \subseteq ReadPoints
      BY <2>4 DEF ReadPoints, ReleaseSnapshot
    <3> QED
      BY <3>1, <2>4, SnapshotsOrder DEF ReleaseSnapshot
  <2>5. CASE GetKey
    <3>1. ReadPoints' \subseteq ReadPoints
      BY <2>5 DEF ReadPoints, GetKey, UpdateStats
    <3> QED
      BY <3>1, <2>5, SnapshotsOrder DEF GetKey, UpdateStats
  <2>6. CASE RecordReadSample
    <3>1. ReadPoints' \subseteq ReadPoints
      BY <2>6 DEF ReadPoints, RecordReadSample, UpdateStats
    <3> QED
      BY <3>1, <2>6, SnapshotsOrder DEF RecordReadSample, UpdateStats
  <2>7. CASE CompactMemTable
    BY <2>7, CompactMemTableOrder
  <2>8. CASE PickCompaction
    BY <2>8, PickCompactionOrder
  <2>9. CASE CompactRange
    BY <2>9, CompactRangeOrder
  <2>10. CASE FinishCompaction
    BY <2>10, FinishCompactionOrder
  <2>11. CASE Reopen
    BY <2>11, ReopenOrder
  <2> QED
    BY <2>1, <2>2, <2>3, <2>4, <2>5, <2>6, <2>7, <2>8, <2>9, <2>10, <2>11 DEF CompactionNext
<1> QED
  BY OrderInit, <1>1, LevelsInv, LevelsFit, PTL DEF CompactionSpec

\* Among entries of one user key, the newest is unique.
LEMMA NewestEntry ==
  ASSUME NEW H, EntriesOK(H), NEW E \in SUBSET H, NEW k, \A e \in E : e.key = k, E # {}
  PROVE  /\ Newest(E) \in E /\ \A x \in E : x.seq <= Newest(E).seq
         /\ \A e \in E : (\A x \in E : x.seq <= e.seq) => e = Newest(E)
<1>1. \A x \in E : x.seq \in Nat /\ x.key \in Nat
  BY EntryOrder
<1>2. PICK n : n = First(E)
  OBVIOUS
<1>3. n \in E /\ \A x \in E : ~Before(x, n)
  BY <1>2, Bounds
<1>4. \A x \in E : x.seq <= n.seq
  BY <1>1, <1>3 DEF Before
<1>5. Newest(E) \in E /\ \A x \in E : x.seq <= Newest(E).seq
  BY <1>3, <1>4 DEF Newest
<1>6. ASSUME NEW e \in E, \A x \in E : x.seq <= e.seq PROVE e = Newest(E)
  <2>1. PICK m : m = Newest(E)
    OBVIOUS
  <2>2. m \in E /\ e.seq = m.seq
    BY <2>1, <1>1, <1>5, <1>6
  <2> QED
    BY <2>1, <2>2 DEF EntriesOK
<1> QED
  BY <1>5, <1>6

\* What a reader of k at s finds in E is what was written.
SeenIn(E, k, s) == {e \in E : e.key = k /\ e.seq <= s}
Result(E) == IF E = {} THEN {} ELSE {e \in {Newest(E)} : e.type = "value"}

LEMMA NewestResult ==
  ASSUME NEW H, EntriesOK(H), NEW E \in SUBSET H, NEW R \in SUBSET Nat, NEW S,
         NewestSeen(E, H, R, S), NEW s \in R, NEW k, k \notin S
  PROVE  Result(SeenIn(E, k, s)) = Result(SeenIn(H, k, s))
<1>1. PICK A, B : A = SeenIn(E, k, s) /\ B = SeenIn(H, k, s)
  OBVIOUS
<1>2. /\ A \in SUBSET H /\ B \in SUBSET H /\ A \subseteq B
      /\ (\A e \in A : e.key = k) /\ (\A e \in B : e.key = k)
  BY <1>1 DEF SeenIn
<1>3. CASE B = {}
  BY <1>1, <1>2, <1>3
<1>4. CASE B # {}
  <2>1. PICK n : n = Newest(B)
    OBVIOUS
  <2>2. n \in B /\ \A x \in B : x.seq <= n.seq
    BY <2>1, <1>2, <1>4, NewestEntry
  <2>3. n \in H /\ n.key = k /\ NewestAt(H, s, n)
    BY <2>2, <1>1 DEF SeenIn, NewestAt
  <2>4. n \in E \/ (n.type = "deletion" /\ \A x \in E : x.key = n.key => x.seq > s)
    BY <2>3 DEF NewestSeen
  <2>5. CASE n \in E
    <3>1. n \in A
      BY <2>2, <2>5, <1>1 DEF SeenIn
    <3>2. n = Newest(A)
      BY <3>1, <2>2, <1>2, NewestEntry
    <3> QED
      BY <3>1, <3>2, <2>1, <2>2, <1>1 DEF Result
  <2>6. CASE n \notin E
    <3>1. n.type = "deletion" /\ \A x \in E : x.key = n.key => x.seq > s
      BY <2>4, <2>6
    <3>2. A = {}
      <4> SUFFICES ASSUME NEW x \in A PROVE FALSE
        OBVIOUS
      <4>1. x \in E /\ x \in B /\ x.key = k /\ x.seq <= s /\ x.seq > s
        BY <3>1, <2>3, <1>1, <1>2 DEF SeenIn
      <4>2. x.seq \in Nat /\ n.seq \in Nat /\ x.seq <= n.seq /\ n.seq <= s
        BY <4>1, <2>2, <2>3, EntryOrder DEF NewestAt
      <4> QED
        BY <4>1, <4>2
    <3>3. Result(B) = {}
      BY <3>1, <2>1, <1>4 DEF Result
    <3> QED
      BY <3>2, <3>3, <1>1 DEF Result
  <2> QED
    BY <2>5, <2>6
<1> QED
  BY <1>3, <1>4

\* What iterators and the history show.
LEMMA VisibleResults ==
  ASSUME NEW k, NEW s
  PROVE  /\ VisibleInLevels(s, k) = Result(SeenIn(memtable \cup AllEntries(levels), k, s))
         /\ Reference(k, s) = Result(SeenIn(history, k, s))
BY DEF VisibleInLevels, Reference, Values, Result, SeenIn

LEMMA NewestVisible ==
  ASSUME CompactionInv, NewestInv, ~undercut, NEW s \in ReadPoints, NEW k \in Key \ split
  PROVE  VisibleInLevels(s, k) = Reference(k, s)
<1>1. PICK E, H, S, R : E = memtable \cup AllEntries(levels) /\ H = history /\ S = split /\ R = ReadPoints
  OBVIOUS
<1>2. EntriesOK(H) /\ E \in SUBSET H /\ R \in SUBSET Nat
  <2>1. EntriesOK(history) /\ VersionOK(levels, history) /\ memtable \subseteq history
    BY CurrentVersion DEF CompactionInv, HistoryOK
  <2>2. AllEntries(levels) \subseteq history
    BY <2>1, StoredEntries DEF VersionOK, FilesAre, FileIs
  <2>3. last_sequence \in Nat /\ snapshots \subseteq Nat
    BY VersionAssumption DEF CompactionInv, HistoryOK
  <2> QED
    BY <2>1, <2>2, <2>3, <1>1 DEF ReadPoints
<1>3. NewestSeen(E, H, R, S) /\ s \in R /\ k \notin S
  BY <1>1 DEF NewestInv
<1>4. Result(SeenIn(E, k, s)) = Result(SeenIn(H, k, s))
  BY <1>2, <1>3, NewestResult
<1> QED
  BY <1>1, <1>4, VisibleResults

\* An iterator sees the newest value its snapshot may see and no deleted one:
\* no compaction loses a value that a snapshot needs or uncovers a deleted one,
\* except where files of a level have shared the user key or overlapped.
THEOREM IteratorsSeeNewest == CompactionSpec => []IteratorSeesNewest
<1>1. CompactionInv /\ NewestInv => IteratorSeesNewest
  BY NewestVisible DEF IteratorSeesNewest
<1> QED
  BY <1>1, LevelsInv, LevelsOrder, PTL

\* The search in a level below level 0 finds the file that holds k.
LEMMA FileFound ==
  ASSUME NEW H, EntriesOK(H), NEW v, VersionOK(v, H), \A l \in Level : v[l] = FileOrder(ToSet(v[l])),
         DisjointOK(v), NEW S, OneFile(v, S), NEW l \in Level \ {0}, NEW f \in ToSet(v[l]), NEW e \in f.entries,
         NEW k, e.key = k, k \notin S, NEW s \in Nat, e.seq <= s
  PROVE  /\ FileIndex(v, l, k, s) <= Len(v[l]) /\ v[l][FileIndex(v, l, k, s)].smallest.key <= k
         /\ v[l][FileIndex(v, l, k, s)] = f
<1>1. PICK q, F, x, n : q = v[l] /\ F = ToSet(v[l]) /\ x = SeekKey(k, s) /\ n = FindFile(v[l], SeekKey(k, s))
  OBVIOUS
<1>2. FilesAre(F, H) /\ q = FileOrder(F)
  BY <1>1 DEF VersionOK
<1>3. /\ DOMAIN q = 1..Len(q) /\ Len(q) \in Nat /\ ToSet(q) = F /\ \A i \in 1..Len(q) : q[i] \in F
  <2>1. q \in Seq(F) /\ DOMAIN q = 1..Len(q) /\ ToSet(q) = F /\ \A i \in 1..Len(q) : q[i] \in F
    BY <1>2, FilesInOrder
  <2> QED
    BY <2>1, LenProperties
<1>4. \A a \in F : /\ a.smallest.key \in Nat /\ a.largest.key \in Nat /\ a.smallest.key <= a.largest.key
                   /\ a.largest \in H /\ a.largest \in a.entries
                   /\ \A y \in a.entries : /\ y \in H /\ y.key \in Nat /\ ~Before(a.largest, y)
                                           /\ a.smallest.key <= y.key /\ y.key <= a.largest.key
  BY <1>2, FileKeys DEF FilesAre, FileIs
<1>5. \A i, j \in 1..Len(q) : i < j => Before(q[i].largest, q[j].smallest)
  <2>1. \A a, b \in F : a = b \/ Separate(a, b)
    BY <1>1 DEF DisjointOK
  <2> QED
    BY <2>1, <1>2, DisjointInOrder
<1>6. x.key = k /\ x.seq = s /\ k \in Nat /\ f \in F /\ e \in H /\ e.seq \in Nat
  <2>1. f \in F
    BY <1>1
  <2>2. e \in H /\ k \in Nat
    BY <2>1, <1>4
  <2> QED
    BY <2>1, <2>2, <1>1, EntryOrder DEF SeekKey
<1>7. \A a \in H : a.seq \in Nat /\ a.key \in Nat
  BY EntryOrder
<1>8. PICK j \in 1..Len(q) : q[j] = f
  BY <1>1, <1>3 DEF ToSet
<1>9. ~Before(f.largest, x)
  <2>1. f.largest \in H /\ ~Before(f.largest, e)
    BY <1>4, <1>6
  <2> QED
    BY <2>1, <1>6, <1>7 DEF Before
<1>10. Sorted(q, x)
  <2> SUFFICES ASSUME NEW i \in 1..Len(q), NEW m \in 1..Len(q), i < m, Before(q[m].largest, x)
               PROVE  Before(q[i].largest, x)
    BY DEF Sorted
  <2>1. PICK a, b : a = q[i] /\ b = q[m]
    OBVIOUS
  <2>2. a \in F /\ b \in F /\ Before(a.largest, b.smallest)
    BY <2>1, <1>3, <1>5
  <2>3. a.largest \in H /\ b.largest \in H /\ b.smallest \in H /\ ~Before(b.largest, b.smallest)
    BY <2>2, <1>2, <1>4, FileKeys DEF FilesAre, FileIs
  <2>4. Before(b.largest, x)
    BY <2>1
  <2>5. PICK c, d : c = a.largest /\ d = b.largest
    OBVIOUS
  <2>6. c \in H /\ d \in H /\ Before(c, d) /\ Before(d, x)
    BY <2>2, <2>3, <2>4, <2>5, EntryOrder
  <2>7. c.key \in Nat /\ c.seq \in Nat /\ d.key \in Nat /\ d.seq \in Nat
    BY <2>6, <1>7
  <2>8. Before(c, x)
    BY <2>6, <2>7, <1>6 DEF Before
  <2> QED
    BY <2>1, <2>5, <2>8
<1>11. n \in 1..(Len(q) + 1) /\ (\A i \in 1..(n - 1) : Before(q[i].largest, x))
       /\ (n <= Len(q) => ~Before(q[n].largest, x))
  BY <1>1, <1>3, <1>10, FindFileIndex
<1>12. n <= j /\ n \in 1..Len(q)
  <2>1. ~(j \in 1..(n - 1))
    BY <1>8, <1>9, <1>11
  <2> QED
    BY <2>1, <1>3, <1>11
<1>13. q[n] = f
  <2>1. CASE n = j
    BY <2>1, <1>8
  <2>2. CASE n < j
    <3>1. PICK g : g = q[n]
      OBVIOUS
    <3>2. g \in F /\ Before(g.largest, f.smallest) /\ ~Before(g.largest, x)
      BY <3>1, <2>2, <1>3, <1>5, <1>8, <1>11, <1>12
    <3>3. g.largest.key \in Nat /\ f.smallest.key \in Nat /\ f.smallest.key <= k
      BY <3>2, <1>4, <1>6
    <3>4. g.largest.key = k
      BY <3>2, <3>3, <1>6 DEF Before
    <3>5. g.largest \in g.entries
      BY <3>2, <1>4
    <3>6. g = f \/ Common(g.entries, f.entries, S)
      BY <3>2, <1>1, <1>6 DEF OneFile
    <3> QED
      BY <3>1, <3>4, <3>5, <3>6 DEF Common
  <2> QED
    BY <2>1, <2>2, <1>3, <1>12
<1>14. f.smallest.key <= k
  BY <1>4, <1>6
<1> QED
  BY <1>1, <1>12, <1>13, <1>14 DEF FileIndex

\* Version::Get returns the newest entry of k that the version holds for s: the
\* first file with one has the newest.
LEMMA VersionGetNewest ==
  ASSUME NEW H, EntriesOK(H), NEW v, VersionOK(v, H), \A l \in Level : v[l] = FileOrder(ToSet(v[l])),
         DisjointOK(v), NEW S, OneFile(v, S), LevelOrder(v, S), Level0Order(v),
         NEW k, k \notin S, NEW s \in Nat
  PROVE  LET seen == SeenIn(AllEntries(v), k, s)
         IN VersionGet(v, k, s).found = IF seen = {} THEN {} ELSE {Newest(seen)}
<1> DEFINE files == SearchOrder(v, k, s)
           hits == {i \in DOMAIN files : InFile(files[i].file, k, s) # {}}
           found == VersionGet(v, k, s).found
           seen == SeenIn(AllEntries(v), k, s)
<1>1. found = IF hits = {} THEN {} ELSE {Newest(InFile(files[IF hits = {} THEN Len(files) ELSE Min(hits)].file, k, s))}
  BY DEF VersionGet
<1>2. /\ Len(files) \in Nat /\ DOMAIN files = 1..Len(files)
      /\ \A i \in 1..Len(files) : files[i].level \in Level /\ files[i].file \in ToSet(v[files[i].level])
  BY SearchFiles
<1>3. \A i, j \in 1..Len(files) : i < j => ReadBefore(files[i], files[j])
  BY SearchFiles
<1>4. \A f \in ToSet(v[0]) : f.smallest.key <= k /\ k <= f.largest.key => Reads(files, f)
  BY SearchFiles
<1>5. \A l \in Level \ {0} :
        FileIndex(v, l, k, s) <= Len(v[l]) /\ v[l][FileIndex(v, l, k, s)].smallest.key <= k =>
          Reads(files, v[l][FileIndex(v, l, k, s)])
  BY SearchFiles
<1>6. \A i : i \in hits <=> i \in 1..Len(files) /\ InFile(files[i].file, k, s) # {}
  BY <1>2
<1> HIDE DEF files, hits, found
<1>7. hits \in SUBSET (0..Len(files))
  BY <1>2, <1>6
<1>8. \A l \in Level : \A f \in ToSet(v[l]) : FileIs(f, H) /\ f.entries \subseteq H
  BY DEF VersionOK, FilesAre, FileIs
<1>9. \A x \in seen : /\ x \in H /\ x.key = k /\ x.seq <= s /\ x.seq \in Nat
                      /\ \E l \in Level : \E f \in ToSet(v[l]) : x \in f.entries
  <2> SUFFICES ASSUME NEW x \in seen PROVE /\ x \in H /\ x.key = k /\ x.seq <= s /\ x.seq \in Nat
                                           /\ \E l \in Level : \E f \in ToSet(v[l]) : x \in f.entries
    OBVIOUS
  <2>1. x \in AllEntries(v) /\ x.key = k /\ x.seq <= s
    BY DEF SeenIn
  <2>2. \E l \in Level : \E f \in ToSet(v[l]) : x \in f.entries
    BY <2>1, StoredEntries
  <2>3. x \in H
    BY <2>2, <1>8
  <2> QED
    BY <2>1, <2>2, <2>3, EntryOrder
<1>10. ASSUME NEW i \in 1..Len(files) PROVE InFile(files[i].file, k, s) \subseteq seen
  <2>1. PICK l, f : l = files[i].level /\ f = files[i].file
    OBVIOUS
  <2>2. l \in Level /\ f \in ToSet(v[l])
    BY <2>1, <1>2
  <2>3. \A x \in f.entries : x \in AllEntries(v)
    BY <2>2, StoredEntries
  <2> QED
    BY <2>1, <2>3 DEF InFile, SeenIn
<1>11. ASSUME NEW x \in seen PROVE \E i \in hits : x \in InFile(files[i].file, k, s)
  <2>1. PICK l \in Level : \E f \in ToSet(v[l]) : x \in f.entries
    BY <1>9
  <2>2. PICK f \in ToSet(v[l]) : x \in f.entries
    BY <2>1
  <2>3. x.key = k /\ x.seq <= s /\ FileIs(f, H)
    BY <1>8, <1>9
  <2>4. Reads(files, f)
    <3>1. CASE l = 0
      <4>1. f.smallest.key <= k /\ k <= f.largest.key
        BY <2>2, <2>3, FileKeys
      <4> QED
        BY <4>1, <3>1, <1>4
    <3>2. CASE l # 0
      <4>1. /\ FileIndex(v, l, k, s) <= Len(v[l]) /\ v[l][FileIndex(v, l, k, s)].smallest.key <= k
            /\ v[l][FileIndex(v, l, k, s)] = f
        <5>1. l \in Level \ {0}
          BY <3>2
        <5> QED
          BY <5>1, <2>2, <2>3, FileFound
      <4> QED
        BY <4>1, <3>2, <1>5
    <3> QED
      BY <3>1, <3>2
  <2>5. PICK i \in 1..Len(files) : files[i].file = f
    BY <2>4 DEF Reads
  <2>6. x \in InFile(files[i].file, k, s)
    BY <2>2, <2>3, <2>5 DEF InFile
  <2> QED
    BY <2>5, <2>6, <1>6
<1>12. ASSUME NEW i \in 1..Len(files), NEW j \in 1..Len(files), i < j,
              NEW x \in InFile(files[i].file, k, s), NEW y \in InFile(files[j].file, k, s)
       PROVE  y.seq <= x.seq
  <2>1. PICK l, m, f, g : l = files[i].level /\ m = files[j].level /\ f = files[i].file /\ g = files[j].file
    OBVIOUS
  <2>2. l \in Level /\ m \in Level /\ f \in ToSet(v[l]) /\ g \in ToSet(v[m])
    BY <2>1, <1>2
  <2>3. x \in f.entries /\ y \in g.entries /\ x.key = k /\ y.key = k
    BY <2>1 DEF InFile
  <2>4. x.seq \in Nat /\ y.seq \in Nat
    BY <2>2, <2>3, <1>8, EntryOrder
  <2>5. (l = 0 /\ m = 0 /\ f.number > g.number) \/ l < m
    BY <2>1, <1>3, <1>12 DEF ReadBefore
  <2>6. CASE l = 0 /\ m = 0 /\ f.number > g.number
    <3>1. g.number < f.number
      BY <2>2, <2>6, <1>8 DEF FileIs
    <3>2. y.seq < x.seq
      BY <3>1, <2>2, <2>3, <2>6 DEF Level0Order
    <3> QED
      BY <3>2, <2>4
  <2>7. CASE l < m
    <3>1. Newer(f.entries, g.entries, S)
      BY <2>2, <2>7 DEF LevelOrder
    <3>2. x.seq > y.seq
      BY <3>1, <2>3 DEF Newer
    <3> QED
      BY <3>2, <2>4
  <2> QED
    BY <2>5, <2>6, <2>7
<1>13. CASE hits = {}
  <2>1. seen = {}
    BY <1>11, <1>13
  <2> QED
    BY <2>1, <1>1, <1>13 DEF found
<1>14. CASE hits # {}
  <2>1. PICK r : r = Min(hits)
    OBVIOUS
  <2>2. r \in hits /\ (\A i \in hits : r <= i)
    BY <2>1, <1>2, <1>7, <1>14, MinMax
  <2>3. PICK E : E = InFile(files[r].file, k, s)
    OBVIOUS
  <2>4. r \in 1..Len(files) /\ E # {} /\ E \subseteq seen
    BY <2>2, <2>3, <1>6, <1>10
  <2>5. found = {Newest(E)}
    BY <2>1, <2>3, <1>1, <1>14
  <2>6. PICK n : n = Newest(E)
    OBVIOUS
  <2>7. n \in E /\ \A x \in E : x.seq <= n.seq
    <3>1. E \in SUBSET H /\ \A x \in E : x.key = k
      BY <2>4, <1>9
    <3> QED
      BY <3>1, <2>4, <2>6, NewestEntry
  <2>8. ASSUME NEW x \in seen PROVE x.seq <= n.seq
    <3>1. PICK i \in hits : x \in InFile(files[i].file, k, s)
      BY <1>11
    <3>2. i \in 1..Len(files) /\ r <= i
      BY <2>2, <1>6
    <3>3. CASE i = r
      BY <3>1, <3>3, <2>3, <2>7
    <3>4. CASE r < i
      BY <3>1, <3>2, <3>4, <2>3, <2>4, <2>7, <1>12
    <3> QED
      BY <3>2, <3>3, <3>4, <2>4
  <2>9. n = Newest(seen) /\ seen # {}
    <3>1. seen \in SUBSET H /\ n \in seen /\ \A x \in seen : x.key = k
      BY <2>4, <2>7, <1>9
    <3> HIDE DEF seen
    <3> QED
      BY <3>1, <2>8, NewestEntry
  <2> QED
    BY <2>5, <2>6, <2>9 DEF found
<1> QED
  BY <1>13, <1>14

\* What a Get returns is what an iterator sees.
LEMMA GetResult ==
  ASSUME CompactionInv, DisjointInv, OrderInv, NewestInv, ~undercut, NEW s \in ReadPoints, NEW k \in Key \ split
  PROVE  LET mem == {e \in memtable : e.key = k /\ e.seq <= s}
             found == IF mem # {} THEN {Newest(mem)} ELSE VersionGet(levels, k, s).found
         IN Values(found) = VisibleInLevels(s, k)
<1>1. PICK M, v, H, S : M = memtable /\ v = levels /\ H = history /\ S = split
  OBVIOUS
<1>2. PICK A, B, C : A = SeenIn(M, k, s) /\ B = SeenIn(AllEntries(v), k, s) /\ C = SeenIn(M \cup AllEntries(v), k, s)
  OBVIOUS
<1>3. C = A \cup B
  BY <1>2 DEF SeenIn
<1>4. /\ EntriesOK(H) /\ VersionOK(v, H) /\ (\A l \in Level : v[l] = FileOrder(ToSet(v[l]))) /\ M \subseteq H
      /\ DisjointOK(v) /\ OneFile(v, S) /\ LevelOrder(v, S) /\ Level0Order(v) /\ MemNewer(M, v) /\ k \notin S
  BY <1>1, CurrentVersion, CurrentOrder DEF CompactionInv, HistoryOK, DisjointInv, OrderInv, NewestInv
<1>5. s \in Nat
  BY VersionAssumption DEF CompactionInv, HistoryOK, ReadPoints
<1>6. A \in SUBSET H /\ C \in SUBSET H /\ (\A e \in A : e.key = k) /\ (\A e \in C : e.key = k)
  <2>1. AllEntries(v) \subseteq H
    BY <1>4, StoredEntries DEF VersionOK, FilesAre, FileIs
  <2> QED
    BY <2>1, <1>2, <1>4 DEF SeenIn
<1>7. VisibleInLevels(s, k) = Result(C)
  BY <1>1, <1>2, VisibleResults
<1>8. PICK found : found = IF A # {} THEN {Newest(A)} ELSE VersionGet(v, k, s).found
  OBVIOUS
<1>9. found = IF C = {} THEN {} ELSE {Newest(C)}
  <2>1. CASE A = {}
    <3>1. VersionGet(v, k, s).found = IF B = {} THEN {} ELSE {Newest(B)}
      BY <1>2, <1>4, <1>5, VersionGetNewest
    <3> QED
      BY <3>1, <2>1, <1>3, <1>8
  <2>2. CASE A # {}
    <3>1. PICK n : n = Newest(A)
      OBVIOUS
    <3>2. n \in A /\ \A x \in A : x.seq <= n.seq
      BY <3>1, <2>2, <1>4, <1>6, NewestEntry
    <3>3. ASSUME NEW x \in B PROVE x.seq <= n.seq
      <4>1. \E l \in Level : \E f \in ToSet(v[l]) : x \in f.entries
        BY <1>2, StoredEntries DEF SeenIn
      <4>2. n \in M
        BY <3>2, <1>2 DEF SeenIn
      <4>3. n.seq > x.seq
        BY <4>1, <4>2, <1>4 DEF MemNewer
      <4>4. n.seq \in Nat /\ x.seq \in Nat
        BY <3>2, <1>3, <1>4, <1>6, EntryOrder
      <4> QED
        BY <4>3, <4>4
    <3>4. n \in C /\ \A x \in C : x.seq <= n.seq
      BY <3>2, <3>3, <1>3
    <3>5. n = Newest(C)
      BY <3>4, <1>4, <1>6, NewestEntry
    <3> QED
      BY <3>1, <3>4, <3>5, <2>2, <1>8
  <2> QED
    BY <2>1, <2>2
<1>10. Values(found) = Result(C)
  BY <1>9 DEF Values, Result
<1> QED
  BY <1>1, <1>2, <1>7, <1>8, <1>10 DEF SeenIn

\* A Get returns the newest value its snapshot may see and no deleted one,
\* across flushes, moves, compactions and restarts, except where files of a
\* level have shared the user key or overlapped.
THEOREM GetsSeeNewest == CompactionSpec => []GetSeesNewest
<1>1. CompactionInv /\ DisjointInv /\ OrderInv /\ NewestInv => GetSeesNewest
  <2> SUFFICES ASSUME CompactionInv, DisjointInv, OrderInv, NewestInv, ~undercut,
                      NEW s \in ReadPoints, NEW k \in Key \ split
               PROVE  LET mem == {e \in memtable : e.key = k /\ e.seq <= s}
                          found == IF mem # {} THEN {Newest(mem)} ELSE VersionGet(levels, k, s).found
                      IN Values(found) = Reference(k, s)
    BY DEF GetSeesNewest
  <2> QED
    BY GetResult, NewestVisible
<1> QED
  BY <1>1, LevelsInv, LevelsFit, LevelsOrder, PTL
=============================================================================
