--------------------------- MODULE Screens_proofs ---------------------------
(***************************************************************************)
(* Proofs about the two screens that read what the user does: the list of  *)
(* borrowers, for any names and texts, and the payment form, for every set *)
(* of amounts and days, every time of day and every time zone.             *)
(***************************************************************************)
EXTENDS BorrowersTable, PaymentForm, FiniteSetTheorems, SequenceTheorems, TLAPS

-----------------------------------------------------------------------------
(* The list of borrowers.                                                  *)

\* A set of indices of borrowers has at most Len(borrowers) elements: search
\* results are never more than the borrowers.
LEMMA ResultsBounded ==
  ASSUME NEW n \in Nat, NEW S \in SUBSET (1..n)
  PROVE  /\ Cardinality(S) \in Nat
         /\ Cardinality(S) <= n
<1>1. IsFiniteSet(1..n) /\ Cardinality(1..n) = n
  BY FS_Interval
<1>2. IsFiniteSet(S) /\ Cardinality(S) <= Cardinality(1..n)
  BY <1>1, FS_Subset
<1> QED
  BY <1>1, <1>2, FS_CardinalityType

\* Whatever the flag, the table has at most Len(borrowers) rows.
LEMMA RowsBounded ==
  ASSUME NEW all \in Seq(Name), NEW S \in SUBSET (1..Len(all)),
         NEW searching \in BOOLEAN
  PROVE  /\ NumberOfRows(all, S, searching) \in Nat
         /\ NumberOfRows(all, S, searching) <= Len(all)
<1>1. Len(all) \in Nat
  BY LenProperties
<1>2. CASE searching
  BY <1>1, <1>2, ResultsBounded DEF NumberOfRows
<1>3. CASE ~searching
  BY <1>1, <1>3 DEF NumberOfRows
<1> QED
  BY <1>2, <1>3

\* filteredBorrowers[i] exists for every row i: ranking the elements of S is
\* an injection into 1..Cardinality(S), hence onto it.
LEMMA NthInResults ==
  ASSUME NEW n \in Nat, NEW S \in SUBSET (1..n), NEW i \in 1..Cardinality(S)
  PROVE  Nth(S, i) \in S
<1> DEFINE Upto(k) == {j \in S : j <= k}
           rank == [k \in S |-> Cardinality(Upto(k))]
           T == 1..Cardinality(S)
<1>0. \A k \in S : k \in Int
  OBVIOUS
<1>1. IsFiniteSet(S) /\ Cardinality(S) \in Nat
  <2>1. IsFiniteSet(1..n)
    BY FS_Interval
  <2> QED
    BY <2>1, FS_Subset, FS_CardinalityType
<1>2. ASSUME NEW k \in S
      PROVE  IsFiniteSet(Upto(k)) /\ Cardinality(Upto(k)) \in T
  <2>1. IsFiniteSet(Upto(k)) /\ Cardinality(Upto(k)) <= Cardinality(S)
    BY <1>1, FS_Subset
  <2>2. k \in Upto(k)
    OBVIOUS
  <2>3. Cardinality(Upto(k)) \in Nat /\ Cardinality(Upto(k)) # 0
    BY <2>1, <2>2, FS_EmptySet, FS_CardinalityType
  <2> QED
    BY <1>1, <2>1, <2>3
<1>3. ASSUME NEW k \in S, NEW l \in S, k < l
      PROVE  Cardinality(Upto(k)) # Cardinality(Upto(l))
  <2>1. Upto(k) \in SUBSET Upto(l) /\ l \in Upto(l) /\ l \notin Upto(k)
    <3>1. k \in Int /\ l \in Int
      BY <1>0
    <3>2. \A j \in S : j <= k => j <= l
      BY <1>0, <1>3, <3>1
    <3>3. l <= l /\ ~(l <= k)
      BY <1>3, <3>1
    <3> QED
      BY <3>2, <3>3
  <2> QED
    BY <1>2, <2>1, FS_Subset
<1>4. rank \in Injection(S, T)
  <2>1. rank \in [S -> T]
    BY <1>2
  <2>2. ASSUME NEW k \in S, NEW l \in S, rank[k] = rank[l] PROVE k = l
    <3>1. ~(k < l) /\ ~(l < k)
      BY <1>3, <2>2
    <3> QED
      BY <3>1
  <2> QED
    BY <2>1, <2>2 DEF Injection, IsInjective
<1>5. IsFiniteSet(T) /\ Cardinality(T) = Cardinality(S)
  BY <1>1, FS_Interval
<1>6. rank \in Surjection(S, T)
  BY <1>4, <1>5, FS_Injection
<1>7. PICK k \in S : Cardinality(Upto(k)) = i
  BY <1>6 DEF Surjection
<1> QED
  BY <1>7 DEF Nth

\* The results over a prefix of the list do not change when a borrower is
\* appended: only the old elements are looked at.
LEMMA AppendKeepsMatches ==
  ASSUME TypeOK, NEW b \in Name, borrowers' = Append(borrowers, b),
         NEW n \in 0..Len(borrowers), NEW t
  PROVE  MatchesAmong(n, t)' = MatchesAmong(n, t)
<1>1. \A i \in 1..n : borrowers'[i] = borrowers[i]
  BY AppendProperties, LenProperties DEF TypeOK
<1> QED
  BY <1>1 DEF MatchesAmong

\* An empty list with no search satisfies the inductive invariant.
LEMMA InitIInv == Init => ListInvariant
<1> SUFFICES ASSUME Init PROVE ListInvariant
  OBVIOUS
<1>1. TypeOK
  <2>1. borrowers \in Seq(Name) /\ Len(borrowers) = 0
    BY EmptySeq DEF Init
  <2>2. shouldShowSearchResults \in BOOLEAN
    BY DEF Init
  <2>3. /\ filteredBorrowers = {} /\ tableRows = 0 /\ borrowerAtIndex = 0
        /\ indexOfRowUserClicked = 0 /\ searchText = EmptyText
        /\ tappedIn = "results"
    BY DEF Init
  <2> QED
    BY <2>1, <2>2, <2>3, TextAssumption, BoundAssumption DEF TypeOK
<1>2. RowsBacked /\ SelectionInRange
  BY BoundAssumption DEF Init, RowsBacked, SelectionInRange, NumberOfRows
<1>3. ResultsOfATypedText
  <2>1. MatchesAmong(0, searchText) = {}
    BY DEF MatchesAmong
  <2> QED
    BY <2>1 DEF Init, ResultsOfATypedText
<1>4. UnfilteredTapOpensRow
  BY DEF Init, UnfilteredTapOpensRow, ListOnTop
<1> QED
  BY <1>1, <1>2, <1>3, <1>4 DEF Init, ListInvariant

\* An arriving borrower keeps the invariant, also during a search: the old
\* results remain results of a prefix of the longer list.
LEMMA ChildAddedIInv ==
  ASSUME ListInvariant, NEW n \in Name, ChildAdded(n)
  PROVE  ListInvariant'
<1> USE DEF ListInvariant
<1>1. /\ borrowers \in Seq(Name) /\ Len(borrowers) \in Nat
      /\ borrowers' \in Seq(Name) /\ Len(borrowers') = Len(borrowers) + 1
  BY AppendProperties, LenProperties DEF ChildAdded, ReloadWith, TypeOK
<1>2. filteredBorrowers' \in SUBSET (1..Len(borrowers'))
  BY <1>1 DEF ChildAdded, ReloadWith, TypeOK
<1>3. RowsBacked'
  BY DEF ChildAdded, ReloadWith, RowsBacked
<1>4. tableRows' \in Nat /\ tableRows' <= Len(borrowers')
  BY <1>1, <1>2, <1>3, RowsBounded DEF ChildAdded, ReloadWith, RowsBacked, TypeOK
<1>5. TypeOK'
  BY <1>1, <1>2, <1>4, BoundAssumption DEF ChildAdded, ReloadWith, TypeOK, history
<1>6. SelectionInRange'
  BY <1>1, <1>4 DEF ChildAdded, ReloadWith, SelectionInRange, TypeOK
<1>7. ResultsOfATypedText'
  <2>1. PICK k \in 0..Len(borrowers) :
          filteredBorrowers = MatchesAmong(k, searchText)
    BY DEF ResultsOfATypedText
  <2>2. MatchesAmong(k, searchText)' = MatchesAmong(k, searchText)
    BY AppendKeepsMatches DEF ChildAdded, ReloadWith, MatchesAmong
  <2> QED
    BY <1>1, <2>1, <2>2 DEF ChildAdded, ReloadWith, ResultsOfATypedText
<1>8. UnfilteredTapOpensRow'
  BY DEF ChildAdded, ReloadWith, UnfilteredTapOpensRow, ListOnTop, history
<1> QED
  BY <1>3, <1>5, <1>6, <1>7, <1>8 DEF ChildAdded, ReloadWith

\* An edit of the search text keeps the invariant: the results are recomputed
\* over all the borrowers and the table is reloaded in both branches.
LEMMA TextDidChangeIInv ==
  ASSUME ListInvariant, NEW t \in Text, TextDidChange(t)
  PROVE  ListInvariant'
<1> USE DEF ListInvariant
<1>1. borrowers \in Seq(Name) /\ Len(borrowers) \in Nat
  BY LenProperties DEF TypeOK
<1>2. filteredBorrowers' \in SUBSET (1..Len(borrowers))
  BY DEF TextDidChange, SearchFor, MatchesAmong
<1>3. RowsBacked'
  BY DEF TextDidChange, SearchFor, RowsBacked
<1>4. tableRows' \in Nat /\ tableRows' <= Len(borrowers)
  BY <1>1, <1>2, RowsBounded DEF TextDidChange, SearchFor
<1>5. TypeOK'
  BY <1>1, <1>2, <1>4 DEF TextDidChange, SearchFor, TypeOK, history
<1>6. SelectionInRange'
  BY <1>1, <1>4 DEF TextDidChange, SearchFor, SelectionInRange, TypeOK
<1>7. ResultsOfATypedText'
  <2>1. MatchesAmong(Len(borrowers), t)' = MatchesAmong(Len(borrowers), t)
    BY DEF TextDidChange, SearchFor, MatchesAmong
  <2> QED
    BY <1>1, <2>1 DEF TextDidChange, SearchFor, ResultsOfATypedText, MatchesAmong
<1>8. UnfilteredTapOpensRow'
  BY DEF TextDidChange, SearchFor, UnfilteredTapOpensRow, ListOnTop, history
<1> QED
  BY <1>3, <1>5, <1>6, <1>7, <1>8 DEF TextDidChange, SearchFor

\* A tap hands over a valid index even when rows are search results, because
\* there are at most as many results as borrowers.
LEMMA DidSelectRowAtIInv ==
  ASSUME ListInvariant, NEW row \in 1..MaxBorrowers, DidSelectRowAt(row)
  PROVE  ListInvariant'
<1> USE DEF ListInvariant
<1>1. borrowers \in Seq(Name) /\ Len(borrowers) \in Nat
  BY LenProperties DEF TypeOK
<1>2. row \in 1..Len(borrowers)
  BY <1>1 DEF DidSelectRowAt, Select, SelectionInRange, TypeOK
<1>3. TypeOK'
  BY <1>1, <1>2, BoundAssumption DEF DidSelectRowAt, Select, TypeOK, BorrowerOfRow
<1>4. RowsBacked' /\ SelectionInRange'
  BY <1>1, <1>2 DEF DidSelectRowAt, Select, RowsBacked, SelectionInRange
<1>5. ResultsOfATypedText'
  BY DEF DidSelectRowAt, Select, ResultsOfATypedText, MatchesAmong
<1>6. UnfilteredTapOpensRow'
  BY DEF DidSelectRowAt, Select, UnfilteredTapOpensRow, BorrowerOfRow
<1> QED
  BY <1>3, <1>4, <1>5, <1>6 DEF DidSelectRowAt, Select

\* The remaining actions touch at most one variable.
LEMMA OtherStepsIInv ==
  ASSUME ListInvariant, SearchBarSearchButtonClicked \/ Back \/ UNCHANGED vars
  PROVE  ListInvariant'
<1> USE DEF ListInvariant
<1>1. CASE SearchBarSearchButtonClicked
  <2>1. shouldShowSearchResults' = shouldShowSearchResults
    BY <1>1 DEF SearchBarSearchButtonClicked
  <2>2. tableRows' = tableRows
    BY <1>1, <2>1 DEF SearchBarSearchButtonClicked, RowsBacked
  <2> QED
    BY <1>1, <2>1, <2>2
    DEF SearchBarSearchButtonClicked, TypeOK, RowsBacked, SelectionInRange,
        ResultsOfATypedText, MatchesAmong, UnfilteredTapOpensRow, ListOnTop,
        history
<1>2. CASE Back
  <2>1. TypeOK'
    BY <1>2, BoundAssumption DEF Back, TypeOK, history
  <2>2. SelectionInRange'
    BY <1>2, LenProperties DEF Back, SelectionInRange, TypeOK
  <2> QED
    BY <1>2, <2>1, <2>2
    DEF Back, RowsBacked, ResultsOfATypedText, MatchesAmong,
        UnfilteredTapOpensRow, ListOnTop, history
<1>3. CASE UNCHANGED vars
  BY <1>3 DEF vars, TypeOK, RowsBacked, SelectionInRange,
              ResultsOfATypedText, MatchesAmong, UnfilteredTapOpensRow,
              ListOnTop
<1> QED
  BY <1>1, <1>2, <1>3

\* Every handler of the list keeps the inductive invariant.
LEMMA NextIInv == ListInvariant /\ [Next]_vars => ListInvariant'
BY ChildAddedIInv, TextDidChangeIInv, DidSelectRowAtIInv, OtherStepsIInv
DEF Next

\* The inductive invariant of the list: for all names, texts and numbers of
\* borrowers, after any sequence of events, searches and taps.
THEOREM Invariance == Spec => []ListInvariant
BY InitIInv, NextIInv, PTL DEF Spec

\* TypeOK is an invariant: in particular filteredBorrowers only ever holds
\* indices of borrowers.
THEOREM TypeCorrect == Spec => []TypeOK
<1>1. ListInvariant => TypeOK
  BY DEF ListInvariant
<1> QED
  BY <1>1, Invariance, PTL

\* The table and its data source always agree on the number of rows.
THEOREM RowsAlwaysBacked == Spec => []RowsBacked
<1>1. ListInvariant => RowsBacked
  BY DEF ListInvariant
<1> QED
  BY <1>1, Invariance, PTL

\* prepare(for:) never indexes borrowers out of range.
THEOREM SelectionNeverTraps == Spec => []SelectionInRange
<1>1. ListInvariant => SelectionInRange
  BY DEF ListInvariant
<1> QED
  BY <1>1, Invariance, PTL

\* Search results are always the matches of the text on screen over a prefix
\* of the borrowers.
THEOREM ResultsMatchText == Spec => []ResultsOfATypedText
<1>1. ListInvariant => ResultsOfATypedText
  BY DEF ListInvariant
<1> QED
  BY <1>1, Invariance, PTL

\* Outside a search the BorrowerVC gets the borrower of the tapped row.
THEOREM UnfilteredTapCorrect == Spec => []UnfilteredTapOpensRow
<1>1. ListInvariant => UnfilteredTapOpensRow
  BY DEF ListInvariant
<1> QED
  BY <1>1, Invariance, PTL

\* A row of the table shows an element of borrowers.
LEMMA RowShowsBorrower ==
  ASSUME ListInvariant, NEW i \in 1..tableRows
  PROVE  BorrowerOfRow(i) \in 1..Len(borrowers)
<1>1. Len(borrowers) \in Nat
  BY LenProperties DEF ListInvariant, TypeOK
<1>2. CASE shouldShowSearchResults
  BY <1>1, <1>2, NthInResults
  DEF ListInvariant, TypeOK, RowsBacked, NumberOfRows, BorrowerOfRow
<1>3. CASE ~shouldShowSearchResults
  BY <1>1, <1>3 DEF ListInvariant, RowsBacked, NumberOfRows, BorrowerOfRow
<1> QED
  BY <1>2, <1>3

\* Unless the text is edited, a row stays in the table, keeps its borrower and
\* keeps showing that borrower's name.
THEOREM RowsAreStable == Spec => RowsStable
<1> DEFINE Kept(i) == /\ i <= tableRows'
                      /\ BorrowerOfRow(i)' = BorrowerOfRow(i)
                      /\ CellForRowAt(i)' = CellForRowAt(i)
           Stable == searchText' = searchText => \A i \in 1..tableRows : Kept(i)
<1>1. ASSUME ListInvariant, [Next]_vars PROVE [Stable]_vars
  <2> SUFFICES ASSUME Next, searchText' = searchText, NEW i \in 1..tableRows
               PROVE  Kept(i)
    BY <1>1
  <2>0. tableRows \in Nat /\ Len(borrowers) \in Nat
    BY <1>1, LenProperties DEF ListInvariant, TypeOK
  <2>1. ASSUME NEW n \in Name, ChildAdded(n) PROVE Kept(i)
    <3>1. /\ Len(borrowers') = Len(borrowers) + 1
          /\ \A k \in 1..Len(borrowers) : borrowers'[k] = borrowers[k]
      BY <1>1, <2>1, AppendProperties DEF ChildAdded, ReloadWith, ListInvariant, TypeOK
    <3>2. tableRows <= tableRows'
      BY <1>1, <2>0, <2>1, <3>1
      DEF ChildAdded, ReloadWith, ListInvariant, RowsBacked, NumberOfRows, TypeOK
    <3>3. tableRows' \in Nat
      BY <1>1, <2>1, ChildAddedIInv DEF ListInvariant, TypeOK
    <3>4. BorrowerOfRow(i)' = BorrowerOfRow(i)
      BY <2>1, Zenon DEF ChildAdded, ReloadWith, BorrowerOfRow
    <3>5. CellForRowAt(i)' = CellForRowAt(i)
      BY <1>1, <3>1, <3>4, RowShowsBorrower DEF CellForRowAt
    <3> QED
      BY <2>0, <3>2, <3>3, <3>4, <3>5
  <2>2. ASSUME NEW t \in Text, TextDidChange(t) PROVE FALSE
    BY <2>2 DEF TextDidChange, SearchFor
  <2>3. CASE SearchBarSearchButtonClicked
    <3>1. shouldShowSearchResults' = shouldShowSearchResults
      BY <1>1, <2>3 DEF SearchBarSearchButtonClicked, ListInvariant
    <3>2. tableRows' = tableRows
      BY <1>1, <2>3, <3>1 DEF SearchBarSearchButtonClicked, ListInvariant, RowsBacked
    <3>3. filteredBorrowers' = filteredBorrowers /\ borrowers' = borrowers
      BY <2>3 DEF SearchBarSearchButtonClicked
    <3>4. BorrowerOfRow(i)' = BorrowerOfRow(i)
      BY <3>1, <3>3, Zenon DEF BorrowerOfRow
    <3> QED
      BY <2>0, <3>2, <3>3, <3>4 DEF CellForRowAt
  <2>4. ASSUME NEW row \in 1..MaxBorrowers, DidSelectRowAt(row) PROVE Kept(i)
    BY <2>0, <2>4 DEF DidSelectRowAt, Select, CellForRowAt, BorrowerOfRow
  <2>5. CASE Back
    BY <2>0, <2>5 DEF Back, CellForRowAt, BorrowerOfRow
  <2> QED
    BY <2>1, <2>2, <2>3, <2>4, <2>5 DEF Next
<1>2. Spec => [][Stable]_vars
  BY <1>1, Invariance, PTL DEF Spec
<1> QED
  BY <1>2 DEF RowsStable

-----------------------------------------------------------------------------
(* The payment form.                                                       *)

\* The day in UTC is a day number.
LEMMA UTCDayType == \A d \in Day, m \in TimeOfDay : UTCDay(d, m) \in Int
BY TimeAssumption, DayAssumption DEF UTCDay

\* The UTC day follows the local moment, and is at most a day from its day.
LEMMA UTCDayOrder ==
  ASSUME NEW c \in Day, NEW d \in Day, NEW l \in TimeOfDay, NEW m \in TimeOfDay
  PROVE  /\ c < d => UTCDay(c, l) <= UTCDay(d, m)
         /\ UTCDay(d, m) - d \in IF Offset > 0 THEN {-1, 0} ELSE {0, 1}
<1>1. /\ Offset \in (-720)..840 /\ c \in Int /\ d \in Int
      /\ l \in 0..1439 /\ m \in 0..1439
  BY DayAssumption, TimeAssumption
<1>2. UTCDay(d, m) = d + ((m - Offset) \div 1440) /\ UTCDay(c, l) = c + ((l - Offset) \div 1440)
  BY <1>1 DEF UTCDay
<1> DEFINE u == (m - Offset) \div 1440
           v == (l - Offset) \div 1440
<1>3. /\ u \in {-1, 0, 1}
      /\ Offset > 0 => u \in {-1, 0}
      /\ ~(Offset > 0) => u \in {0, 1}
  BY <1>1
<1>4. /\ v \in {-1, 0, 1}
      /\ Offset > 0 => v \in {-1, 0}
      /\ ~(Offset > 0) => v \in {0, 1}
  BY <1>1
<1>5. UTCDay(d, m) = d + u /\ UTCDay(c, l) = c + v
  BY <1>2
<1> HIDE DEF u, v
<1>6. c < d => UTCDay(c, l) <= UTCDay(d, m)
  <2> SUFFICES ASSUME c < d PROVE c + v <= d + u
    BY <1>5
  <2>1. v <= u + 1
    BY <1>3, <1>4
  <2> QED
    BY <1>1, <1>3, <1>4, <2>1
<1>7. UTCDay(d, m) - d = u
  BY <1>1, <1>3, <1>4, <1>5
<1> QED
  BY <1>3, <1>4, <1>6, <1>7

\* FormTypeOK in two parts: what is on screen and what was sent.
FormOK ==
  /\ screen \in {"BorrowersTVC", "BorrowerVC", "PaymentsTVC"}
  /\ paymentTextfield \in Amount \cup {""}
  /\ pickerDay \in Day
  /\ pickerTime \in TimeOfDay
  /\ dateDisplayed \in Int \cup {NoDate}

LogOK == sent \in Seq(Payment) /\ taps \in Seq(Tap) /\ Len(taps) <= MaxTaps

\* The inductive invariant.
FormIInv == FormOK /\ LogOK /\ DateFollowsPicker /\ OnePaymentPerTap

\* A form not yet opened satisfies the inductive invariant.
LEMMA FormInitInv == FormInit => FormIInv
<1> SUFFICES ASSUME FormInit PROVE FormIInv
  OBVIOUS
<1>1. <<>> \in Seq(Payment) /\ <<>> \in Seq(Tap) /\ Len(<<>>) = 0
  BY EmptySeq
<1>2. FormOK /\ LogOK
  <2>1. 0 <= MaxTaps
    BY TimeAssumption
  <2>2. FormOK
    BY DayAssumption DEF FormInit, FormOK
  <2> QED
    BY <1>1, <2>1, <2>2 DEF FormInit, LogOK
<1>3. DateFollowsPicker
  BY DEF FormInit, DateFollowsPicker
<1>4. OnePaymentPerTap
  <2>1. sent = <<>> /\ Len(sent) = 0
    BY <1>1 DEF FormInit
  <2>2. 1..Len(sent) = {}
    BY <2>1
  <2> QED
    BY <2>2 DEF OnePaymentPerTap
<1> QED
  BY <1>2, <1>3, <1>4 DEF FormIInv

\* A tap of Add Payment adds one tap and at most one payment, for that tap.
LEMMA AddPaymentIInv ==
  ASSUME FormIInv, AddPaymentButtonTapped
  PROVE  FormIInv'
<1> DEFINE n == Len(taps)
           m == Len(sent)
           t == [amount |-> paymentTextfield, day |-> pickerDay, time |-> pickerTime]
           p == ThisPayment
<1>1. /\ taps \in Seq(Tap) /\ n \in Nat /\ n < MaxTaps /\ MaxTaps \in Nat
      /\ sent \in Seq(Payment) /\ m \in Nat
  <2>1. taps \in Seq(Tap) /\ sent \in Seq(Payment)
    BY DEF FormIInv, LogOK
  <2>2. n < MaxTaps
    BY DEF AddPaymentButtonTapped, AddPayment
  <2>3. n \in Nat /\ m \in Nat
    BY <2>1, LenProperties
  <2> QED
    BY <2>1, <2>2, <2>3, TimeAssumption
<1>2. paymentTextfield \in Amount /\ pickerDay \in Day /\ pickerTime \in TimeOfDay
  BY DEF FormIInv, FormOK, AddPaymentButtonTapped
<1>3. t \in Tap /\ t.amount = paymentTextfield /\ t.day = pickerDay /\ t.time = pickerTime
  BY <1>2 DEF Tap
<1>4. taps' = Append(taps, t)
  BY DEF AddPaymentButtonTapped, AddPayment
<1> HIDE DEF t
<1>5. /\ taps' \in Seq(Tap) /\ Len(taps') = n + 1
      /\ \A i \in 1..n : taps'[i] = taps[i]
      /\ taps'[n + 1] = t
  BY <1>1, <1>3, <1>4, AppendProperties
<1>6. UNCHANGED <<paymentTextfield, pickerDay, pickerTime, dateDisplayed>> /\ screen' = "PaymentsTVC"
  BY DEF AddPaymentButtonTapped, AddPayment
<1>7. DateFollowsPicker'
  BY <1>6 DEF FormIInv, DateFollowsPicker, UTCDay
<1>7a. FormOK'
  BY <1>6 DEF FormIInv, FormOK
<1>7b. Len(taps') <= MaxTaps
  BY <1>1, <1>5
<1>8. \A i \in 1..m : sent[i].tap \in 1..n
  <2>1. \A i \in 1..m : sent[i] \in Payment /\ sent[i].tap <= n
    BY <1>1, ElementOfSeq DEF FormIInv, OnePaymentPerTap
  <2> QED
    BY <1>1, <2>1 DEF Payment
<1>9. CASE dateDisplayed = NoDate
  <2>1. sent' = sent
    BY <1>9 DEF AddPaymentButtonTapped, AddPayment, SendPaymentsToDatabase
  <2>2. LogOK'
    BY <1>1, <1>5, <1>7b, <2>1 DEF LogOK
  <2>3. OnePaymentPerTap'
    BY <1>1, <1>5, <1>8, <2>1 DEF FormIInv, OnePaymentPerTap, UTCDay
  <2> QED
    BY <1>7, <1>7a, <2>2, <2>3 DEF FormIInv
<1>10. CASE dateDisplayed # NoDate
  <2>1. sent' = Append(sent, p)
    BY <1>10 DEF AddPaymentButtonTapped, AddPayment, SendPaymentsToDatabase
  <2>2. dateDisplayed = UTCDay(pickerDay, pickerTime) /\ dateDisplayed \in Int
    BY <1>2, <1>10, UTCDayType DEF FormIInv, DateFollowsPicker
  <2>3. n + 1 \in 1..MaxTaps
    BY <1>1
  <2>4. /\ p \in Payment /\ p.amount = t.amount /\ p.date = UTCDay(t.day, t.time)
        /\ p.tap = n + 1
    BY <1>2, <1>3, <2>2, <2>3 DEF ThisPayment, Payment
  <2> HIDE DEF p
  <2>5. /\ sent' \in Seq(Payment) /\ Len(sent') = m + 1
        /\ \A i \in 1..m : sent'[i] = sent[i]
        /\ sent'[m + 1] = p
    BY <1>1, <2>1, <2>4, AppendProperties
  <2>6. LogOK'
    BY <1>5, <1>7b, <2>5 DEF LogOK
  <2>7. ASSUME NEW i \in 1..Len(sent')
        PROVE  /\ sent'[i].tap <= Len(taps')
               /\ sent'[i].amount = taps'[sent'[i].tap].amount
               /\ sent'[i].date = UTCDay(taps'[sent'[i].tap].day, taps'[sent'[i].tap].time)
    <3>1. CASE i \in 1..m
      <4>1. sent'[i] = sent[i] /\ taps'[sent[i].tap] = taps[sent[i].tap] /\ sent[i].tap <= n + 1
        BY <1>1, <1>5, <1>8, <2>5, <3>1
      <4> QED
        BY <1>5, <3>1, <4>1 DEF FormIInv, OnePaymentPerTap
    <3>2. CASE i = m + 1
      BY <1>1, <1>5, <2>4, <2>5, <3>2
    <3> QED
      BY <1>1, <2>5, <3>1, <3>2
  <2>8. ASSUME NEW i \in 1..Len(sent'), NEW j \in 1..Len(sent'), i < j
        PROVE  sent'[i].tap < sent'[j].tap
    <3>1. i \in 1..m /\ sent'[i] = sent[i]
      BY <1>1, <2>5, <2>8
    <3>2. CASE j \in 1..m
      BY <2>5, <2>8, <3>1, <3>2 DEF FormIInv, OnePaymentPerTap
    <3>3. CASE j = m + 1
      BY <1>1, <1>8, <2>4, <2>5, <3>1, <3>3
    <3> QED
      BY <1>1, <2>5, <3>2, <3>3
  <2>9. OnePaymentPerTap'
    BY <2>7, <2>8 DEF OnePaymentPerTap, UTCDay
  <2> QED
    BY <1>7, <1>7a, <2>6, <2>9 DEF FormIInv
<1> QED
  BY <1>9, <1>10

\* Every other action leaves what was sent alone.
LEMMA LogUnchanged ==
  ASSUME FormIInv, UNCHANGED <<sent, taps>>
  PROVE  LogOK' /\ OnePaymentPerTap'
BY DEF FormIInv, LogOK, OnePaymentPerTap, UTCDay

\* Every handler of the form keeps the inductive invariant.
LEMMA FormNextInv == FormIInv /\ [FormNext]_formVars => FormIInv'
<1> SUFFICES ASSUME FormIInv, [FormNext]_formVars PROVE FormIInv'
  OBVIOUS
<1>1. CASE \E d \in Day, m \in TimeOfDay : OpenBorrower(d, m)
  <2>1. FormOK' /\ DateFollowsPicker' /\ UNCHANGED <<sent, taps>>
    BY <1>1 DEF FormIInv, OpenBorrower, FormOK, DateFollowsPicker
  <2> QED
    BY <2>1, LogUnchanged DEF FormIInv
<1>2. CASE \E a \in Amount \cup {""} : EditAmount(a)
  <2>1. FormOK' /\ UNCHANGED <<sent, taps, pickerDay, pickerTime, dateDisplayed>>
    BY <1>2 DEF FormIInv, EditAmount, FormOK
  <2>2. DateFollowsPicker'
    BY <2>1 DEF FormIInv, DateFollowsPicker, UTCDay
  <2> QED
    BY <2>1, <2>2, LogUnchanged DEF FormIInv
<1>3. CASE \E d \in Day : PickedDateOfPayment(d)
  <2>1. PICK d \in Day : PickedDateOfPayment(d)
    BY <1>3
  <2>2. UTCDay(d, pickerTime) \in Int
    BY UTCDayType DEF FormIInv, FormOK
  <2>3. FormOK' /\ UNCHANGED <<sent, taps>>
    BY <2>1, <2>2 DEF FormIInv, PickedDateOfPayment, FormOK
  <2>4. DateFollowsPicker'
    BY <2>1 DEF PickedDateOfPayment, DateFollowsPicker, UTCDay
  <2> QED
    BY <2>3, <2>4, LogUnchanged DEF FormIInv
<1>4. CASE AddPaymentButtonTapped
  BY <1>4, AddPaymentIInv
<1>5. CASE PaymentsFolderButtonTapped \/ BackFromForm \/ UNCHANGED formVars
  <2>1. FormOK' /\ UNCHANGED <<sent, taps, pickerDay, pickerTime, dateDisplayed>>
    BY <1>5 DEF FormIInv, FormOK, PaymentsFolderButtonTapped, BackFromForm, formVars
  <2>2. DateFollowsPicker'
    BY <2>1 DEF FormIInv, DateFollowsPicker, UTCDay
  <2> QED
    BY <2>1, <2>2, LogUnchanged DEF FormIInv
<1> QED
  BY <1>1, <1>2, <1>3, <1>4, <1>5 DEF FormNext

\* The inductive invariant of the form holds in every behaviour.
THEOREM FormIInvariance == FormSpec => []FormIInv
<1>1. FormInit => FormIInv
  BY FormInitInv
<1>2. FormIInv /\ [FormNext]_formVars => FormIInv'
  BY FormNextInv
<1> QED
  BY <1>1, <1>2, PTL DEF FormSpec

\* The form's dates are never stale and its payments never mixed up.
THEOREM FormInvariance == FormSpec => []FormInvariant
<1>1. FormIInv => FormInvariant
  BY DEF FormIInv, FormOK, LogOK, FormTypeOK, FormInvariant
<1> QED
  BY <1>1, FormIInvariance, PTL

\* The type invariant of the form.
THEOREM FormTypeCorrect == FormSpec => []FormTypeOK
<1>1. FormIInv => FormTypeOK
  BY DEF FormIInv, FormOK, LogOK, FormTypeOK
<1> QED
  BY <1>1, FormIInvariance, PTL

\* dateDisplayed is nil or belongs to the day on screen.
THEOREM DateNeverStale == FormSpec => []DateFollowsPicker
<1>1. FormIInv => DateFollowsPicker
  BY DEF FormIInv
<1> QED
  BY <1>1, FormIInvariance, PTL

\* Every payment sent is the payment of one tap of Add Payment.
THEOREM PaymentsComeFromTaps == FormSpec => []OnePaymentPerTap
<1>1. FormIInv => OnePaymentPerTap
  BY DEF FormIInv
<1> QED
  BY <1>1, FormIInvariance, PTL

\* In every time zone, and whenever the forms were opened, the stored dates
\* keep the order of the days the user saw and are at most a day off.
THEOREM DatesAlwaysKeepOrder == FormSpec => []DatesKeepOrder
<1>1. FormIInv => DatesKeepOrder
  <2> SUFFICES ASSUME FormIInv PROVE DatesKeepOrder
    OBVIOUS
  <2>1. sent \in Seq(Payment) /\ taps \in Seq(Tap) /\ Len(taps) \in Nat
    BY LenProperties DEF FormIInv, LogOK
  <2>2. ASSUME NEW i \in 1..Len(sent)
        PROVE  \E d \in Day, m \in TimeOfDay : DayShown(i) = d /\ sent[i].date = UTCDay(d, m)
    <3> DEFINE t == taps[sent[i].tap]
    <3>1. sent[i] \in Payment
      BY <2>1, ElementOfSeq
    <3>2. sent[i].tap \in 1..Len(taps)
      BY <2>1, <3>1, TimeAssumption DEF FormIInv, OnePaymentPerTap, Payment
    <3>3. t \in Tap
      BY <2>1, <3>2, ElementOfSeq
    <3>4. DayShown(i) = t.day /\ sent[i].date = UTCDay(t.day, t.time)
      BY DEF DayShown, FormIInv, OnePaymentPerTap
    <3> HIDE DEF t
    <3>5. t.day \in Day /\ t.time \in TimeOfDay
      BY <3>3 DEF Tap
    <3> QED
      BY <3>4, <3>5
  <2>3. ASSUME NEW i \in 1..Len(sent), NEW j \in 1..Len(sent), DayShown(i) < DayShown(j)
        PROVE  sent[i].date <= sent[j].date
    <3>1. PICK c \in Day, l \in TimeOfDay : DayShown(i) = c /\ sent[i].date = UTCDay(c, l)
      BY <2>2
    <3>2. PICK d \in Day, m \in TimeOfDay : DayShown(j) = d /\ sent[j].date = UTCDay(d, m)
      BY <2>2
    <3>3. UTCDay(c, l) <= UTCDay(d, m)
      BY <2>3, <3>1, <3>2, UTCDayOrder
    <3> QED
      BY <3>1, <3>2, <3>3
  <2>4. ASSUME NEW i \in 1..Len(sent)
        PROVE  sent[i].date - DayShown(i) \in IF Offset > 0 THEN {-1, 0} ELSE {0, 1}
    <3>1. PICK d \in Day, m \in TimeOfDay : DayShown(i) = d /\ sent[i].date = UTCDay(d, m)
      BY <2>2
    <3>2. UTCDay(d, m) - d \in IF Offset > 0 THEN {-1, 0} ELSE {0, 1}
      BY UTCDayOrder
    <3> QED
      BY <3>1, <3>2
  <2> QED
    BY <2>3, <2>4 DEF DatesKeepOrder
<1> QED
  BY <1>1, FormIInvariance, PTL
=============================================================================
