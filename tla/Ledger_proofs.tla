--------------------------- MODULE Ledger_proofs ---------------------------
(***************************************************************************)
(* Proofs about the ledger, for every set of devices, every set of names,  *)
(* however a name splits at its slashes, and any number of writes.         *)
(*                                                                         *)
(* What a table shows depends on four things: the writes, the log, the     *)
(* keys this device has to account for, and the table itself. TableOK says *)
(* how they fit together, of values and not of variables, so that the      *)
(* lemmas about it serve the states before and after a step alike.         *)
(***************************************************************************)
EXTENDS Ledger, SequenceTheorems, FiniteSetTheorems, TLAPS

-----------------------------------------------------------------------------
(* The inductive invariant. *)

Write == [node : {BorrowersNode} \cup {PaymentsNode(n) : n \in Name}, name : Name]

Injective(s) == \A i, j \in 1..Len(s) : s[i] = s[j] => i = j

\* The nodes of the payments of borrowers that were written.
PaymentNodes(ws) == {PaymentsNode(ws[i].name) : i \in 1..Len(ws)}

\* A payment is stored under the name it is for.
WritesOK ==
  /\ writes \in Seq(Write)
  /\ Len(writes) <= MaxWrites
  /\ \A k \in 1..Len(writes) :
       writes[k].node = BorrowersNode \/ writes[k].node = PaymentsNode(writes[k].name)

LogOK ==
  /\ log \in Seq(1..Len(writes))
  /\ Injective(log)
  /\ refused \subseteq 1..Len(writes)
  /\ Elems(log) \cap refused = {}

\* A key waits on one device, in one place, and is not refused yet.
PendingOK ==
  /\ pending \in [Device -> Seq(1..Len(writes))]
  /\ \A d \in Device :
       /\ Injective(pending[d])
       /\ Elems(pending[d]) \cap refused = {}
       /\ \A e \in Device : d # e => Elems(pending[d]) \cap Elems(pending[e]) = {}

\* The nodes screen s may observe.
NodesOf(s, ws) == IF s = "BorrowersTVC" THEN {BorrowersNode} ELSE PaymentNodes(ws)

\* Table t of screen s is right about writes ws and log lg, on a device that
\* knows the keys in known, those in gone as refused: what it shows is what
\* its observer still sees, or was taken back.
TableOK(t, s, ws, lg, known, gone) ==
  /\ t \in [node : {t.node}, upto : 0..Len(lg), view : {t.view}, rows : Seq(1..Len(ws))]
  /\ t = Closed \/ t.node \in NodesOf(s, ws)
  /\ Injective(t.rows)
  /\ t.view \subseteq Elems(t.rows) /\ Elems(t.rows) \subseteq t.view \cup gone
  /\ \A k \in Elems(t.rows) : ws[k].node = t.node /\ k \in known
  /\ \A i \in 1..t.upto : ws[lg[i]].node = t.node => lg[i] \in Elems(t.rows)

\* The keys of device d that are stored, wait or were refused.
Known(d) == Elems(log) \cup Elems(pending[d]) \cup refused

TablesOK ==
  /\ tables \in [Device -> [Screen -> Table]]
  /\ \A d \in Device, s \in Screen : TableOK(tables[d][s], s, writes, log, Known(d), refused)

LeftOK == left \in [Device -> SUBSET PaymentNodes(writes)]

CrashedOK == crashed \in [Device -> {"no", "yes"}] /\ TrapsOnlyOnPathNames

IInv == WritesOK /\ LogOK /\ PendingOK /\ TablesOK /\ LeftOK /\ CrashedOK

-----------------------------------------------------------------------------
(* Nodes. *)

\* The components of paths.
Segment == STRING \cup {"Payments"}

\* A payments node is "Payments" and then the components of the name.
LEMMA PaymentsNodeShape ==
  ASSUME NEW n \in Name
  PROVE  /\ Components[n] \in Seq(Segment)
         /\ PaymentsNode(n) \in Seq(Segment)
         /\ Len(PaymentsNode(n)) = 1 + Len(Components[n])
         /\ PaymentsNode(n)[1] = "Payments"
         /\ \A i \in 1..Len(Components[n]) : PaymentsNode(n)[i + 1] = Components[n][i]
<1>1. Components[n] \in Seq(Segment) /\ Len(Components[n]) \in Nat
  BY NameAssumption, SeqMonotonic, LenProperties DEF Segment
<1>2. <<"Payments">> \in Seq(Segment) /\ Len(<<"Payments">>) = 1 /\ <<"Payments">>[1] = "Payments"
  BY DEF Segment
<1>3. /\ PaymentsNode(n) \in Seq(Segment)
      /\ Len(PaymentsNode(n)) = 1 + Len(Components[n])
      /\ \A i \in 1..(1 + Len(Components[n])) :
           PaymentsNode(n)[i] = IF i <= 1 THEN <<"Payments">>[i] ELSE Components[n][i - 1]
  BY <1>1, <1>2, ConcatProperties DEF PaymentsNode
<1>4. PaymentsNode(n)[1] = "Payments"
  BY <1>1, <1>2, <1>3
<1>5. ASSUME NEW i \in 1..Len(Components[n])
      PROVE  PaymentsNode(n)[i + 1] = Components[n][i]
  <2>1. i + 1 \in 1..(1 + Len(Components[n])) /\ ~(i + 1 <= 1) /\ (i + 1) - 1 = i
    BY <1>1
  <2> QED
    BY <1>3, <2>1
<1> QED
  BY <1>1, <1>3, <1>4, <1>5

\* No node lies below the borrowers: a payment's path starts differently.
LEMMA NothingBelowBorrowers ==
  ASSUME NEW n \in Name
  PROVE  /\ ~Below(BorrowersNode, PaymentsNode(n))
         /\ ~Below(BorrowersNode, BorrowersNode)
         /\ ~Below(PaymentsNode(n), BorrowersNode)
<1>1. Len(BorrowersNode) = 1 /\ BorrowersNode[1] = "Borrowers"
  BY DEF BorrowersNode
<1>2. ~Below(BorrowersNode, BorrowersNode)
  BY <1>1 DEF Below
<1>3. ~Below(PaymentsNode(n), BorrowersNode)
  <2>1. Len(PaymentsNode(n)) >= 1
    BY PaymentsNodeShape, LenProperties
  <2> QED
    BY <1>1, <2>1 DEF Below
<1>4. ~Below(BorrowersNode, PaymentsNode(n))
  <2> SUFFICES ASSUME Below(BorrowersNode, PaymentsNode(n)) PROVE FALSE
    OBVIOUS
  <2>1. SubSeq(PaymentsNode(n), 1, 1) = BorrowersNode
    BY <1>1 DEF Below
  <2>2. SubSeq(PaymentsNode(n), 1, 1)[1] = "Payments"
    BY PaymentsNodeShape, LenProperties
  <2> QED
    BY <1>1, <2>1, <2>2
<1> QED
  BY <1>2, <1>3, <1>4

\* One payments node lies below another only if the names do, as paths.
LEMMA BelowPayments ==
  ASSUME NEW a \in Name, NEW b \in Name, Below(PaymentsNode(a), PaymentsNode(b))
  PROVE  Below(Components[a], Components[b])
<1> DEFINE p == PaymentsNode(a)
           q == PaymentsNode(b)
           x == Components[a]
           y == Components[b]
<1>1. /\ x \in Seq(Segment) /\ y \in Seq(Segment) /\ Len(x) \in Nat /\ Len(y) \in Nat
      /\ p \in Seq(Segment) /\ q \in Seq(Segment)
      /\ Len(p) = 1 + Len(x) /\ Len(q) = 1 + Len(y)
      /\ \A i \in 1..Len(x) : p[i + 1] = x[i]
      /\ \A i \in 1..Len(y) : q[i + 1] = y[i]
  BY PaymentsNodeShape, LenProperties
<1>2. Len(p) < Len(q) /\ SubSeq(q, 1, Len(p)) = p
  BY DEF Below
<1> HIDE DEF p, q, x, y
<1>3. \A i \in 1..Len(p) : q[i] = p[i]
  BY <1>1, <1>2, SubSeqProperties
<1>4. Len(x) < Len(y)
  BY <1>1, <1>2
<1>5. SubSeq(y, 1, Len(x)) \in Seq(Segment) /\ Len(SubSeq(y, 1, Len(x))) = Len(x)
  BY <1>1, <1>4, SubSeqProperties
<1>6. \A i \in 1..Len(x) : SubSeq(y, 1, Len(x))[i] = x[i]
  <2> TAKE i \in 1..Len(x)
  <2>1. SubSeq(y, 1, Len(x))[i] = y[i]
    BY <1>1, <1>4, SubSeqProperties
  <2>2. y[i] = q[i + 1] /\ x[i] = p[i + 1]
    BY <1>1, <1>4
  <2>3. q[i + 1] = p[i + 1]
    BY <1>1, <1>3
  <2> QED
    BY <2>1, <2>2, <2>3
<1>7. SubSeq(y, 1, Len(x)) = x
  BY <1>1, <1>5, <1>6, SeqEqual
<1> QED
  BY <1>4, <1>7 DEF Below, x, y

-----------------------------------------------------------------------------
(* Tables. *)

\* s is the start of t.
StartOf(s, t) == Len(s) <= Len(t) /\ \A i \in 1..Len(s) : t[i] = s[i]

\* The elements of a sequence with one more at its end.
LEMMA ElemsAppend ==
  ASSUME NEW S, NEW s \in Seq(S), NEW x \in S
  PROVE  /\ Append(s, x) \in Seq(S)
         /\ Elems(Append(s, x)) = Elems(s) \cup {x}
         /\ StartOf(s, Append(s, x))
         /\ x \notin Elems(s) /\ Injective(s) => Injective(Append(s, x))
<1>1. /\ Append(s, x) \in Seq(S) /\ Len(s) \in Nat /\ Len(Append(s, x)) = Len(s) + 1
      /\ \A i \in 1..Len(s) : Append(s, x)[i] = s[i]
      /\ Append(s, x)[Len(s) + 1] = x
  BY AppendProperties, LenProperties
<1> DEFINE t == Append(s, x)
<1> HIDE DEF t
<1>2. /\ t \in Seq(S) /\ Len(s) \in Nat /\ Len(t) = Len(s) + 1
      /\ \A i \in 1..Len(s) : t[i] = s[i]
      /\ t[Len(s) + 1] = x
  BY <1>1 DEF t
<1>3. Elems(t) = Elems(s) \cup {x}
  BY <1>2 DEF Elems
<1>4. StartOf(s, t)
  BY <1>2 DEF StartOf
<1>5. ASSUME x \notin Elems(s), Injective(s) PROVE Injective(t)
  BY <1>2, <1>5 DEF Elems, Injective
<1> QED
  BY <1>2, <1>3, <1>4, <1>5 DEF t

\* Without its head a sequence without repetitions has all its other elements.
LEMMA ElemsTail ==
  ASSUME NEW S, NEW s \in Seq(S), s # <<>>
  PROVE  /\ Tail(s) \in Seq(S) /\ Head(s) \in S
         /\ Elems(s) = Elems(Tail(s)) \cup {Head(s)}
         /\ Injective(s) => Injective(Tail(s)) /\ Head(s) \notin Elems(Tail(s))
<1> DEFINE t == Tail(s)
<1>1. /\ t \in Seq(S) /\ Head(s) \in S /\ Len(t) = Len(s) - 1
      /\ \A i \in 1..Len(t) : t[i] = s[i + 1]
  BY HeadTailProperties
<1>2. Len(s) \in Nat /\ Len(s) # 0 /\ Head(s) = s[1]
  BY LenProperties, EmptySeq
<1> HIDE DEF t
<1>3. Elems(s) = Elems(t) \cup {Head(s)}
  <2>1. ASSUME NEW i \in 1..Len(s) PROVE s[i] \in Elems(t) \cup {Head(s)}
    <3>1. CASE i = 1
      BY <1>2, <3>1
    <3>2. CASE i # 1
      <4>1. i - 1 \in 1..Len(t) /\ (i - 1) + 1 = i
        BY <1>1, <1>2, <3>2
      <4> QED
        BY <1>1, <4>1 DEF Elems
    <3> QED
      BY <3>1, <3>2
  <2>2. ASSUME NEW i \in 1..Len(t) PROVE t[i] \in Elems(s)
    BY <1>1, <1>2 DEF Elems
  <2>3. Head(s) \in Elems(s)
    BY <1>2 DEF Elems
  <2> QED
    BY <2>1, <2>2, <2>3 DEF Elems
<1>4. ASSUME Injective(s) PROVE Injective(t) /\ Head(s) \notin Elems(t)
  <2>1. ASSUME NEW i \in 1..Len(t), NEW j \in 1..Len(t), t[i] = t[j] PROVE i = j
    <3>1. i + 1 \in 1..Len(s) /\ j + 1 \in 1..Len(s) /\ s[i + 1] = s[j + 1]
      BY <1>1, <1>2, <2>1
    <3>2. i + 1 = j + 1
      BY <1>4, <3>1 DEF Injective
    <3> QED
      BY <3>2
  <2>2. ASSUME NEW i \in 1..Len(t), t[i] = Head(s) PROVE FALSE
    <3>1. i + 1 \in 1..Len(s) /\ 1 \in 1..Len(s) /\ s[i + 1] = s[1]
      BY <1>1, <1>2, <2>2
    <3>2. i + 1 = 1
      BY <1>4, <3>1 DEF Injective
    <3> QED
      BY <3>2
  <2> QED
    BY <2>1, <2>2 DEF Injective, Elems
<1> QED
  BY <1>1, <1>3, <1>4 DEF t

\* Every write has a name.
LEMMA NamesOfWrites ==
  ASSUME NEW ws \in Seq(Write), NEW i \in 1..Len(ws)
  PROVE  ws[i].name \in Name
<1>1. ws[i] \in Write
  BY ElementOfSeq
<1> QED
  BY <1>1 DEF Write

\* Payment nodes stay payment nodes when there are more writes.
LEMMA NodesGrow ==
  ASSUME NEW ws \in Seq(Write), NEW ws2 \in Seq(Write), StartOf(ws, ws2), NEW s
  PROVE  /\ PaymentNodes(ws) \subseteq PaymentNodes(ws2)
         /\ NodesOf(s, ws) \subseteq NodesOf(s, ws2)
<1>1. Len(ws) \in Nat /\ Len(ws2) \in Nat /\ Len(ws) <= Len(ws2)
  BY LenProperties DEF StartOf
<1>2. ASSUME NEW i \in 1..Len(ws) PROVE PaymentsNode(ws[i].name) \in PaymentNodes(ws2)
  <2>1. i \in 1..Len(ws2) /\ ws2[i] = ws[i]
    BY <1>1 DEF StartOf
  <2> QED
    BY <2>1 DEF PaymentNodes
<1>3. PaymentNodes(ws) \subseteq PaymentNodes(ws2)
  BY <1>2 DEF PaymentNodes
<1> QED
  BY <1>3 DEF NodesOf

\* A table stays right while writes and log grow at their ends and its device
\* forgets no key.
LEMMA TableGrows ==
  ASSUME NEW t, NEW s, NEW known, NEW known2, NEW gone, NEW gone2,
         NEW ws \in Seq(Write), NEW ws2 \in Seq(Write), StartOf(ws, ws2),
         NEW lg \in Seq(1..Len(ws)), NEW lg2 \in Seq(1..Len(ws2)), StartOf(lg, lg2),
         known \subseteq known2, gone \subseteq gone2,
         TableOK(t, s, ws, lg, known, gone)
  PROVE  TableOK(t, s, ws2, lg2, known2, gone2)
<1>1. /\ Len(ws) \in Nat /\ Len(ws2) \in Nat /\ Len(lg) \in Nat /\ Len(lg2) \in Nat
      /\ Len(ws) <= Len(ws2) /\ Len(lg) <= Len(lg2)
  BY LenProperties DEF StartOf
<1>2. /\ t \in [node : {t.node}, upto : 0..Len(lg), view : {t.view}, rows : Seq(1..Len(ws))]
      /\ t = Closed \/ t.node \in NodesOf(s, ws)
      /\ Injective(t.rows)
      /\ t.view \subseteq Elems(t.rows) /\ Elems(t.rows) \subseteq t.view \cup gone2
      /\ \A k \in Elems(t.rows) : ws[k].node = t.node /\ k \in known
      /\ \A i \in 1..t.upto : ws[lg[i]].node = t.node => lg[i] \in Elems(t.rows)
  BY DEF TableOK
<1>3. t.upto \in 0..Len(lg) /\ t.rows \in Seq(1..Len(ws)) /\ t.upto \in 0..Len(lg2)
  BY <1>1, <1>2
<1>4. t.rows \in Seq(1..Len(ws2))
  <2>1. 1..Len(ws) \subseteq 1..Len(ws2)
    BY <1>1
  <2> QED
    BY <1>3, <2>1, SeqMonotonic
<1>5. t \in [node : {t.node}, upto : 0..Len(lg2), view : {t.view}, rows : Seq(1..Len(ws2))]
  BY <1>2, <1>3, <1>4
<1>6. t = Closed \/ t.node \in NodesOf(s, ws2)
  BY <1>2, NodesGrow
<1>7. ASSUME NEW k \in Elems(t.rows) PROVE ws2[k].node = t.node /\ k \in known2
  <2>1. k \in 1..Len(ws)
    BY <1>3, ElementOfSeq DEF Elems
  <2>2. ws2[k] = ws[k]
    BY <2>1 DEF StartOf
  <2> QED
    BY <1>2, <2>2
<1>8. ASSUME NEW i \in 1..t.upto, ws2[lg2[i]].node = t.node PROVE lg2[i] \in Elems(t.rows)
  <2>1. i \in 1..Len(lg)
    BY <1>1, <1>3
  <2>2. lg2[i] = lg[i] /\ lg[i] \in 1..Len(ws)
    BY <2>1, ElementOfSeq DEF StartOf
  <2>3. ws2[lg[i]] = ws[lg[i]]
    BY <2>2 DEF StartOf
  <2> QED
    BY <1>2, <1>8, <2>2, <2>3
<1> QED
  BY <1>2, <1>5, <1>6, <1>7, <1>8 DEF TableOK

\* A closed table shows nothing.
LEMMA ClosedOK ==
  ASSUME NEW s, NEW ws \in Seq(Write), NEW lg \in Seq(1..Len(ws)), NEW known, NEW gone
  PROVE  TableOK(Closed, s, ws, lg, known, gone)
<1>1. Len(<<>>) = 0 /\ <<>> \in Seq(1..Len(ws)) /\ Len(lg) \in Nat
  BY EmptySeq, LenProperties
<1>2. /\ Closed.rows = <<>> /\ Closed.upto = 0 /\ Closed.view = {}
      /\ Closed \in [node : {Closed.node}, upto : 0..Len(lg), view : {Closed.view}, rows : Seq(1..Len(ws))]
  BY <1>1 DEF Closed
<1>3. 1..Len(Closed.rows) = {} /\ 1..Closed.upto = {}
  BY <1>1, <1>2
<1> QED
  BY <1>2, <1>3 DEF TableOK, Injective, Elems

\* What an observer is told at once: keys of its node, each once.
LEMMA SelectedOK ==
  ASSUME NEW S, NEW keys \in Seq(S), NEW node, NEW ws, Injective(keys),
         NEW rows \in Selected(node, keys, ws)
  PROVE  /\ rows \in Seq(S) /\ Injective(rows)
         /\ \A k \in Elems(rows) : k \in Elems(keys) /\ ws[k].node = node
<1> DEFINE own == {i \in 1..Len(keys) : ws[keys[i]].node = node}
           n == Cardinality(own)
<1>1. n \in Nat /\ Len(keys) \in Nat
  <2>1. Len(keys) \in Nat
    BY LenProperties
  <2>2. IsFiniteSet(1..Len(keys))
    BY <2>1, FS_Interval
  <2>3. IsFiniteSet(own)
    BY <2>2, FS_Subset
  <2> QED
    BY <2>1, <2>3, FS_CardinalityType
<1>2. PICK p \in [1..n -> own] :
        /\ \A i, j \in 1..n : i < j => p[i] < p[j]
        /\ rows = [i \in 1..n |-> keys[p[i]]]
  BY DEF Selected
<1>3. \A i \in 1..n : p[i] \in 1..Len(keys) /\ keys[p[i]] \in S /\ ws[keys[p[i]]].node = node
  BY <1>2, ElementOfSeq
<1> HIDE DEF n, own
<1>4. rows \in Seq(S) /\ Len(rows) = n
  BY <1>1, <1>2, <1>3
<1>5. ASSUME NEW i \in 1..n, NEW j \in 1..n, rows[i] = rows[j] PROVE i = j
  <2>1. keys[p[i]] = keys[p[j]]
    BY <1>2, <1>5
  <2>2. p[i] = p[j]
    BY <1>3, <2>1 DEF Injective
  <2> QED
    BY <1>1, <1>2, <1>3, <2>2
<1>6. ASSUME NEW k \in Elems(rows) PROVE k \in Elems(keys) /\ ws[k].node = node
  <2>1. PICK i \in 1..n : k = rows[i]
    BY <1>4 DEF Elems
  <2>2. k = keys[p[i]]
    BY <1>2, <2>1
  <2> QED
    BY <1>3, <2>2 DEF Elems
<1> QED
  BY <1>4, <1>5, <1>6 DEF Injective

\* A table is right when it is opened.
LEMMA ObserveOK ==
  ASSUME NEW s, NEW ws \in Seq(Write), NEW lg \in Seq(1..Len(ws)), NEW known, NEW gone,
         NEW node \in NodesOf(s, ws),
         NEW keys \in Seq(1..Len(ws)), Injective(keys), Elems(keys) \subseteq known,
         NEW t \in Observe(node, keys, ws)
  PROVE  TableOK(t, s, ws, lg, known, gone)
<1>1. PICK rows \in Selected(node, keys, ws) :
        t = [node |-> node, upto |-> 0, view |-> Elems(rows), rows |-> rows]
  BY DEF Observe
<1>2. /\ rows \in Seq(1..Len(ws)) /\ Injective(rows)
      /\ \A k \in Elems(rows) : k \in Elems(keys) /\ ws[k].node = node
  BY SelectedOK
<1>3. Len(lg) \in Nat
  BY LenProperties
<1>4. t.node = node /\ t.upto = 0 /\ t.view = Elems(rows) /\ t.rows = rows /\ 1..t.upto = {}
  BY <1>1
<1>5. t \in [node : {t.node}, upto : 0..Len(lg), view : {t.view}, rows : Seq(1..Len(ws))]
  BY <1>1, <1>2, <1>3
<1> QED
  BY <1>2, <1>4, <1>5 DEF TableOK

\* A known key keeps a table right when the client learns of it, if the client
\* did not take it back before; it is shown if it is of the table's node.
LEMMA RaiseOK ==
  ASSUME NEW t, NEW s, NEW ws \in Seq(Write), NEW lg \in Seq(1..Len(ws)), NEW known, NEW gone,
         TableOK(t, s, ws, lg, known, gone), t.node \in NodesOf(s, ws),
         NEW k \in 1..Len(ws), k \in known, k \notin t.view => k \notin Elems(t.rows)
  PROVE  LET u == Raise(t, k, ws[k])
         IN  /\ TableOK(u, s, ws, lg, known, gone)
             /\ u.node = t.node /\ u.upto = t.upto
             /\ Elems(t.rows) \subseteq Elems(u.rows)
             /\ ws[k].node = t.node => k \in Elems(u.rows)
<1> DEFINE u == Raise(t, k, ws[k])
<1>1. /\ t \in [node : {t.node}, upto : 0..Len(lg), view : {t.view}, rows : Seq(1..Len(ws))]
      /\ Injective(t.rows)
      /\ t.view \subseteq Elems(t.rows) /\ Elems(t.rows) \subseteq t.view \cup gone
      /\ \A x \in Elems(t.rows) : ws[x].node = t.node /\ x \in known
      /\ \A i \in 1..t.upto : ws[lg[i]].node = t.node => lg[i] \in Elems(t.rows)
  BY DEF TableOK
<1>2. CASE ws[k].node = t.node /\ k \notin t.view
  <2> DEFINE r == Append(t.rows, k)
             v == t.view \cup {k}
  <2>1. u = [[t EXCEPT !.rows = r] EXCEPT !.view = v]
    BY <1>1, <1>2 DEF Raise, Shown
  <2>2. t.rows \in Seq(1..Len(ws)) /\ k \notin Elems(t.rows)
    BY <1>1, <1>2
  <2>3. r \in Seq(1..Len(ws)) /\ Elems(r) = Elems(t.rows) \cup {k} /\ Injective(r)
    BY <1>1, <2>2, ElemsAppend
  <2>4. v = t.view \cup {k}
    OBVIOUS
  <2> HIDE DEF r, v, u
  <2>5. /\ u.node = t.node /\ u.upto = t.upto /\ u.rows = r /\ u.view = v
        /\ u \in [node : {u.node}, upto : 0..Len(lg), view : {u.view}, rows : Seq(1..Len(ws))]
    BY <1>1, <2>1, <2>3
  <2>6. \A x \in Elems(u.rows) : ws[x].node = u.node /\ x \in known
    BY <1>1, <1>2, <2>3, <2>5
  <2>7. \A i \in 1..u.upto : ws[lg[i]].node = u.node => lg[i] \in Elems(u.rows)
    BY <1>1, <2>3, <2>5
  <2>8. u.view \subseteq Elems(u.rows) /\ Elems(u.rows) \subseteq u.view \cup gone
    BY <1>1, <2>3, <2>4, <2>5
  <2>9. TableOK(u, s, ws, lg, known, gone)
    BY <2>3, <2>5, <2>6, <2>7, <2>8 DEF TableOK
  <2> QED
    BY <2>3, <2>5, <2>9 DEF u
<1>3. CASE ~(ws[k].node = t.node /\ k \notin t.view)
  <2>1. u = t
    BY <1>3 DEF Raise
  <2> QED
    BY <1>1, <1>3, <2>1
<1> QED
  BY <1>2, <1>3

\* The observer is told of the next entry of the log.
LEMMA ToldOK ==
  ASSUME NEW t, NEW s, NEW ws \in Seq(Write), NEW lg \in Seq(1..Len(ws)), NEW known, NEW gone,
         TableOK(t, s, ws, lg, known, gone), t.node \in NodesOf(s, ws),
         t.upto < Len(lg), Elems(lg) \subseteq known, Elems(lg) \cap gone = {}
  PROVE  LET k == lg[t.upto + 1]
         IN  TableOK([Raise(t, k, ws[k]) EXCEPT !.upto = t.upto + 1], s, ws, lg, known, gone)
<1> DEFINE k == lg[t.upto + 1]
           u == Raise(t, k, ws[k])
           v == [u EXCEPT !.upto = t.upto + 1]
<1>1. /\ t.upto \in 0..Len(lg) /\ Len(lg) \in Nat
      /\ \A i \in 1..t.upto : ws[lg[i]].node = t.node => lg[i] \in Elems(t.rows)
      /\ Elems(t.rows) \subseteq t.view \cup gone
  BY LenProperties DEF TableOK
<1>2. t.upto + 1 \in 1..Len(lg) /\ t.upto + 1 \in 0..Len(lg)
  BY <1>1
<1>3. k \in 1..Len(ws) /\ k \in Elems(lg)
  BY <1>2, ElementOfSeq DEF Elems
<1> HIDE DEF k
<1>3a. k \notin t.view => k \notin Elems(t.rows)
  BY <1>1, <1>3
<1>4. /\ TableOK(u, s, ws, lg, known, gone)
      /\ u.node = t.node /\ u.upto = t.upto
      /\ Elems(t.rows) \subseteq Elems(u.rows)
      /\ ws[k].node = t.node => k \in Elems(u.rows)
  BY <1>3, <1>3a, RaiseOK
<1> HIDE DEF u
<1>5. /\ u \in [node : {u.node}, upto : 0..Len(lg), view : {u.view}, rows : Seq(1..Len(ws))]
      /\ Injective(u.rows)
      /\ u.view \subseteq Elems(u.rows) /\ Elems(u.rows) \subseteq u.view \cup gone
      /\ \A x \in Elems(u.rows) : ws[x].node = u.node /\ x \in known
  BY <1>4 DEF TableOK
<1>6. /\ v.node = u.node /\ v.upto = t.upto + 1 /\ v.rows = u.rows /\ v.view = u.view
      /\ v \in [node : {v.node}, upto : 0..Len(lg), view : {v.view}, rows : Seq(1..Len(ws))]
  BY <1>2, <1>5
<1> HIDE DEF v
<1>7. ASSUME NEW i \in 1..v.upto, ws[lg[i]].node = v.node PROVE lg[i] \in Elems(v.rows)
  <2>1. CASE i = t.upto + 1
    BY <1>4, <1>6, <1>7, <2>1 DEF k
  <2>2. CASE i # t.upto + 1
    <3>1. i \in 1..t.upto
      BY <1>1, <1>6, <2>2
    <3> QED
      BY <1>1, <1>4, <1>6, <1>7, <3>1
  <2> QED
    BY <2>1, <2>2
<1>8. TableOK(v, s, ws, lg, known, gone)
  BY <1>4, <1>5, <1>6, <1>7 DEF TableOK
<1> QED
  BY <1>8 DEF v, u, k

\* A table that is right is a table.
LEMMA TableTyped ==
  ASSUME NEW t, NEW s, NEW ws \in Seq(Write), NEW lg \in Seq(1..Len(ws)), NEW known, NEW gone,
         Len(ws) <= MaxWrites, TableOK(t, s, ws, lg, known, gone)
  PROVE  t \in Table /\ (t # Closed => t.node \in NodesOf(s, ws))
<1>1. Len(ws) \in Nat /\ Len(lg) \in Nat /\ MaxWrites \in Nat
  BY LenProperties, WritesAssumption
<1>2. t \in [node : {t.node}, upto : 0..Len(lg), view : {t.view}, rows : Seq(1..Len(ws))]
      /\ (t = Closed \/ t.node \in NodesOf(s, ws))
  BY DEF TableOK
<1>3. t.upto \in Nat /\ t.rows \in Seq(1..MaxWrites) /\ t.view \subseteq 1..MaxWrites
  <2>1. 1..Len(ws) \subseteq 1..MaxWrites
    BY <1>1
  <2>2. t.upto \in Nat /\ t.rows \in Seq(1..Len(ws)) /\ t.rows \in Seq(1..MaxWrites)
    BY <1>1, <1>2, <2>1, SeqMonotonic
  <2>3. Elems(t.rows) \subseteq 1..Len(ws)
    BY <2>2, ElementOfSeq DEF Elems
  <2> QED
    BY <2>1, <2>2, <2>3 DEF TableOK
<1>4. t.node \in {<<>>, BorrowersNode} \cup {PaymentsNode(n) : n \in Name}
  <2>1. CASE t = Closed
    BY <2>1 DEF Closed
  <2>2. CASE t.node \in NodesOf(s, ws)
    <3>1. \A i \in 1..Len(ws) : ws[i].name \in Name
      BY NamesOfWrites
    <3> QED
      BY <2>2, <3>1 DEF NodesOf, PaymentNodes
  <2> QED
    BY <1>2, <2>1, <2>2
<1> QED
  BY <1>2, <1>3, <1>4 DEF Table

-----------------------------------------------------------------------------
(* The parts of the invariant over a step. *)

\* Writes and log have grown at their ends, or are what they were.
Grown ==
  /\ WritesOK' /\ LogOK' /\ refused \subseteq refused'
  /\ StartOf(writes, writes') /\ StartOf(log, log')

\* No device but those in D has forgotten a key.
KnownKept(D) == \A e \in D : Known(e) \subseteq Known(e)'

\* A table that no step touches stays right.
LEMMA TableKept ==
  ASSUME IInv, Grown, NEW d \in Device, NEW s \in Screen, Known(d) \subseteq Known(d)'
  PROVE  TableOK(tables[d][s], s, writes', log', Known(d)', refused')
<1>1. /\ writes \in Seq(Write) /\ writes' \in Seq(Write) /\ StartOf(writes, writes')
      /\ log \in Seq(1..Len(writes)) /\ log' \in Seq(1..Len(writes')) /\ StartOf(log, log')
      /\ refused \subseteq refused'
  BY DEF IInv, Grown, WritesOK, LogOK
<1>2. TableOK(tables[d][s], s, writes, log, Known(d), refused)
  BY DEF IInv, TablesOK
<1> QED
  BY <1>1, <1>2, TableGrows

\* The tables stay right when all tables of one device are replaced by right
\* ones.
LEMMA DeviceStep ==
  ASSUME IInv, Grown, NEW d \in Device, KnownKept(Device \ {d}),
         NEW f, f = [s \in Screen |-> f[s]],
         tables' = [tables EXCEPT ![d] = f],
         \A s \in Screen : TableOK(f[s], s, writes', log', Known(d)', refused')
  PROVE  TablesOK'
<1>1. /\ writes' \in Seq(Write) /\ log' \in Seq(1..Len(writes')) /\ Len(writes') <= MaxWrites
  BY DEF Grown, WritesOK, LogOK
<1>2. \A s \in Screen : f[s] \in Table
  BY <1>1, TableTyped
<1>3. f \in [Screen -> Table]
  BY <1>2
<1>4. tables \in [Device -> [Screen -> Table]]
  BY DEF IInv, TablesOK
<1>5. tables' \in [Device -> [Screen -> Table]]
  BY <1>3, <1>4
<1>6. ASSUME NEW e \in Device, NEW s \in Screen
      PROVE  TableOK(tables'[e][s], s, writes', log', Known(e)', refused')
  <2>1. CASE e = d
    <3>1. tables'[e] = f
      BY <1>4, <2>1
    <3> QED
      BY <2>1, <3>1
  <2>2. CASE e # d
    <3>1. tables'[e] = tables[e]
      BY <1>4, <2>2
    <3>2. TableOK(tables[e][s], s, writes', log', Known(e)', refused')
      BY <2>2, TableKept DEF KnownKept
    <3> QED
      BY <3>1, <3>2
  <2> QED
    BY <2>1, <2>2
<1> QED
  BY <1>5, <1>6 DEF TablesOK

\* The same for a single table.
LEMMA TableStep ==
  ASSUME IInv, Grown, NEW d \in Device, KnownKept(Device), NEW z \in Screen, NEW t,
         tables' = [tables EXCEPT ![d][z] = t],
         TableOK(t, z, writes', log', Known(d)', refused')
  PROVE  TablesOK'
<1> DEFINE f == [tables[d] EXCEPT ![z] = t]
<1>1. tables \in [Device -> [Screen -> Table]]
  BY DEF IInv, TablesOK
<1>2. tables' = [tables EXCEPT ![d] = f]
  BY <1>1
<1>3. tables[d] \in [Screen -> Table]
  BY <1>1
<1>4. f = [s \in Screen |-> f[s]] /\ \A s \in Screen : f[s] = IF s = z THEN t ELSE tables[d][s]
  BY <1>3
<1> HIDE DEF f
<1>5. ASSUME NEW s \in Screen PROVE TableOK(f[s], s, writes', log', Known(d)', refused')
  <2>1. CASE s = z
    BY <1>4, <2>1
  <2>2. CASE s # z
    <3>1. TableOK(tables[d][s], s, writes', log', Known(d)', refused')
      BY TableKept DEF KnownKept
    <3> QED
      BY <1>4, <2>2, <3>1
  <2> QED
    BY <2>1, <2>2
<1>6. KnownKept(Device \ {d})
  BY DEF KnownKept
<1> QED
  BY <1>2, <1>4, <1>5, <1>6, DeviceStep

\* The same when no table changes.
LEMMA NoTableStep ==
  ASSUME IInv, Grown, KnownKept(Device), tables' = tables
  PROVE  TablesOK'
<1>1. ASSUME NEW e \in Device, NEW s \in Screen
      PROVE  TableOK(tables[e][s], s, writes', log', Known(e)', refused')
  BY TableKept DEF KnownKept
<1> QED
  BY <1>1 DEF IInv, TablesOK

\* The names that explain a trap do not go away.
LEMMA TrapsStep ==
  ASSUME IInv, Grown, crashed' = crashed
  PROVE  CrashedOK'
<1>1. /\ Len(writes) \in Nat /\ Len(writes') \in Nat /\ Len(writes) <= Len(writes')
      /\ \A i \in 1..Len(writes) : writes'[i] = writes[i]
  BY LenProperties DEF IInv, WritesOK, Grown, StartOf
<1>2. 1..Len(writes) \subseteq 1..Len(writes')
  BY <1>1
<1>3. crashed \in [Device -> {"no", "yes"}] /\ TrapsOnlyOnPathNames
  BY DEF IInv, CrashedOK
<1>4. TrapsOnlyOnPathNames'
  <2> SUFFICES ASSUME \E d \in Device : crashed[d] = "yes"
               PROVE  \/ \E i \in 1..Len(writes') : Components[writes'[i].name] = <<>>
                      \/ \E i, j \in 1..Len(writes') :
                           Below(Components[writes'[i].name], Components[writes'[j].name])
    BY DEF TrapsOnlyOnPathNames
  <2>1. CASE \E i \in 1..Len(writes) : Components[writes[i].name] = <<>>
    BY <1>1, <1>2, <2>1
  <2>2. CASE \E i, j \in 1..Len(writes) :
               Below(Components[writes[i].name], Components[writes[j].name])
    <3>1. PICK i \in 1..Len(writes), j \in 1..Len(writes) :
            Below(Components[writes[i].name], Components[writes[j].name])
      BY <2>2
    <3>2. /\ i \in 1..Len(writes') /\ j \in 1..Len(writes')
          /\ writes'[i] = writes[i] /\ writes'[j] = writes[j]
      BY <1>1, <1>2
    <3> QED
      BY <3>1, <3>2
  <2> QED
    BY <1>3, <2>1, <2>2 DEF TrapsOnlyOnPathNames
<1> QED
  BY <1>3, <1>4 DEF CrashedOK

\* Nor do the nodes that were left.
LEMMA LeftStep ==
  ASSUME IInv, Grown, left' = left
  PROVE  LeftOK'
<1>1. PaymentNodes(writes) \subseteq PaymentNodes(writes')
  BY NodesGrow DEF IInv, WritesOK, Grown
<1> QED
  BY <1>1 DEF IInv, LeftOK

\* Nothing is written or stored.
LEMMA NothingGrown ==
  ASSUME IInv, UNCHANGED <<writes, log, refused>>
  PROVE  Grown
<1>1. writes' = writes /\ log' = log /\ refused' = refused
  OBVIOUS
<1>2. WritesOK' /\ LogOK'
  BY <1>1 DEF IInv, WritesOK, LogOK
<1>3. Len(writes) \in Nat /\ Len(log) \in Nat
  BY LenProperties DEF IInv, WritesOK, LogOK
<1>4. StartOf(writes, writes') /\ StartOf(log, log')
  BY <1>1, <1>3 DEF StartOf
<1> QED
  BY <1>1, <1>2, <1>4 DEF Grown

\* A step that leaves writes, log and the client's queues alone keeps their
\* part of the invariant.
LEMMA SameKeys ==
  ASSUME IInv, UNCHANGED <<writes, log, pending, refused>>
  PROVE  Grown /\ PendingOK' /\ KnownKept(Device)
<1>1. writes' = writes /\ log' = log /\ pending' = pending /\ refused' = refused
  OBVIOUS
<1>2. Grown
  BY <1>1, NothingGrown
<1>3. PendingOK'
  BY <1>1 DEF IInv, PendingOK
<1>4. KnownKept(Device)
  BY <1>1 DEF KnownKept, Known
<1> QED
  BY <1>2, <1>3, <1>4

\* SetValue makes a new key, which waits on its device only.
LEMMA SetValueGrows ==
  ASSUME IInv, NEW d \in Device, NEW w \in Write,
         w.node = BorrowersNode \/ w.node = PaymentsNode(w.name),
         SetValue(d, w)
  PROVE  /\ Grown /\ PendingOK' /\ KnownKept(Device)
         /\ Len(writes') \in 1..Len(writes') /\ Len(writes') \in Known(d)'
         /\ writes'[Len(writes')] = w
<1> DEFINE n == Len(writes)
           k == Len(writes')
<1>1. /\ writes \in Seq(Write) /\ n \in Nat /\ n < MaxWrites /\ MaxWrites \in Nat
      /\ writes' = Append(writes, w) /\ log' = log /\ refused' = refused
      /\ pending' = [pending EXCEPT ![d] = Append(@, k)]
  BY LenProperties, WritesAssumption DEF IInv, WritesOK, SetValue
<1>2. /\ writes' \in Seq(Write) /\ k = n + 1 /\ writes'[k] = w
      /\ \A i \in 1..n : writes'[i] = writes[i]
  BY <1>1, AppendProperties
<1> HIDE DEF n, k
<1>3. WritesOK'
  <2>1. k <= MaxWrites
    BY <1>1, <1>2
  <2>2. ASSUME NEW i \in 1..k
        PROVE  writes'[i].node = BorrowersNode \/ writes'[i].node = PaymentsNode(writes'[i].name)
    <3>1. CASE i = k
      BY <1>2, <3>1
    <3>2. CASE i # k
      <4>1. i \in 1..n
        BY <1>1, <1>2, <3>2
      <4>2. writes'[i] = writes[i]
        BY <1>2, <4>1
      <4> QED
        BY <4>1, <4>2 DEF IInv, WritesOK, n
    <3> QED
      BY <3>1, <3>2
  <2> QED
    BY <1>2, <2>1, <2>2 DEF WritesOK, k
<1>4. 1..n \subseteq 1..k /\ k \in 1..k /\ k \notin 1..n
  BY <1>1, <1>2
<1>5. LogOK'
  <2>1. log \in Seq(1..n) /\ Injective(log) /\ refused \subseteq 1..n /\ Elems(log) \cap refused = {}
    BY DEF IInv, LogOK, n
  <2>2. log \in Seq(1..k)
    BY <1>4, <2>1, SeqMonotonic
  <2> QED
    BY <1>1, <1>4, <2>1, <2>2 DEF LogOK, k
<1>6. StartOf(writes, writes') /\ StartOf(log, log')
  <2>1. Len(log) \in Nat
    BY LenProperties DEF IInv, LogOK
  <2> QED
    BY <1>1, <1>2, <2>1 DEF StartOf, n, k
<1>7. /\ pending \in [Device -> Seq(1..n)] /\ pending[d] \in Seq(1..n) /\ refused \subseteq 1..n
      /\ \A e \in Device :
           /\ Injective(pending[e])
           /\ Elems(pending[e]) \cap refused = {}
           /\ \A c \in Device : e # c => Elems(pending[e]) \cap Elems(pending[c]) = {}
  BY DEF IInv, PendingOK, LogOK, n
<1>8. \A e \in Device : pending[e] \in Seq(1..k) /\ Elems(pending[e]) \subseteq 1..n
  <2> TAKE e \in Device
  <2>1. pending[e] \in Seq(1..n)
    BY <1>7
  <2>2. pending[e] \in Seq(1..k)
    BY <1>4, <2>1, SeqMonotonic
  <2> QED
    BY <2>1, <2>2, ElementOfSeq DEF Elems
<1>9. /\ Append(pending[d], k) \in Seq(1..k)
      /\ Elems(Append(pending[d], k)) = Elems(pending[d]) \cup {k}
      /\ Injective(Append(pending[d], k))
  BY <1>4, <1>7, <1>8, ElemsAppend
<1>10. /\ pending' \in [Device -> Seq(1..k)]
       /\ pending'[d] = Append(pending[d], k)
       /\ \A e \in Device : e # d => pending'[e] = pending[e]
  BY <1>1, <1>7, <1>8, <1>9
<1>11. \A e \in Device : /\ Injective(pending'[e])
                         /\ Elems(pending'[e]) = Elems(pending[e]) \cup (IF e = d THEN {k} ELSE {})
  BY <1>7, <1>9, <1>10
<1>12. PendingOK'
  <2>1. ASSUME NEW e \in Device PROVE Elems(pending'[e]) \cap refused = {}
    BY <1>4, <1>7, <1>11
  <2>2. ASSUME NEW e \in Device, NEW c \in Device, e # c
        PROVE  Elems(pending'[e]) \cap Elems(pending'[c]) = {}
    <3>1. k \notin Elems(pending[e]) /\ k \notin Elems(pending[c])
      BY <1>4, <1>8
    <3>2. Elems(pending[e]) \cap Elems(pending[c]) = {}
      BY <1>7, <2>2
    <3>3. CASE e = d
      BY <1>11, <2>2, <3>1, <3>2, <3>3
    <3>4. CASE e # d
      BY <1>11, <2>2, <3>1, <3>2, <3>4
    <3> QED
      BY <3>3, <3>4
  <2> QED
    BY <1>1, <1>10, <1>11, <2>1, <2>2 DEF PendingOK, k
<1>13. KnownKept(Device)
  BY <1>1, <1>11 DEF KnownKept, Known
<1>14. k \in Known(d)'
  BY <1>11 DEF Known
<1> QED
  BY <1>1, <1>2, <1>3, <1>4, <1>5, <1>6, <1>12, <1>13, <1>14 DEF Grown, k

\* The end of a process takes its screens and its unsent writes with it.
LEMMA EndProcessIInv ==
  ASSUME IInv, NEW d \in Device, NEW trapped \in {"no", "yes"}, EndProcess(d, trapped),
         trapped = "yes" => \/ \E i \in 1..Len(writes) : Components[writes[i].name] = <<>>
                            \/ \E i, j \in 1..Len(writes) :
                                 Below(Components[writes[i].name], Components[writes[j].name])
  PROVE  IInv'
<1>1. /\ writes' = writes /\ log' = log /\ refused' = refused
      /\ crashed' = [crashed EXCEPT ![d] = trapped]
      /\ pending' = [pending EXCEPT ![d] = <<>>]
      /\ tables' = [tables EXCEPT ![d] = [s \in Screen |-> Closed]]
      /\ left' = [left EXCEPT ![d] = {}]
  BY DEF EndProcess
<1>2. Grown
  BY <1>1, NothingGrown
<1>3. /\ pending \in [Device -> Seq(1..Len(writes))]
      /\ \A e \in Device :
           /\ Injective(pending[e])
           /\ Elems(pending[e]) \cap refused = {}
           /\ \A c \in Device : e # c => Elems(pending[e]) \cap Elems(pending[c]) = {}
  BY DEF IInv, PendingOK
<1>4. /\ <<>> \in Seq(1..Len(writes)) /\ Elems(<<>>) = {} /\ Injective(<<>>)
  <2>1. <<>> \in Seq(1..Len(writes)) /\ Len(<<>>) = 0
    BY EmptySeq
  <2>2. 1..Len(<<>>) = {}
    BY <2>1
  <2> QED
    BY <2>1, <2>2 DEF Elems, Injective
<1>5. /\ pending' \in [Device -> Seq(1..Len(writes))]
      /\ pending'[d] = <<>>
      /\ \A e \in Device : e # d => pending'[e] = pending[e]
  BY <1>1, <1>3, <1>4
<1>6. \A e \in Device : Injective(pending'[e]) /\ Elems(pending'[e]) \subseteq Elems(pending[e])
  BY <1>3, <1>4, <1>5
<1>7. PendingOK'
  <2>1. ASSUME NEW e \in Device PROVE Elems(pending'[e]) \cap refused = {}
    BY <1>3, <1>6
  <2>2. ASSUME NEW e \in Device, NEW c \in Device, e # c
        PROVE  Elems(pending'[e]) \cap Elems(pending'[c]) = {}
    BY <1>3, <1>6, <2>2
  <2> QED
    BY <1>1, <1>5, <1>6, <2>1, <2>2 DEF PendingOK
<1>8. TablesOK'
  <2> DEFINE f == [s \in Screen |-> Closed]
  <2>1. KnownKept(Device \ {d})
    BY <1>1, <1>5 DEF KnownKept, Known
  <2>2. \A s \in Screen : TableOK(Closed, s, writes', log', Known(d)', refused')
    BY <1>2, ClosedOK DEF Grown, WritesOK, LogOK
  <2>3. f = [s \in Screen |-> f[s]] /\ \A s \in Screen : f[s] = Closed
    OBVIOUS
  <2>4. tables' = [tables EXCEPT ![d] = f]
    BY <1>1
  <2> HIDE DEF f
  <2>5. \A s \in Screen : TableOK(f[s], s, writes', log', Known(d)', refused')
    BY <2>2, <2>3
  <2> QED
    BY <1>2, <2>1, <2>3, <2>4, <2>5, DeviceStep
<1>9. LeftOK'
  BY <1>1 DEF IInv, LeftOK
<1>10. CrashedOK'
  <2>1. crashed \in [Device -> {"no", "yes"}] /\ TrapsOnlyOnPathNames
    BY DEF IInv, CrashedOK
  <2>2. crashed' \in [Device -> {"no", "yes"}]
    BY <1>1, <2>1
  <2>3. ASSUME NEW e \in Device, crashed'[e] = "yes"
        PROVE  trapped = "yes" \/ crashed[e] = "yes"
    BY <1>1, <2>1, <2>3
  <2>4. TrapsOnlyOnPathNames'
    BY <1>1, <2>1, <2>3 DEF TrapsOnlyOnPathNames
  <2> QED
    BY <2>2, <2>4 DEF CrashedOK
<1> QED
  BY <1>2, <1>7, <1>8, <1>9, <1>10 DEF IInv, Grown

-----------------------------------------------------------------------------
(* The actions. *)

\* No write has been made, no screen is open.
LEMMA InitIInv == Init => IInv
<1> SUFFICES ASSUME Init PROVE IInv
  OBVIOUS
<1>1. /\ \A S : <<>> \in Seq(S)
      /\ Len(<<>>) = 0 /\ 1..Len(<<>>) = {}
      /\ Elems(<<>>) = {} /\ Injective(<<>>)
  <2>1. (\A S : <<>> \in Seq(S)) /\ Len(<<>>) = 0
    BY EmptySeq
  <2>2. 1..Len(<<>>) = {}
    BY <2>1
  <2> QED
    BY <2>1, <2>2 DEF Elems, Injective
<1>2. /\ writes = <<>> /\ log = <<>> /\ refused = {}
      /\ pending = [d \in Device |-> <<>>]
      /\ tables = [d \in Device |-> [s \in Screen |-> Closed]]
      /\ left = [d \in Device |-> {}] /\ crashed = [d \in Device |-> "no"]
  BY DEF Init
<1>3. WritesOK
  BY <1>1, <1>2, WritesAssumption DEF WritesOK
<1>4. LogOK
  BY <1>1, <1>2 DEF LogOK
<1>5. PendingOK
  BY <1>1, <1>2 DEF PendingOK
<1>6. TablesOK
  <2>1. ASSUME NEW d \in Device, NEW s \in Screen
        PROVE  TableOK(Closed, s, writes, log, Known(d), refused)
    BY <1>3, <1>4, ClosedOK DEF WritesOK, LogOK
  <2>2. \A s \in Screen, d \in Device : Closed \in Table
    BY <1>3, <1>4, <2>1, TableTyped DEF WritesOK, LogOK
  <2> QED
    BY <1>2, <2>1, <2>2 DEF TablesOK
<1>7. LeftOK
  BY <1>2 DEF LeftOK
<1>8. CrashedOK
  BY <1>2 DEF CrashedOK, TrapsOnlyOnPathNames
<1> QED
  BY <1>3, <1>4, <1>5, <1>6, <1>7, <1>8 DEF IInv

\* Opening the list shows the borrowers this device still has to send.
LEMMA OpenBorrowersIInv ==
  ASSUME IInv, NEW d \in Device, OpenBorrowers(d)
  PROVE  IInv'
<1>1. /\ UNCHANGED <<writes, log, pending, refused>> /\ left' = left /\ crashed' = crashed
  BY DEF OpenBorrowers
<1>2. Grown /\ PendingOK' /\ KnownKept(Device)
  BY <1>1, SameKeys
<1>3. PICK t \in Observe(BorrowersNode, pending[d], writes) :
        tables' = [tables EXCEPT ![d]["BorrowersTVC"] = t]
  BY DEF OpenBorrowers
<1>4. /\ pending[d] \in Seq(1..Len(writes)) /\ Injective(pending[d])
      /\ writes \in Seq(Write) /\ log \in Seq(1..Len(writes))
  BY DEF IInv, PendingOK, WritesOK, LogOK
<1>5. Elems(pending[d]) \subseteq Known(d)
  BY DEF Known
<1>6. BorrowersNode \in NodesOf("BorrowersTVC", writes)
  BY DEF NodesOf
<1>7. TableOK(t, "BorrowersTVC", writes, log, Known(d), refused)
  BY <1>4, <1>5, <1>6, ObserveOK
<1>8. TableOK(t, "BorrowersTVC", writes', log', Known(d)', refused')
  BY <1>1, <1>7 DEF Known
<1>9. "BorrowersTVC" \in Screen
  BY DEF Screen
<1>10. TablesOK'
  BY <1>2, <1>3, <1>8, <1>9, TableStep
<1>11. LeftOK' /\ CrashedOK'
  BY <1>1, <1>2, LeftStep, TrapsStep
<1> QED
  BY <1>2, <1>10, <1>11 DEF IInv, Grown

\* A new borrower is shown at once.
LEMMA AddBorrowerIInv ==
  ASSUME IInv, NEW d \in Device, NEW n \in Name, AddBorrower(d, n)
  PROVE  IInv'
<1> DEFINE w == [node |-> BorrowersNode, name |-> n]
           t == tables[d]["BorrowersTVC"]
           k == Len(writes')
<1>1. /\ SetValue(d, w) /\ left' = left /\ crashed' = crashed /\ IsOpen(t)
      /\ tables' = [tables EXCEPT ![d]["BorrowersTVC"] = Raise(@, k, w)]
  BY DEF AddBorrower
<1>2. w \in Write /\ w.node = BorrowersNode
  BY DEF Write
<1>3. /\ Grown /\ PendingOK' /\ KnownKept(Device)
      /\ k \in 1..Len(writes') /\ k \in Known(d)' /\ writes'[k] = w
  BY <1>1, <1>2, SetValueGrows
<1>4. "BorrowersTVC" \in Screen /\ tables \in [Device -> [Screen -> Table]]
  BY DEF Screen, IInv, TablesOK
<1>5. tables' = [tables EXCEPT ![d]["BorrowersTVC"] = Raise(t, k, writes'[k])]
  BY <1>1, <1>3, <1>4
<1>6. TableOK(t, "BorrowersTVC", writes', log', Known(d)', refused')
  BY <1>3, <1>4, TableKept DEF KnownKept
<1>7. t.node \in NodesOf("BorrowersTVC", writes')
  BY <1>1, <1>6 DEF TableOK, IsOpen
<1>8. writes' \in Seq(Write) /\ log' \in Seq(1..Len(writes'))
  BY <1>3 DEF Grown, WritesOK, LogOK
<1>9. k \notin Elems(t.rows)
  <2>1. TableOK(t, "BorrowersTVC", writes, log, Known(d), refused)
    BY <1>4 DEF IInv, TablesOK
  <2>2. Elems(t.rows) \subseteq 1..Len(writes)
    BY <2>1, ElementOfSeq DEF TableOK, Elems
  <2>3. k = Len(writes) + 1 /\ Len(writes) \in Nat
    BY <1>1, AppendProperties, LenProperties DEF SetValue, IInv, WritesOK
  <2> QED
    BY <2>2, <2>3
<1> HIDE DEF w, t, k
<1>10. TableOK(Raise(t, k, writes'[k]), "BorrowersTVC", writes', log', Known(d)', refused')
  BY <1>3, <1>6, <1>7, <1>8, <1>9, RaiseOK
<1>11. TablesOK'
  BY <1>3, <1>4, <1>5, <1>10, TableStep
<1>12. LeftOK' /\ CrashedOK'
  BY <1>1, <1>3, LeftStep, TrapsStep
<1> QED
  BY <1>3, <1>11, <1>12 DEF IInv, Grown

\* A borrower on screen was written.
LEMMA AtBorrowerWritten ==
  ASSUME IInv, NEW d \in Device, NEW r, AtBorrower(d, r)
  PROVE  r \in 1..Len(writes) /\ writes[r].name \in Name
<1>1. tables[d]["BorrowersTVC"].rows \in Seq(1..Len(writes))
  <2>1. "BorrowersTVC" \in Screen
    BY DEF Screen
  <2>2. TableOK(tables[d]["BorrowersTVC"], "BorrowersTVC", writes, log, Known(d), refused)
    BY <2>1 DEF IInv, TablesOK
  <2> QED
    BY <2>2 DEF TableOK
<1>2. r \in 1..Len(writes)
  BY <1>1, ElementOfSeq DEF AtBorrower, Elems
<1> QED
  BY <1>2, NamesOfWrites DEF IInv, WritesOK

\* The payments of a borrower on screen are shown, with the keys this device
\* has to send after the step.
LEMMA ShowPaymentsIInv ==
  ASSUME IInv, NEW d \in Device, NEW r \in 1..Len(writes),
         Grown, PendingOK', KnownKept(Device),
         ShowPayments(d, r, pending'[d], writes')
  PROVE  IInv'
<1> DEFINE node == PaymentsNode(writes[r].name)
<1>1. PICK t \in Observe(node, pending'[d], writes') :
        tables' = [tables EXCEPT ![d]["PaymentsTVC"] = t]
  BY DEF ShowPayments
<1>2. left' = left /\ crashed' = crashed
  BY DEF ShowPayments
<1>3. /\ pending'[d] \in Seq(1..Len(writes')) /\ Injective(pending'[d])
      /\ writes' \in Seq(Write) /\ log' \in Seq(1..Len(writes'))
  BY DEF PendingOK, Grown, WritesOK, LogOK
<1>4. Elems(pending'[d]) \subseteq Known(d)'
  BY DEF Known
<1>5. node \in NodesOf("PaymentsTVC", writes')
  <2>1. node \in PaymentNodes(writes)
    BY DEF PaymentNodes
  <2>2. PaymentNodes(writes) \subseteq PaymentNodes(writes')
    BY <1>3, NodesGrow DEF IInv, WritesOK, Grown
  <2> QED
    BY <2>1, <2>2 DEF NodesOf
<1> HIDE DEF node
<1>6. TableOK(t, "PaymentsTVC", writes', log', Known(d)', refused')
  BY <1>3, <1>4, <1>5, ObserveOK
<1>7. "PaymentsTVC" \in Screen
  BY DEF Screen
<1>8. TablesOK'
  BY <1>1, <1>6, <1>7, TableStep
<1>9. LeftOK' /\ CrashedOK'
  BY <1>2, LeftStep, TrapsStep
<1> QED
  BY <1>8, <1>9 DEF IInv, Grown

\* The payments button only shows.
LEMMA PaymentsFolderIInv ==
  ASSUME IInv, NEW d \in Device, NEW r, PaymentsFolder(d, r)
  PROVE  IInv'
<1>1. /\ AtBorrower(d, r) /\ ShowPayments(d, r, pending[d], writes)
      /\ UNCHANGED <<writes, log, pending, refused>>
  BY DEF PaymentsFolder
<1>2. r \in 1..Len(writes)
  BY <1>1, AtBorrowerWritten
<1>3. Grown /\ PendingOK' /\ KnownKept(Device)
  BY <1>1, SameKeys
<1>4. ShowPayments(d, r, pending'[d], writes')
  BY <1>1
<1> QED
  BY <1>2, <1>3, <1>4, ShowPaymentsIInv

\* A payment is sent and then shown.
LEMMA AddPaymentIInv ==
  ASSUME IInv, NEW d \in Device, NEW r, AddPayment(d, r)
  PROVE  IInv'
<1> DEFINE n == writes[r].name
           w == [node |-> PaymentsNode(n), name |-> n]
<1>1. AtBorrower(d, r) /\ SetValue(d, w) /\ ShowPayments(d, r, pending'[d], writes')
  BY DEF AddPayment
<1>2. r \in 1..Len(writes) /\ n \in Name
  BY <1>1, AtBorrowerWritten
<1>3. w \in Write /\ w.node = PaymentsNode(w.name)
  BY <1>2 DEF Write
<1>4. Grown /\ PendingOK' /\ KnownKept(Device)
  BY <1>1, <1>3, SetValueGrows
<1> QED
  BY <1>1, <1>2, <1>4, ShowPaymentsIInv

\* A button traps for a borrower whose name is no path.
LEMMA PaymentsTrapIInv ==
  ASSUME IInv, NEW d \in Device, NEW r, PaymentsTrap(d, r)
  PROVE  IInv'
<1>1. AtBorrower(d, r) /\ Components[writes[r].name] = <<>> /\ EndProcess(d, "yes")
  BY DEF PaymentsTrap
<1>2. r \in 1..Len(writes)
  BY <1>1, AtBorrowerWritten
<1> QED
  BY <1>1, <1>2, EndProcessIInv

\* Closing a screen leaves the other tables as they are.
LEMMA CloseScreen ==
  ASSUME IInv, NEW d \in Device, NEW s \in Screen,
         tables' = [tables EXCEPT ![d][s] = Closed],
         UNCHANGED <<writes, log, pending, refused>>
  PROVE  Grown /\ PendingOK' /\ TablesOK'
<1>1. Grown /\ PendingOK' /\ KnownKept(Device)
  BY SameKeys
<1>2. TableOK(Closed, s, writes', log', Known(d)', refused')
  BY <1>1, ClosedOK DEF Grown, WritesOK, LogOK
<1> QED
  BY <1>1, <1>2, TableStep

\* Going back closes the payments; their node stays observed.
LEMMA BackFromPaymentsIInv ==
  ASSUME IInv, NEW d \in Device, BackFromPayments(d)
  PROVE  IInv'
<1> DEFINE t == tables[d]["PaymentsTVC"]
<1>1. /\ UNCHANGED <<writes, log, pending, refused>> /\ crashed' = crashed
      /\ tables' = [tables EXCEPT ![d]["PaymentsTVC"] = Closed]
      /\ left' = [left EXCEPT ![d] = @ \cup {t.node}]
      /\ t # Closed
  BY DEF BackFromPayments, IsOpen
<1>2. "PaymentsTVC" \in Screen
  BY DEF Screen
<1>3. Grown /\ PendingOK' /\ TablesOK'
  BY <1>1, <1>2, CloseScreen
<1>4. t.node \in PaymentNodes(writes)
  <2>1. TableOK(t, "PaymentsTVC", writes, log, Known(d), refused)
    BY <1>2 DEF IInv, TablesOK
  <2> QED
    BY <1>1, <2>1 DEF TableOK, NodesOf
<1>5. LeftOK'
  BY <1>1, <1>4 DEF IInv, LeftOK
<1>6. CrashedOK'
  BY <1>1, <1>3, TrapsStep
<1> QED
  BY <1>3, <1>5, <1>6 DEF IInv, Grown

\* Logging out closes the list.
LEMMA LogoutIInv ==
  ASSUME IInv, NEW d \in Device, Logout(d)
  PROVE  IInv'
<1>1. /\ UNCHANGED <<writes, log, pending, refused>> /\ left' = left /\ crashed' = crashed
      /\ tables' = [tables EXCEPT ![d]["BorrowersTVC"] = Closed]
  BY DEF Logout
<1>2. "BorrowersTVC" \in Screen
  BY DEF Screen
<1>3. Grown /\ PendingOK' /\ TablesOK'
  BY <1>1, <1>2, CloseScreen
<1>4. LeftOK' /\ CrashedOK'
  BY <1>1, <1>3, LeftStep, TrapsStep
<1> QED
  BY <1>3, <1>4 DEF IInv, Grown

\* The server stores a key that waits, which is not refused.
LEMMA StoreIInv ==
  ASSUME IInv, NEW d \in Device, Store(d)
  PROVE  IInv'
<1>1. PICK i \in 1..Len(pending[d]) :
        /\ pending[d][i] \notin Elems(log)
        /\ log' = Append(log, pending[d][i])
        /\ UNCHANGED <<writes, pending, refused, tables, left, crashed>>
  BY DEF Store
<1> DEFINE k == pending[d][i]
<1>2. /\ pending[d] \in Seq(1..Len(writes)) /\ Elems(pending[d]) \cap refused = {}
      /\ log \in Seq(1..Len(writes)) /\ Injective(log) /\ Elems(log) \cap refused = {}
      /\ refused \subseteq 1..Len(writes)
  BY DEF IInv, PendingOK, LogOK
<1>3. k \in 1..Len(writes) /\ k \in Elems(pending[d]) /\ k \notin refused
  BY <1>2, ElementOfSeq DEF Elems
<1> HIDE DEF k
<1>4. /\ log' \in Seq(1..Len(writes)) /\ Elems(log') = Elems(log) \cup {k}
      /\ StartOf(log, log') /\ Injective(log')
  BY <1>1, <1>2, <1>3, ElemsAppend DEF k
<1>5. LogOK'
  <2>1. Elems(log') \cap refused = {}
    BY <1>2, <1>3, <1>4
  <2> QED
    BY <1>1, <1>2, <1>4, <2>1 DEF LogOK
<1>6. WritesOK' /\ PendingOK'
  BY <1>1 DEF IInv, WritesOK, PendingOK
<1>7. StartOf(writes, writes')
  BY <1>1, LenProperties DEF StartOf, IInv, WritesOK
<1>8. Grown
  BY <1>1, <1>4, <1>5, <1>6, <1>7 DEF Grown
<1>9. KnownKept(Device)
  BY <1>1, <1>4 DEF KnownKept, Known
<1>10. TablesOK' /\ LeftOK' /\ CrashedOK'
  BY <1>1, <1>8, <1>9, NoTableStep, LeftStep, TrapsStep
<1> QED
  BY <1>5, <1>6, <1>10 DEF IInv

\* The head of a client's queue goes, and is in the log or among the refused
\* keys from then on.
LEMMA HeadGoes ==
  ASSUME IInv, NEW d \in Device, pending[d] # <<>>,
         pending' = [pending EXCEPT ![d] = Tail(@)],
         UNCHANGED <<writes, log>>,
         refused \subseteq refused',
         refused' \subseteq refused \cup {Head(pending[d])},
         Head(pending[d]) \in Elems(log) \cup refused',
         Head(pending[d]) \in Elems(log) => refused' = refused
  PROVE  Grown /\ PendingOK' /\ KnownKept(Device)
<1> DEFINE h == Head(pending[d])
<1>1. writes' = writes /\ log' = log
  OBVIOUS
<1>2. /\ pending \in [Device -> Seq(1..Len(writes))]
      /\ pending[d] \in Seq(1..Len(writes))
      /\ \A e \in Device :
           /\ Injective(pending[e])
           /\ Elems(pending[e]) \cap refused = {}
           /\ \A c \in Device : e # c => Elems(pending[e]) \cap Elems(pending[c]) = {}
  BY DEF IInv, PendingOK
<1>3. /\ Tail(pending[d]) \in Seq(1..Len(writes)) /\ h \in 1..Len(writes)
      /\ Elems(pending[d]) = Elems(Tail(pending[d])) \cup {h}
      /\ Injective(Tail(pending[d])) /\ h \notin Elems(Tail(pending[d]))
  BY <1>2, ElemsTail
<1>4. /\ refused \subseteq refused' /\ refused' \subseteq refused \cup {h}
      /\ h \in Elems(log) \cup refused'
      /\ h \in Elems(log) => refused' = refused
  OBVIOUS
<1> HIDE DEF h
<1>5. /\ pending' \in [Device -> Seq(1..Len(writes))]
      /\ pending'[d] = Tail(pending[d])
      /\ \A e \in Device : e # d => pending'[e] = pending[e]
  BY <1>2, <1>3
<1>6. \A e \in Device : /\ Injective(pending'[e])
                        /\ Elems(pending'[e]) \subseteq Elems(pending[e])
                        /\ h \notin Elems(pending'[e])
  BY <1>2, <1>3, <1>5
<1>7. PendingOK'
  <2>1. ASSUME NEW e \in Device PROVE Elems(pending'[e]) \cap refused' = {}
    BY <1>2, <1>4, <1>6
  <2>2. ASSUME NEW e \in Device, NEW c \in Device, e # c
        PROVE  Elems(pending'[e]) \cap Elems(pending'[c]) = {}
    BY <1>2, <1>6, <2>2
  <2> QED
    BY <1>1, <1>5, <1>6, <2>1, <2>2 DEF PendingOK
<1>8. LogOK'
  <2>1. /\ log \in Seq(1..Len(writes)) /\ Injective(log)
        /\ refused \subseteq 1..Len(writes) /\ Elems(log) \cap refused = {}
    BY DEF IInv, LogOK
  <2>2. refused' \subseteq 1..Len(writes) /\ Elems(log) \cap refused' = {}
    BY <1>3, <1>4, <2>1
  <2> QED
    BY <1>1, <2>1, <2>2 DEF LogOK
<1>9. WritesOK'
  BY <1>1 DEF IInv, WritesOK
<1>10. Grown
  <2>1. Len(writes) \in Nat /\ Len(log) \in Nat
    BY LenProperties DEF IInv, WritesOK, LogOK
  <2>2. StartOf(writes, writes') /\ StartOf(log, log')
    BY <1>1, <2>1 DEF StartOf
  <2> QED
    BY <1>4, <1>8, <1>9, <2>2 DEF Grown
<1>11. KnownKept(Device)
  <2>1. ASSUME NEW e \in Device, NEW x \in Known(e) PROVE x \in Known(e)'
    <3>1. CASE x \in Elems(log) \cup refused
      BY <1>1, <1>4, <3>1 DEF Known
    <3>2. CASE x \in Elems(pending[e]) /\ e # d
      BY <1>5, <3>2 DEF Known
    <3>3. CASE x \in Elems(pending[e]) /\ e = d
      BY <1>1, <1>3, <1>4, <1>5, <3>3 DEF Known
    <3> QED
      BY <3>1, <3>2, <3>3 DEF Known
  <2> QED
    BY <2>1 DEF KnownKept
<1> QED
  BY <1>7, <1>10, <1>11

\* An acknowledged write is in the log.
LEMMA AcknowledgeIInv ==
  ASSUME IInv, NEW d \in Device, Acknowledge(d)
  PROVE  IInv'
<1>1. /\ pending[d] # <<>> /\ pending' = [pending EXCEPT ![d] = Tail(@)]
      /\ UNCHANGED <<writes, log>> /\ refused' = refused /\ Head(pending[d]) \in Elems(log)
      /\ tables' = tables /\ left' = left /\ crashed' = crashed
  BY DEF Acknowledge
<1>2. Grown /\ PendingOK' /\ KnownKept(Device)
  BY <1>1, HeadGoes
<1>3. TablesOK' /\ LeftOK' /\ CrashedOK'
  BY <1>1, <1>2, NoTableStep, LeftStep, TrapsStep
<1> QED
  BY <1>2, <1>3 DEF IInv, Grown

\* A refused write is not in the log and waits nowhere any more; the client
\* takes it back, its row stays.
LEMMA RefuseIInv ==
  ASSUME IInv, NEW d \in Device, Refuse(d)
  PROVE  IInv'
<1> DEFINE h == Head(pending[d])
           f == [s \in Screen |-> [tables[d][s] EXCEPT !.view = @ \ {h}]]
<1>1. /\ pending[d] # <<>> /\ pending' = [pending EXCEPT ![d] = Tail(@)]
      /\ UNCHANGED <<writes, log>> /\ left' = left /\ crashed' = crashed
      /\ refused' = refused \cup {h} /\ h \notin Elems(log)
      /\ tables' = [tables EXCEPT ![d] = f]
  BY DEF Refuse
<1>2. Grown /\ PendingOK' /\ KnownKept(Device)
  BY <1>1, HeadGoes
<1>3. ASSUME NEW s \in Screen PROVE TableOK(f[s], s, writes', log', Known(d)', refused')
  <2> DEFINE t == tables[d][s]
             u == f[s]
  <2>1. TableOK(t, s, writes', log', Known(d)', refused')
    BY <1>2, TableKept DEF KnownKept
  <2>2. /\ t \in [node : {t.node}, upto : 0..Len(log'), view : {t.view}, rows : Seq(1..Len(writes'))]
        /\ t = Closed \/ t.node \in NodesOf(s, writes')
        /\ t.view \subseteq Elems(t.rows) /\ Elems(t.rows) \subseteq t.view \cup refused'
    BY <2>1 DEF TableOK
  <2>3. u = [t EXCEPT !.view = t.view \ {h}]
    OBVIOUS
  <2> HIDE DEF t, u, f, h
  <2>4. /\ u.node = t.node /\ u.upto = t.upto /\ u.rows = t.rows /\ u.view = t.view \ {h}
        /\ u \in [node : {u.node}, upto : 0..Len(log'), view : {u.view}, rows : Seq(1..Len(writes'))]
    BY <2>2, <2>3
  <2>5. u = Closed \/ u.node \in NodesOf(s, writes')
    <3>1. CASE t = Closed
      <4>1. t.view \ {h} = t.view
        BY <3>1 DEF Closed
      <4> QED
        BY <2>2, <2>3, <3>1, <4>1 DEF Closed
    <3> QED
      BY <2>2, <2>4, <3>1
  <2>6. u.view \subseteq Elems(u.rows) /\ Elems(u.rows) \subseteq u.view \cup refused'
    BY <1>1, <2>2, <2>4
  <2>7. TableOK(u, s, writes', log', Known(d)', refused')
    BY <2>1, <2>4, <2>5, <2>6 DEF TableOK
  <2> QED
    BY <2>7 DEF u
<1>4. f = [s \in Screen |-> f[s]] /\ KnownKept(Device \ {d})
  BY <1>2 DEF KnownKept
<1> HIDE DEF f, h
<1>5. TablesOK'
  BY <1>1, <1>2, <1>3, <1>4, DeviceStep
<1>6. LeftOK' /\ CrashedOK'
  BY <1>1, <1>2, LeftStep, TrapsStep
<1> QED
  BY <1>2, <1>5, <1>6 DEF IInv, Grown

\* The next entry of the log reaches a table.
LEMMA ChildAddedIInv ==
  ASSUME IInv, NEW d \in Device, NEW s \in Screen, ChildAdded(d, s)
  PROVE  IInv'
<1> DEFINE t == tables[d][s]
           k == log[t.upto + 1]
           u == [Raise(t, k, writes[k]) EXCEPT !.upto = t.upto + 1]
<1>1. /\ UNCHANGED <<writes, log, pending, refused>> /\ left' = left /\ crashed' = crashed
      /\ t # Closed /\ t.upto < Len(log)
      /\ tables' = [tables EXCEPT ![d][s] = [Raise(t, k, writes[k]) EXCEPT !.upto = @ + 1]]
  BY DEF ChildAdded, IsOpen
<1>2. Grown /\ PendingOK' /\ KnownKept(Device)
  BY <1>1, SameKeys
<1>3. TableOK(t, s, writes, log, Known(d), refused) /\ t.node \in NodesOf(s, writes)
  BY <1>1 DEF IInv, TablesOK, TableOK
<1>4. writes \in Seq(Write) /\ log \in Seq(1..Len(writes)) /\ Elems(log) \subseteq Known(d)
      /\ Elems(log) \cap refused = {}
  BY DEF IInv, WritesOK, LogOK, Known
<1>5. TableOK(u, s, writes, log, Known(d), refused)
  BY <1>1, <1>3, <1>4, ToldOK
<1>6. [Raise(t, k, writes[k]) EXCEPT !.upto = @ + 1] = u
  <2>1. t \in [node : {t.node}, upto : 0..Len(log), view : {t.view}, rows : Seq(1..Len(writes))]
    BY <1>3 DEF TableOK
  <2>2. Raise(t, k, writes[k]).upto = t.upto
    BY <2>1 DEF Shown, Raise
  <2> QED
    BY <2>2
<1>7. tables' = [tables EXCEPT ![d][s] = u]
  BY <1>1, <1>6
<1>8. TableOK(u, s, writes', log', Known(d)', refused')
  BY <1>1, <1>5 DEF Known
<1> HIDE DEF u
<1>9. TablesOK'
  BY <1>2, <1>7, <1>8, TableStep
<1>10. LeftOK' /\ CrashedOK'
  BY <1>1, <1>2, LeftStep, TrapsStep
<1> QED
  BY <1>2, <1>9, <1>10 DEF IInv, Grown

\* Every node a device observes is the borrowers' or the payments' of a
\* borrower that was written.
LEMMA ObservedNodes ==
  ASSUME IInv, NEW d \in Device, NEW node \in Observed(d)
  PROVE  node = BorrowersNode \/ node \in PaymentNodes(writes)
<1>1. CASE node \in left[d]
  BY <1>1 DEF IInv, LeftOK
<1>2. CASE \E s \in Screen : IsOpen(tables[d][s]) /\ node = tables[d][s].node
  <2>1. PICK s \in Screen : IsOpen(tables[d][s]) /\ node = tables[d][s].node
    BY <1>2
  <2>2. TableOK(tables[d][s], s, writes, log, Known(d), refused)
    BY DEF IInv, TablesOK
  <2>3. node \in NodesOf(s, writes)
    BY <2>1, <2>2 DEF TableOK, IsOpen
  <2> QED
    BY <2>3 DEF NodesOf
<1> QED
  BY <1>1, <1>2 DEF Observed

\* The cast in an observer fails only if a name, as a path, continues another.
LEMMA ChildTrapsIInv ==
  ASSUME IInv, NEW d \in Device, ChildTraps(d)
  PROVE  IInv'
<1>1. PICK node \in Observed(d), k \in Elems(log) \cup Elems(pending[d]) :
        Below(node, writes[k].node)
  BY DEF ChildTraps
<1>2. k \in 1..Len(writes)
  <2>1. log \in Seq(1..Len(writes)) /\ pending[d] \in Seq(1..Len(writes))
    BY DEF IInv, LogOK, PendingOK
  <2>2. Elems(log) \subseteq 1..Len(writes) /\ Elems(pending[d]) \subseteq 1..Len(writes)
    BY <2>1, ElementOfSeq DEF Elems
  <2> QED
    BY <2>2
<1>3. /\ writes[k].name \in Name
      /\ writes[k].node = BorrowersNode \/ writes[k].node = PaymentsNode(writes[k].name)
  BY <1>2, NamesOfWrites DEF IInv, WritesOK
<1>4. node # BorrowersNode
  BY <1>1, <1>3, NothingBelowBorrowers
<1>5. PICK i \in 1..Len(writes) : node = PaymentsNode(writes[i].name)
  BY <1>4, ObservedNodes DEF PaymentNodes
<1>6. writes[i].name \in Name
  BY <1>5, NamesOfWrites DEF IInv, WritesOK
<1>7. writes[k].node = PaymentsNode(writes[k].name)
  BY <1>1, <1>3, <1>5, <1>6, NothingBelowBorrowers
<1>8. Below(Components[writes[i].name], Components[writes[k].name])
  BY <1>1, <1>3, <1>5, <1>6, <1>7, BelowPayments
<1>9. EndProcess(d, "yes")
  BY DEF ChildTraps
<1> QED
  BY <1>2, <1>5, <1>8, <1>9, EndProcessIInv

\* Every step preserves the inductive invariant.
LEMMA NextIInv == IInv /\ [Next]_vars => IInv'
<1> SUFFICES ASSUME IInv, [Next]_vars PROVE IInv'
  OBVIOUS
<1>1. CASE Next
  <2>1. PICK d \in Device :
          \/ OpenBorrowers(d)
          \/ \E n \in Name : AddBorrower(d, n)
          \/ \E r \in 1..MaxWrites : PaymentsFolder(d, r)
          \/ \E r \in 1..MaxWrites : AddPayment(d, r)
          \/ \E r \in 1..MaxWrites : PaymentsTrap(d, r)
          \/ BackFromPayments(d)
          \/ Logout(d)
          \/ Store(d) \/ Acknowledge(d) \/ Refuse(d)
          \/ \E s \in Screen : ChildAdded(d, s)
          \/ ChildTraps(d)
          \/ Restart(d)
    BY <1>1 DEF Next
  <2>2. CASE OpenBorrowers(d)
    BY <2>2, OpenBorrowersIInv
  <2>3. CASE \E n \in Name : AddBorrower(d, n)
    BY <2>3, AddBorrowerIInv
  <2>4. CASE \E r \in 1..MaxWrites : PaymentsFolder(d, r)
    BY <2>4, PaymentsFolderIInv
  <2>5. CASE \E r \in 1..MaxWrites : AddPayment(d, r)
    BY <2>5, AddPaymentIInv
  <2>6. CASE \E r \in 1..MaxWrites : PaymentsTrap(d, r)
    BY <2>6, PaymentsTrapIInv
  <2>7. CASE BackFromPayments(d)
    BY <2>7, BackFromPaymentsIInv
  <2>8. CASE Logout(d)
    BY <2>8, LogoutIInv
  <2>9. CASE Store(d)
    BY <2>9, StoreIInv
  <2>10. CASE Acknowledge(d)
    BY <2>10, AcknowledgeIInv
  <2>11. CASE Refuse(d)
    BY <2>11, RefuseIInv
  <2>12. CASE \E s \in Screen : ChildAdded(d, s)
    BY <2>12, ChildAddedIInv
  <2>13. CASE ChildTraps(d)
    BY <2>13, ChildTrapsIInv
  <2>14. CASE Restart(d)
    BY <2>14, EndProcessIInv DEF Restart
  <2> QED
    BY <2>1, <2>2, <2>3, <2>4, <2>5, <2>6, <2>7, <2>8, <2>9, <2>10, <2>11, <2>12, <2>13, <2>14
<1>2. CASE UNCHANGED vars
  <2>1. /\ UNCHANGED <<writes, log, pending, refused>>
        /\ tables' = tables /\ left' = left /\ crashed' = crashed
    BY <1>2 DEF vars
  <2>2. Grown /\ PendingOK' /\ KnownKept(Device)
    BY <2>1, SameKeys
  <2>3. TablesOK' /\ LeftOK' /\ CrashedOK'
    BY <2>1, <2>2, NoTableStep, LeftStep, TrapsStep
  <2> QED
    BY <2>2, <2>3 DEF IInv, Grown
<1> QED
  BY <1>1, <1>2

-----------------------------------------------------------------------------
(* The theorems. *)

\* The inductive invariant holds in every state.
THEOREM LedgerIInv == Spec => []IInv
BY InitIInv, NextIInv, PTL DEF Spec

\* Keys are of writes that were made, and each screen observes its own kind of
\* node.
LEMMA IInvTypeOK == IInv => TypeOK
<1> SUFFICES ASSUME IInv PROVE TypeOK
  OBVIOUS
<1>1. writes \in Seq([node : {BorrowersNode} \cup {PaymentsNode(n) : n \in Name}, name : Name])
  BY DEF IInv, WritesOK, Write
<1>2. /\ log \in Seq(1..Len(writes)) /\ refused \subseteq 1..Len(writes)
      /\ pending \in [Device -> Seq(1..Len(writes))]
      /\ tables \in [Device -> [Screen -> Table]]
      /\ crashed \in [Device -> {"no", "yes"}]
  BY DEF IInv, LogOK, PendingOK, TablesOK, CrashedOK
<1>3. ASSUME NEW d \in Device, NEW s \in Screen
      PROVE  tables[d][s].upto <= Len(log) /\ tables[d][s].rows \in Seq(1..Len(writes))
  <2>1. TableOK(tables[d][s], s, writes, log, Known(d), refused)
    BY DEF IInv, TablesOK
  <2>2. tables[d][s].upto \in 0..Len(log) /\ tables[d][s].rows \in Seq(1..Len(writes))
    BY <2>1 DEF TableOK
  <2>3. Len(log) \in Nat
    BY <1>2, LenProperties
  <2> QED
    BY <2>2, <2>3
<1>4. left \in [Device -> SUBSET {PaymentsNode(n) : n \in Name}]
  <2>1. PaymentNodes(writes) \subseteq {PaymentsNode(n) : n \in Name}
    BY NamesOfWrites DEF PaymentNodes, IInv, WritesOK
  <2> QED
    BY <2>1 DEF IInv, LeftOK
<1> QED
  BY <1>1, <1>2, <1>3, <1>4 DEF TypeOK

\* No child has two rows, although the observers of BorrowersTableViewController
\* and PaymentsTableViewController append a row for every event: what is on
\* screen is what the client shows its observer, or was refused, and a refused
\* key is never stored.
THEOREM LedgerNoDuplicateRows == Spec => []NoDuplicateRows
<1>1. IInv => NoDuplicateRows
  <2> SUFFICES ASSUME IInv PROVE NoDuplicateRows
    OBVIOUS
  <2>1. ASSUME NEW d \in Device, NEW s \in Screen PROVE Injective(tables[d][s].rows)
    <3>1. TableOK(tables[d][s], s, writes, log, Known(d), refused)
      BY DEF IInv, TablesOK
    <3> QED
      BY <3>1 DEF TableOK
  <2> QED
    BY <2>1 DEF NoDuplicateRows, Injective
<1> QED
  BY <1>1, LedgerIInv, PTL

\* A table shows children of its node only, and each is stored, waits on this
\* device, or was refused.
THEOREM LedgerRowsAccounted == Spec => []RowsAccounted
<1>1. IInv => RowsAccounted
  <2> SUFFICES ASSUME IInv PROVE RowsAccounted
    OBVIOUS
  <2>1. ASSUME NEW d \in Device, NEW s \in Screen, NEW k \in Elems(tables[d][s].rows)
        PROVE  /\ writes[k].node = tables[d][s].node
               /\ k \in Elems(log) \cup Elems(pending[d]) \cup refused
    <3>1. TableOK(tables[d][s], s, writes, log, Known(d), refused)
      BY DEF IInv, TablesOK
    <3> QED
      BY <3>1 DEF TableOK, Known
  <2> QED
    BY <2>1, IInvTypeOK DEF RowsAccounted
<1> QED
  BY <1>1, LedgerIInv, PTL

\* What the server stored and an observer has been told of is on screen.
THEOREM LedgerNoRowMissed == Spec => []NoRowMissed
<1>1. IInv => NoRowMissed
  <2> SUFFICES ASSUME IInv, NEW d \in Device, NEW s \in Screen, NEW i \in 1..tables[d][s].upto,
                      writes[log[i]].node = tables[d][s].node
               PROVE  log[i] \in Elems(tables[d][s].rows)
    BY DEF NoRowMissed
  <2>1. TableOK(tables[d][s], s, writes, log, Known(d), refused)
    BY DEF IInv, TablesOK
  <2> QED
    BY <2>1 DEF TableOK
<1> QED
  BY <1>1, LedgerIInv, PTL

\* The app traps only because a borrower's name is no path or, as a path,
\* continues another's.
THEOREM LedgerTraps == Spec => []TrapsOnlyOnPathNames
<1>1. IInv => TrapsOnlyOnPathNames
  BY DEF IInv, CrashedOK
<1> QED
  BY <1>1, LedgerIInv, PTL
=============================================================================
