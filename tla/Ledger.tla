------------------------------- MODULE Ledger -------------------------------
(***************************************************************************)
(* Borrowers and payments of one account on several devices.               *)
(*                                                                         *)
(* AddBorrowerViewController and BorrowerViewController write with         *)
(* childByAutoId().setValue and do not wait; BorrowersTableViewController  *)
(* and PaymentsTableViewController append a row for every .childAdded.     *)
(* The Firebase client (external) keeps the children of a node as it knows *)
(* them, its own writes at once and the server's when they arrive, raises  *)
(* the event for a child that is new to an observer, takes a refused write *)
(* back, sends its writes in order and, without persistenceEnabled,        *)
(* forgets its unsent writes when the process ends. No observer is ever removed, and   *)
(* its closure holds its controller: the observer of a screen that was     *)
(* left still gets its events, and may still trap.                         *)
(*                                                                         *)
(* A write is identified by its key, its index in writes. Payments are     *)
(* stored under the borrower's name. child(name) takes a name with slashes *)
(* for a path and raises an exception for an empty name and for one with   *)
(* one of the characters . # $ [ ].                                        *)
(***************************************************************************)
EXTENDS Naturals, Sequences, FiniteSets

CONSTANTS
  Device,
  Name,         \* names of borrowers
  Components,   \* [Name -> sequences], a name split at its slashes, <<>> if
                \* child(name) raises an exception
  MaxWrites     \* bound on the writes

ASSUME NameAssumption == \A n \in Name : Components[n] \in Seq(STRING)
ASSUME WritesAssumption == MaxWrites \in Nat

VARIABLES
  writes,     \* all writes: node and name of the borrower
  log,        \* keys in the order the server stored them
  pending,    \* [Device -> keys not acknowledged yet]
  refused,    \* keys the server refused
  tables,     \* [Device -> [Screen -> table]]
  left,       \* [Device -> nodes observed for PaymentsTVCs that were left]
  crashed     \* [Device -> "no" or "yes"]

vars == <<writes, log, pending, refused, tables, left, crashed>>

-----------------------------------------------------------------------------
Screen == {"BorrowersTVC", "PaymentsTVC"}

\* reference().child("Borrowers").child(uid) and ...child("Payments")...
BorrowersNode == <<"Borrowers">>

\* Mutant: payments are stored under the wrong root.
PaymentsNodeWrongRoot(n) == <<"Borrowers">> \o Components[n]

PaymentsNode(n) == <<"Payments">> \o Components[n]

Elems(s) == {s[i] : i \in 1..Len(s)}
Below(p, q) == Len(p) < Len(q) /\ SubSeq(q, 1, Len(p)) = p

\* A table observes node and shows rows; its observer has been told of upto
\* entries of the log and, as the client sees it, the node has the children view.
Closed == [node |-> <<>>, upto |-> 0, view |-> {}, rows |-> <<>>]
IsOpen(t) == t # Closed

\* Mutant: only children newer than the last row are appended.
ShownIfNewer(t, k) ==
  IF \A r \in Elems(t.rows) : r < k THEN [t EXCEPT !.rows = Append(@, k)] ELSE t

\* Mutant: observeSingleEvent instead of observe.
ShownOnce(t, k) == IF t.rows = <<>> THEN [t EXCEPT !.rows = <<k>>] ELSE t

\* The .childAdded closure for the child of key k: append a row.
Shown(t, k) == [t EXCEPT !.rows = Append(@, k)]

\* The client learns of write w of key k: it raises the event for the table t
\* if the write is a child of t's node, and one that is new to its observer.
Raise(t, k, w) ==
  IF w.node = t.node /\ k \notin t.view
    THEN [Shown(t, k) EXCEPT !.view = @ \cup {k}]
    ELSE t

\* The keys of the writes ws to node among keys, in their order: the one way to
\* number them without gaps.
Selected(node, keys, ws) ==
  LET own == {i \in 1..Len(keys) : ws[keys[i]].node = node}
      inOrder == {p \in [1..Cardinality(own) -> own] :
                    \A i, j \in 1..Cardinality(own) : i < j => p[i] < p[j]}
  IN  {[i \in 1..Cardinality(own) |-> keys[p[i]]] : p \in inOrder}

\* observe(.childAdded) in viewDidLoad: what the client knows by itself, its
\* own pending writes, comes at once, the server's children follow.
Observe(node, keys, ws) ==
  {[node |-> node, upto |-> 0, view |-> Elems(rows), rows |-> rows] :
     rows \in Selected(node, keys, ws)}

\* Nodes device d observes, for screens that are shown or were left.
Observed(d) ==
  left[d] \cup {tables[d][s].node : s \in {z \in Screen : IsOpen(tables[d][z])}}

Running(d) == crashed[d] = "no"

\* The process of device d ends, and with it the client's unsent writes, the
\* screens and the observers.
EndProcess(d, trapped) ==
  /\ crashed' = [crashed EXCEPT ![d] = trapped]
  /\ pending' = [pending EXCEPT ![d] = <<>>]
  /\ tables' = [tables EXCEPT ![d] = [s \in Screen |-> Closed]]
  /\ left' = [left EXCEPT ![d] = {}]
  /\ UNCHANGED <<writes, log, refused>>

-----------------------------------------------------------------------------
Init ==
  /\ writes = <<>>
  /\ log = <<>>
  /\ pending = [d \in Device |-> <<>>]
  /\ refused = {}
  /\ tables = [d \in Device |-> [s \in Screen |-> Closed]]
  /\ left = [d \in Device |-> {}]
  /\ crashed = [d \in Device |-> "no"]

\* After signing in: the list's viewDidLoad.
OpenBorrowers(d) ==
  /\ Running(d)
  /\ ~IsOpen(tables[d]["BorrowersTVC"])
  /\ \E t \in Observe(BorrowersNode, pending[d], writes) :
       tables' = [tables EXCEPT ![d]["BorrowersTVC"] = t]
  /\ UNCHANGED <<writes, log, pending, refused, left, crashed>>

\* childByAutoId().setValue(...): queue write w.
SetValue(d, w) ==
  /\ Len(writes) < MaxWrites
  /\ writes' = Append(writes, w)
  /\ pending' = [pending EXCEPT ![d] = Append(@, Len(writes'))]
  /\ UNCHANGED <<log, refused>>

\* Mutant: the new borrower is appended to the rows here as well.
AddBorrowerAppends(d, n) ==
  LET w == [node |-> BorrowersNode, name |-> n]
  IN  /\ Running(d)
      /\ IsOpen(tables[d]["BorrowersTVC"])
      /\ ~IsOpen(tables[d]["PaymentsTVC"])
      /\ SetValue(d, w)
      /\ tables' = [tables EXCEPT ![d]["BorrowersTVC"] =
                      Raise(Shown(@, Len(writes')), Len(writes'), w)]
      /\ UNCHANGED <<left, crashed>>

\* addBorrowerButtonTapped, from a list with no borrower open.
AddBorrower(d, n) ==
  LET w == [node |-> BorrowersNode, name |-> n]
  IN  /\ Running(d)
      /\ IsOpen(tables[d]["BorrowersTVC"])
      /\ ~IsOpen(tables[d]["PaymentsTVC"])
      /\ SetValue(d, w)
      /\ tables' = [tables EXCEPT ![d]["BorrowersTVC"] = Raise(@, Len(writes'), w)]
      /\ UNCHANGED <<left, crashed>>

\* In the BorrowerVC of the borrower in row r of the list.
AtBorrower(d, r) ==
  /\ Running(d)
  /\ r \in Elems(tables[d]["BorrowersTVC"].rows)
  /\ ~IsOpen(tables[d]["PaymentsTVC"])

\* The PaymentsTVC of row r is pushed and its viewDidLoad observes the node,
\* with the client's pending writes keys of all writes ws.
ShowPayments(d, r, keys, ws) ==
  /\ \E t \in Observe(PaymentsNode(writes[r].name), keys, ws) :
       tables' = [tables EXCEPT ![d]["PaymentsTVC"] = t]
  /\ UNCHANGED <<left, crashed>>

PaymentsFolder(d, r) ==
  /\ AtBorrower(d, r)
  /\ Components[writes[r].name] # <<>>
  /\ ShowPayments(d, r, pending[d], writes)
  /\ UNCHANGED <<writes, log, pending, refused>>

\* addPaymentButtonTapped with an amount and a date: send, then show.
AddPayment(d, r) ==
  /\ AtBorrower(d, r)
  /\ Components[writes[r].name] # <<>>
  /\ SetValue(d, [node |-> PaymentsNode(writes[r].name), name |-> writes[r].name])
  /\ ShowPayments(d, r, pending'[d], writes')

\* Either button, for a borrower whose name is no path.
PaymentsTrap(d, r) ==
  /\ AtBorrower(d, r)
  /\ Components[writes[r].name] = <<>>
  /\ EndProcess(d, "yes")

\* Back from the payments; the list does nothing when it appears again. The
\* observer is not removed.
BackFromPayments(d) ==
  /\ Running(d)
  /\ IsOpen(tables[d]["PaymentsTVC"])
  /\ tables' = [tables EXCEPT ![d]["PaymentsTVC"] = Closed]
  /\ left' = [left EXCEPT ![d] = @ \cup {tables[d]["PaymentsTVC"].node}]
  /\ UNCHANGED <<writes, log, pending, refused, crashed>>

\* logoutButtonTapped pops the list. Its pending writes stay with the client.
Logout(d) ==
  /\ Running(d)
  /\ IsOpen(tables[d]["BorrowersTVC"])
  /\ ~IsOpen(tables[d]["PaymentsTVC"])
  /\ tables' = [tables EXCEPT ![d]["BorrowersTVC"] = Closed]
  /\ UNCHANGED <<writes, log, pending, refused, left, crashed>>

-----------------------------------------------------------------------------
(* The Firebase client and server.                                         *)

\* The server stores the first pending write it does not have yet. A write
\* sent again after a lost acknowledgement has the same key: no effect.
Store(d) ==
  \E i \in 1..Len(pending[d]) :
    /\ pending[d][i] \notin Elems(log)
    /\ \A j \in 1..(i - 1) : pending[d][j] \in Elems(log)
    /\ Running(d)
    /\ log' = Append(log, pending[d][i])
    /\ UNCHANGED <<writes, pending, refused, tables, left, crashed>>

\* The acknowledgement arrives: the completion block only prints.
Acknowledge(d) ==
  /\ Running(d)
  /\ pending[d] # <<>>
  /\ Head(pending[d]) \in Elems(log)
  /\ pending' = [pending EXCEPT ![d] = Tail(@)]
  /\ UNCHANGED <<writes, log, refused, tables, left, crashed>>

\* The server refuses the write: the block prints the error. The client takes
\* it back and raises .childRemoved, which nobody observes, so the row stays.
Refuse(d) ==
  /\ Running(d)
  /\ pending[d] # <<>>
  /\ Head(pending[d]) \notin Elems(log)
  /\ refused' = refused \cup {Head(pending[d])}
  /\ pending' = [pending EXCEPT ![d] = Tail(@)]
  /\ tables' = [tables EXCEPT ![d] =
                  [s \in Screen |-> [tables[d][s] EXCEPT !.view = @ \ {Head(pending[d])}]]]
  /\ UNCHANGED <<writes, log, left, crashed>>

\* The next entry of the log reaches the observer of screen s.
ChildAdded(d, s) ==
  LET t == tables[d][s]
      k == log[t.upto + 1]
  IN  /\ Running(d)
      /\ IsOpen(t)
      /\ t.upto < Len(log)
      /\ ~Below(t.node, writes[k].node)
      /\ tables' = [tables EXCEPT ![d][s] =
                      [Raise(t, k, writes[k]) EXCEPT !.upto = @ + 1]]
      /\ UNCHANGED <<writes, log, pending, refused, left, crashed>>

\* A write of this device, or one the server has, lies below the children of
\* an observed node: the child is no dictionary of strings and as! traps. For
\* a write of its own the client may raise the event at once, or only when it
\* has the whole child from the server.
ChildTraps(d) ==
  /\ Running(d)
  /\ \E node \in Observed(d), k \in Elems(log) \cup Elems(pending[d]) :
       Below(node, writes[k].node)
  /\ EndProcess(d, "yes")

\* Mutant: the screens are restored at the next launch.
RestartRestores(d) ==
  /\ pending' = [pending EXCEPT ![d] = <<>>]
  /\ crashed' = [crashed EXCEPT ![d] = "no"]
  /\ left' = [left EXCEPT ![d] = {}]
  /\ UNCHANGED <<writes, log, refused, tables>>

\* The app is launched, after a trap or after the user ended it.
Restart(d) == EndProcess(d, "no")

Next ==
  \E d \in Device :
    \/ OpenBorrowers(d)
    \/ \E n \in Name : AddBorrower(d, n)
    \/ \E r \in 1..MaxWrites : PaymentsFolder(d, r)
    \/ \E r \in 1..MaxWrites : AddPayment(d, r)
    \/ \E r \in 1..MaxWrites : PaymentsTrap(d, r)
    \/ BackFromPayments(d)
    \/ Logout(d)
    \/ Store(d) \/ Acknowledge(d) \/ Refuse(d)
    \/ \E s \in Screen : ChildAdded(d, s)
    \/ ChildTraps(d)
    \/ Restart(d)

Spec == Init /\ [][Next]_vars

\* The network comes back, and the client sends and receives.
FairSpec ==
  /\ Spec
  /\ \A d \in Device : /\ WF_vars(Store(d))
                       /\ WF_vars(Acknowledge(d))
                       /\ WF_vars(ChildTraps(d))
                       /\ \A s \in Screen : WF_vars(ChildAdded(d, s))

-----------------------------------------------------------------------------
(* Properties                                                              *)

Table == [node : {<<>>, BorrowersNode} \cup {PaymentsNode(n) : n \in Name},
          upto : Nat, view : SUBSET (1..MaxWrites), rows : Seq(1..MaxWrites)]

\* Type invariant: keys are of writes that were made, each screen observes
\* its own kind of node.
TypeOK ==
  /\ writes \in Seq([node : {BorrowersNode} \cup {PaymentsNode(n) : n \in Name},
                     name : Name])
  /\ log \in Seq(1..Len(writes))
  /\ refused \subseteq 1..Len(writes)
  /\ pending \in [Device -> Seq(1..Len(writes))]
  /\ tables \in [Device -> [Screen -> Table]]
  /\ \A d \in Device, s \in Screen :
       /\ tables[d][s].upto <= Len(log)
       /\ tables[d][s].rows \in Seq(1..Len(writes))
  /\ left \in [Device -> SUBSET {PaymentsNode(n) : n \in Name}]
  /\ crashed \in [Device -> {"no", "yes"}]

\* No child has two rows, although the observers append a row for every event
\* and never look whether there is one: a write comes as the client's own, from
\* the server, and again after the table is reopened, and a refused write's row
\* stays when the client has forgotten the child.
NoDuplicateRows ==
  \A d \in Device, s \in Screen :
    \A i, j \in 1..Len(tables[d][s].rows) :
      tables[d][s].rows[i] = tables[d][s].rows[j] => i = j

\* A table shows children of the node it observes only, so that payments mix
\* between borrowers with one name but between no others; each is stored, or
\* waits on this device, or was refused after it was shown.
RowsAccounted ==
  /\ TypeOK
  /\ \A d \in Device, s \in Screen : \A k \in Elems(tables[d][s].rows) :
       /\ writes[k].node = tables[d][s].node
       /\ k \in Elems(log) \cup Elems(pending[d]) \cup refused

\* No write is missed: what the server stored and the observer has been told
\* of is on screen, whoever wrote it and however often the app restarted.
NoRowMissed ==
  \A d \in Device, s \in Screen : \A i \in 1..tables[d][s].upto :
    writes[log[i]].node = tables[d][s].node =>
      log[i] \in Elems(tables[d][s].rows)

\* The app traps only because of names: a borrower's name is no path, or one
\* borrower's name, as a path, continues another's. In particular the list's
\* own cast never traps.
TrapsOnlyOnPathNames ==
  (\E d \in Device : crashed[d] = "yes") =>
    \/ \E i \in 1..Len(writes) : Components[writes[i].name] = <<>>
    \/ \E i, j \in 1..Len(writes) :
         Below(Components[writes[i].name], Components[writes[j].name])

\* What is stored gets on every screen that shows its node, unless the screen
\* is closed or the process ends first.
StoredIsShown ==
  \A d \in Device, s \in Screen, k \in 1..MaxWrites :
    (k \in Elems(log) /\ writes[k].node = tables[d][s].node) ~>
      \/ k \in Elems(tables[d][s].rows)
      \/ tables[d][s] = Closed
      \/ crashed[d] = "yes"
=============================================================================
