--------------------------- MODULE BorrowersTable ---------------------------
(***************************************************************************)
(* BorrowersTableViewController: the list of borrowers, its search bar and *)
(* the selection of a row.                                                 *)
(*                                                                         *)
(* Every handler runs on the main thread, so each is one atomic action;    *)
(* what interleaves are the handlers themselves: .childAdded events from   *)
(* the database, edits of the search text and taps.                        *)
(*                                                                         *)
(* A Borrower is a reference object and the array borrowers is only ever   *)
(* appended to, so a borrower is identified by its index in borrowers.     *)
(* filteredBorrowers keeps the order of borrowers (Array.filter), so it is *)
(* the set of the indices it holds, read in ascending order.               *)
(***************************************************************************)
EXTENDS Naturals, Sequences, FiniteSets

CONSTANTS
  Name,          \* names a borrower can have
  Text,          \* contents the search bar can have
  EmptyText,     \* the empty search text ""
  Lowercased,    \* [Name \cup Text -> ...], String.lowercased()
  Within,        \* pairs <<t, n>> of lowercased strings, t nonempty and in n
  MaxBorrowers   \* bound on the length of borrowers

ASSUME TextAssumption == EmptyText \in Text
ASSUME BoundAssumption == MaxBorrowers \in Nat

VARIABLES
  borrowers,               \* sequence of the borrowers' names
  filteredBorrowers,       \* indices into borrowers
  shouldShowSearchResults,
  indexOfRowUserClicked,   \* 0 is nil; rows are numbered from 1 here
  searchText,              \* text of the search bar (UISearchBar)
  tableRows,               \* row count the table got at its last reloadData
  borrowerAtIndex,         \* index handed to the BorrowerVC on top, 0 if none
  tappedBorrower,          \* history: index shown in the row that was tapped
  tappedIn                 \* history: whether "list" or "results" were shown

vars == <<borrowers, filteredBorrowers, shouldShowSearchResults,
          indexOfRowUserClicked, searchText, tableRows, borrowerAtIndex,
          tappedBorrower, tappedIn>>

history == <<tappedBorrower, tappedIn>>

-----------------------------------------------------------------------------
(* What the data source answers.                                           *)

\* The predicate of the filter closure. range(of:) never finds "".
Found(n, t) == t # EmptyText /\ <<Lowercased[t], Lowercased[n]>> \in Within

\* borrowers.filter { ... } over the first n borrowers.
MatchesAmong(n, t) == {i \in 1..n : Found(borrowers[i], t)}

\* tableView(_:numberOfRowsInSection:) for given array and flag values.
NumberOfRows(all, filtered, searching) ==
  IF searching THEN Cardinality(filtered) ELSE Len(all)

\* The i-th smallest element of S: filteredBorrowers[i].
Nth(S, i) == CHOOSE k \in S : Cardinality({j \in S : j <= k}) = i

\* The borrower behind row i, as tableView(_:cellForRowAt:) selects it.
BorrowerOfRow(i) == IF shouldShowSearchResults THEN Nth(filteredBorrowers, i)
                                               ELSE i

\* tableView(_:cellForRowAt:): the name row i shows.
CellForRowAt(i) == borrowers[BorrowerOfRow(i)]

\* The list is on screen when no BorrowerVC covers it.
ListOnTop == borrowerAtIndex = 0

-----------------------------------------------------------------------------
(* viewDidLoad: empty arrays, an observer on Borrowers/uid.                *)
Init ==
  /\ borrowers = <<>>
  /\ filteredBorrowers = {}
  /\ shouldShowSearchResults = FALSE
  /\ indexOfRowUserClicked = 0
  /\ searchText = EmptyText
  /\ tableRows = 0
  /\ borrowerAtIndex = 0
  /\ tappedBorrower = 0
  /\ tappedIn = "results"

\* borrowers becomes all and the table is reloaded.
ReloadWith(all) ==
  /\ Len(borrowers) < MaxBorrowers
  /\ borrowers' = all
  /\ tableRows' = NumberOfRows(borrowers', filteredBorrowers,
                               shouldShowSearchResults)
  /\ UNCHANGED <<filteredBorrowers, shouldShowSearchResults, searchText,
                 indexOfRowUserClicked, borrowerAtIndex, history>>

\* Mutant: the newest borrower is put on top of the list.
ChildAddedOnTop(n) == ReloadWith(<<n>> \o borrowers)

\* The .childAdded closure: append the borrower, reloadData. It runs whether
\* or not the list is on screen, because the observer is never removed.
ChildAdded(n) == ReloadWith(Append(borrowers, n))

\* The text becomes t, the results become results and the table is reloaded,
\* unless reload is FALSE.
SearchFor(t, results, reload) ==
  /\ ListOnTop
  /\ t # searchText
  /\ searchText' = t
  /\ filteredBorrowers' = results
  /\ shouldShowSearchResults' = (t # EmptyText)
  /\ tableRows' = IF reload THEN NumberOfRows(borrowers, filteredBorrowers',
                                              shouldShowSearchResults')
                            ELSE tableRows
  /\ UNCHANGED <<borrowers, indexOfRowUserClicked, borrowerAtIndex, history>>

\* Mutant: no reloadData when the text becomes empty.
TextDidChangeNoReload(t) ==
  SearchFor(t, MatchesAmong(Len(borrowers), t), t # EmptyText)

\* searchBar(_:textDidChange:): recompute the results, then reload.
TextDidChange(t) == SearchFor(t, MatchesAmong(Len(borrowers), t), TRUE)

\* searchBarSearchButtonClicked. The keyboard offers Search only when the
\* bar is not empty (the default of enablesReturnKeyAutomatically).
SearchBarSearchButtonClicked ==
  /\ ListOnTop
  /\ searchText # EmptyText
  /\ shouldShowSearchResults' = TRUE
  /\ tableRows' = NumberOfRows(borrowers, filteredBorrowers, TRUE)
  /\ UNCHANGED <<borrowers, filteredBorrowers, searchText,
                 indexOfRowUserClicked, borrowerAtIndex, history>>

\* A tap on row: clicked is remembered, borrowers[handed] is handed over.
Select(row, clicked, handed) ==
  /\ ListOnTop
  /\ row \in 1..tableRows
  /\ indexOfRowUserClicked' = clicked
  /\ borrowerAtIndex' = handed
  /\ tappedBorrower' = BorrowerOfRow(row)
  /\ tappedIn' = IF shouldShowSearchResults THEN "results" ELSE "list"
  /\ UNCHANGED <<borrowers, filteredBorrowers, shouldShowSearchResults,
                 searchText, tableRows>>

\* tableView(_:didSelectRowAt:) and, through performSegue, prepare(for:):
\* the row's number selects from borrowers, whatever the table shows.
DidSelectRowAt(row) == Select(row, row, row)

\* The navigation bar's back button on the BorrowerVC.
Back ==
  /\ ~ListOnTop
  /\ borrowerAtIndex' = 0
  /\ UNCHANGED <<borrowers, filteredBorrowers, shouldShowSearchResults,
                 searchText, tableRows, indexOfRowUserClicked, history>>

Next ==
  \/ \E n \in Name : ChildAdded(n)
  \/ \E t \in Text : TextDidChange(t)
  \/ SearchBarSearchButtonClicked
  \/ \E row \in 1..MaxBorrowers : DidSelectRowAt(row)
  \/ Back

Spec == Init /\ [][Next]_vars

-----------------------------------------------------------------------------
(* Properties                                                              *)

\* Type invariant of the list's state.
TypeOK ==
  /\ borrowers \in Seq(Name)
  /\ Len(borrowers) <= MaxBorrowers
  /\ filteredBorrowers \subseteq 1..Len(borrowers)
  /\ shouldShowSearchResults \in BOOLEAN
  /\ indexOfRowUserClicked \in 0..MaxBorrowers
  /\ searchText \in Text
  /\ tableRows \in Nat
  /\ borrowerAtIndex \in 0..MaxBorrowers
  /\ tappedIn \in {"list", "results"}
  /\ tappedIn = "list" => tappedBorrower \in 1..Len(borrowers)

\* Every row the table believes it has is backed by the array cellForRowAt
\* reads: no handler leaves the arrays changed without a reloadData, so
\* scrolling never indexes filteredBorrowers or borrowers out of range.
RowsBacked ==
  tableRows = NumberOfRows(borrowers, filteredBorrowers,
                           shouldShowSearchResults)

\* borrowers[indexOfRowUserClicked!] in prepare(for:) never traps, also when
\* the row number counts search results: every row of the table is a valid
\* index of borrowers, and so is what was handed over.
SelectionInRange ==
  /\ tableRows <= Len(borrowers)
  /\ borrowerAtIndex <= Len(borrowers)

\* filteredBorrowers is what the filter gave for the current text over the
\* borrowers there were when the text was typed: possibly stale, because
\* .childAdded does not refilter, but never a match for another text.
ResultsOfATypedText ==
  \E n \in 0..Len(borrowers) : filteredBorrowers = MatchesAmong(n, searchText)

\* With no search results on screen the borrower handed to the BorrowerVC is
\* the one in the tapped row, however many events arrive meanwhile.
UnfilteredTapOpensRow ==
  (~ListOnTop /\ tappedIn = "list") => borrowerAtIndex = tappedBorrower

\* "Pass the borrower to the BorrowerVC": the BorrowerVC gets the borrower of
\* the row the user tapped. prepare(for:) indexes borrowers with a row number
\* of filteredBorrowers, so this fails while search results are shown.
TapOpensRow == ~ListOnTop => borrowerAtIndex = tappedBorrower

\* The list, its rows and the selection agree in every state: the conjunction
\* of the above, which is inductive with its last conjunct, that the flag
\* follows the text (so that the Search button changes nothing).
ListInvariant ==
  /\ TypeOK
  /\ RowsBacked
  /\ SelectionInRange
  /\ ResultsOfATypedText
  /\ UnfilteredTapOpensRow
  /\ shouldShowSearchResults = (searchText # EmptyText)

\* A row never changes under the user's finger: unless the user edits the
\* text, a row that is there stays, keeps its borrower and shows its name,
\* whatever .childAdded events arrive.
RowsStable ==
  [][searchText' = searchText =>
       \A i \in 1..tableRows : /\ i <= tableRows'
                               /\ BorrowerOfRow(i)' = BorrowerOfRow(i)
                               /\ CellForRowAt(i)' = CellForRowAt(i)]_vars
=============================================================================
