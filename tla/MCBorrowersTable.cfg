\* Invariants and stability of the list under events, searches and taps.
CONSTANTS
  Name <- MCName
  Text <- MCText
  EmptyText = ""
  Lowercased <- MCLowercased
  Within <- MCWithin
  MaxBorrowers = 4
SPECIFICATION Spec
INVARIANTS
  ListInvariant
PROPERTY RowsStable
