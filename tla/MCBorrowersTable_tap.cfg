\* The row number of a search result selects from the unfiltered array.
CONSTANTS
  Name <- MCName
  Text <- MCText
  EmptyText = ""
  Lowercased <- MCLowercased
  Within <- MCWithin
  MaxBorrowers = 2
SPECIFICATION Spec
INVARIANT TapOpensRow
