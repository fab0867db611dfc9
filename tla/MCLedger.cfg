\* Safety of rows, log and screens, and which names make the app trap.
CONSTANTS
  d1 = d1
  d2 = d2
  Device = {d1, d2}
  Name = {"Al", "Al/Jr", "Al Jr."}
  Components <- MCComponents
  MaxWrites = 3
SPECIFICATION Spec
CONSTRAINT InScene
INVARIANTS
  NoDuplicateRows
  RowsAccounted
  NoRowMissed
  TrapsOnlyOnPathNames
