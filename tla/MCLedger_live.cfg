\* What is stored is eventually shown.
CONSTANTS
  d1 = d1
  d2 = d2
  Device = {d1, d2}
  Name = {"Al"}
  Components <- MCComponents
  MaxWrites = 2
SPECIFICATION FairSpec
PROPERTY StoredIsShown
