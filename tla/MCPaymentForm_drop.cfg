\* A payment for the day first shown is not sent.
CONSTANTS
  Amount = {"10", "20"}
  Day = {0, 1}
  TimeOfDay = {720}
  Offset <- West
  NoDate = NoDate
  MaxTaps = 3
SPECIFICATION FormSpec
INVARIANT EveryTapSends
