\* At twenty past three in the morning the day is the same in UTC, at twenty
\* to ten in the evening UTC is a day ahead.
CONSTANTS
  Amount = {"10", "20"}
  Day = {0, 1}
  TimeOfDay = {200, 1300}
  Offset <- West
  NoDate = NoDate
  MaxTaps = 3
SPECIFICATION FormSpec
INVARIANTS
  FormInvariant
  DatesKeepOrder
