SPECIFICATION Spec
CONSTANTS
  Record = {r1, r2}
  Torn = Torn  Unreadable = Unreadable
  Half = 2
  MaxData = 5
  MaxOffset = 3
  MaxRestarts = 2
SYMMETRY Records
INVARIANTS AnsweredReadable OnePlacePerOffset
PROPERTIES OffsetLogSpec
CHECK_DEADLOCK FALSE
