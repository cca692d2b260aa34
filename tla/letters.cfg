SPECIFICATION Spec
CONSTANTS
  Msg = {m1, m2}
  Torn = Torn
  MaxFile = 4
  MaxRestarts = 2
INVARIANTS TakenOnce
PROPERTIES LettersSurvive
CHECK_DEADLOCK FALSE
