SPECIFICATION Spec
CONSTANTS
  Topic = {t1, t2}
  Config = {k1, k2}
  Client = {c1, c2, c3}
  None = None  Torn = Torn  Nobody = Nobody
  MaxRestarts = 2
INVARIANTS AnsweredServed SettledCallsKeep
CHECK_DEADLOCK FALSE
