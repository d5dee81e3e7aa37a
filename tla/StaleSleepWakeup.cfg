\* An interrupted Sleep whose timer was already spliced out by Update.
CONSTANTS
  Workers = {w1}
  Services = {s1}
  MaxOps = 2
  Ops = {"Sleep"}
  Watched = {}
  None = None
SPECIFICATION Spec
INVARIANT SleepOnlyEndsByOwnTimer
CHECK_DEADLOCK FALSE
