\* The wait-timeout watchdog posting Interrupt after its target moved on.
CONSTANTS
  Workers = {w1}
  Services = {s1}
  MaxOps = 2
  Ops = {"Sleep"}
  Watched = {s1}
  None = None
SPECIFICATION Spec
INVARIANT NoSpuriousInterrupt
CHECK_DEADLOCK FALSE
