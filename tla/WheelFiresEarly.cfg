\* A timer added while the timer thread is between fetch_add and the splice
\* of the tick it took.
CONSTANTS
  B1 = 2
  B2 = 1
  Timers = {t1}
  Millis = {30}
  Horizon = 12
  NoSlot = NoSlot
SPECIFICATION Spec
INVARIANT FiresOnDue
CHECK_DEADLOCK FALSE
