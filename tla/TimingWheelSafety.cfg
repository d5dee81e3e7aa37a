\* The reference invariants range over all 64 ticks and 63 timeouts of the
\* same wheel.
\* Two timers against the timer thread over 40 ticks of a 4 + 4 x 2 slot
\* wheel; the timeouts (1, 3, 4, 9, 17 and 33 ticks, and 0) start a timer
\* in every section and on the synchronous path.
CONSTANTS
  B1 = 2
  B2 = 1
  Timers = {t1, t2}
  Millis = {4, 10, 30, 40, 90, 170, 330}
  Horizon = 40
  NoSlot = NoSlot
SPECIFICATION Spec
INVARIANTS
  TypeOK
  NotLate
  FiresAfterTimeout
  CascadeLeavesSlot
PROPERTIES
  AllFire
\* The clock stops at the horizon.
CHECK_DEADLOCK FALSE
