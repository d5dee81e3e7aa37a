\* Safety of the wait/wakeup protocol with every primitive and every waker.
CONSTANTS
  Workers = {w1, w2}
  Services = {s1, s2}
  MaxOps = 1
  Ops = {"Sleep", "WaitSignal", "Yield"}
  Watched = {s1, s2}
  None = None
SPECIFICATION Spec
SYMMETRY MC_Symmetry
INVARIANTS
  TypeOK
  OneStackOneWorker
  ReadyQueueSound
  NoLostWakeup
  AssertionsHold
  WokenWaitHasEvent
PROPERTIES
  LifecycleRefined
\* Once every service has exited the idle loops spin with nothing to do.
CHECK_DEADLOCK FALSE
