\* Progress of the wait/wakeup protocol and of System::Stop: one weakly fair
\* worker, two services doing one WaitSignal, outside signals, interrupts,
\* stops and launches racing one System::Stop.
CONSTANTS
  Workers = {w1}
  Services = {s1, s2}
  MaxOps = 1
  Ops = {"WaitSignal"}
  Watched = {}
  None = None
SPECIFICATION LSpec
INVARIANTS
  NoSpuriousInterrupt
  StopEndsServices
PROPERTIES
  WakeupLeadsToRun
  StopLeadsToExit
  StopReturns
\* Once Stop has returned, or every service has exited before any Stop,
\* nothing is left to do.
CHECK_DEADLOCK FALSE
