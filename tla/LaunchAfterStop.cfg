\* One LaunchService racing System::Stop on one worker.
CONSTANTS
  Workers = {w1}
  Services = {s1}
  MaxOps = 1
  Ops = {"WaitSignal"}
  Watched = {}
  None = None
SPECIFICATION LSpec
INVARIANT StopCheckHolds
CHECK_DEADLOCK FALSE
