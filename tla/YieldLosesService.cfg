\* Service::Yield against "a Running service is on a worker".
CONSTANTS
  Workers = {w1}
  Services = {s1}
  MaxOps = 1
  Ops = {"Yield"}
  Watched = {}
  None = None
SPECIFICATION Spec
INVARIANT RunningIsOnWorker
CHECK_DEADLOCK FALSE
