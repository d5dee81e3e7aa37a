\* An interrupted WaitIO followed by a WaitIO on another fd, racing one stale reactor event.
CONSTANTS
  Workers = {w1}
  Services = {s1}
  MaxOps = 2
  Ops = {}
  Watched = {}
  None = None
  FdNums = {1, 2}
  Calls = {"Read"}
  Listeners = {}
  MaxXfer = 1
  MaxEdges = 1
  NoReg = NoReg
  NoFd = NoFd
  Sentinel = Sentinel
SPECIFICATION RSpec
INVARIANTS
  OneShotRegistration
CHECK_DEADLOCK FALSE
