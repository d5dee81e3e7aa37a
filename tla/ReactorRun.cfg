\* Two Read/Write calls of a service on two fds against the IO thread, the peer,
\* interrupts, StopService and the reactor's shutdown; a leaked registration
\* meets the next WaitIO of the same Read loop (the EEXIST path).
CONSTANTS
  Workers = {w1}
  Services = {s1}
  MaxOps = 2
  Ops = {}
  Watched = {}
  None = None
  FdNums = {1, 2}
  Calls = {"Read", "ReadSome", "Write", "Accept", "Connect"}
  Listeners = {2}
  MaxXfer = 2
  MaxEdges = 1
  NoReg = NoReg
  NoFd = NoFd
  Sentinel = Sentinel
SPECIFICATION RSpec
INVARIANTS
  RTypeOK
PROPERTIES
  IOReadyLeadsToReturn
  XferReturns
  AcceptorDrains
  ReactorExits
\* Once every service has exited the idle loops and the IO thread wait forever.
CHECK_DEADLOCK FALSE
