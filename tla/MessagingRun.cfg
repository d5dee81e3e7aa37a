\* Mailbox loop, SendMessage and CallMethod on two workers: a user thread
\* calls a2; an outside thread sends to a1, asynchronously or by a blocking
\* CallMethod; a1's handler may call a2, so the outside call waits on a chain
\* of two calls.  Either actor may be stopped.
CONSTANTS
  Workers = {w1, w2}
  Services = {c1, a1, a2}
  Actors = {a1, a2}
  CallTargets = {a2}
  ExtMsgs = {e1}
  ExtTargets = {a1}
  NestedCallers = {a1}
  MaxOps = 1
  Ops = {}
  Watched = {}
  None = None
  NoMsg = NoMsg
SPECIFICATION MSpec
INVARIANTS
  MTypeOK
  MailboxConserved
  MsgWaitsWokenWithEvent
  LoopSignalClear
PROPERTIES
  AcceptedHandled
  CallReturns
\* Once every service has exited the idle loops spin with nothing to do.
CHECK_DEADLOCK FALSE
