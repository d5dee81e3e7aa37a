------------------------------ MODULE Reactor ------------------------------
(***************************************************************************)
(* The I/O reactor composed with the scheduler core: System::WaitIO and   *)
(* System::OnIOReady (src/src/System.cpp:540-577), IOService::Add,        *)
(* Remove and the Run loop (src/src/IOService.cpp:72-133), and the        *)
(* kernel's epoll interest list as the environment.  The WaitIO callers   *)
(* are the loops of TcpConnection::Read, ReadSome and Write (src/src/       *)
(* TcpConnection.cpp:10-85): nonblocking recv/send until the buffer is     *)
(* done, WaitInput/WaitOutput on EAGAIN; and Acceptor::StartAccept's loop  *)
(* on a listening socket (src/src/Acceptor.cpp:95-126).  The remote peers  *)
(* (clients connecting, data, FIN, RST) are the environment of the sockets.*)
(*                                                                         *)
(* A registration carries the service's handle, not the fd               *)
(* (IOService.cpp:81); the reactor finds the fd again through the         *)
(* service's context (GetServiceFD, IOService.cpp:126), which WaitIO      *)
(* overwrites on every call (IOService.cpp:79).  Registrations are edge   *)
(* triggered; EPOLLERR is reported whatever the mask.                     *)
(***************************************************************************)
EXTENDS Scheduler

CONSTANTS
  FdNums,      \* descriptors each service owns (its connections' sockets)
  Calls,       \* the calls a body makes: "Read", "ReadSome", "Write", "Accept",
               \* "Connect"
  Listeners,   \* the FdNums that are listening sockets (Acceptor::sockfd_)
  MaxXfer,     \* the largest byte count n of a Read or Write
  MaxEdges,    \* bound on the peer's events (data, FIN, RST)
  NoReg,       \* model value: fd not in the interest list
  NoFd,        \* model value: ServiceContext::fd == -1
  Sentinel     \* model value: the exit pipe's event, data.u64 == -1

(* A descriptor belongs to the connection, and so to the one service, *)
(* that opened it (TcpConnection, Acceptor); a service waits only on its own. *)
Fds == Services \X FdNums

ASSUME /\ Calls \subseteq {"Read", "ReadSome", "Write", "Accept", "Connect"}
       /\ Listeners \subseteq FdNums /\ MaxXfer \in Nat \ {0} /\ MaxEdges \in Nat

(* The readiness a call waits for: EPOLLOUT for Write and Connect,      *)
(* EPOLLIN else.                                                         *)
Dir(op) == IF op \in {"Write", "Connect"} THEN "OUT" ELSE "IN"

(* WaitIO's io_events argument: WaitInput and WaitOutput add EPOLLET     *)
(* (System.h:121-126); TcpConnector::Connect passes EPOLLOUT alone, a    *)
(* level-triggered registration (TcpConnector.cpp:44).                  *)
IOWaitMask(op) == {Dir(op)} \cup (IF op = "Connect" THEN {} ELSE {"ET"})
Dirs == {Dir(op) : op \in Calls} \cup {"IN"}

IOBits == {"IN", "OUT", "ERR"}
MaskBits == IOBits \cup {"ET"}
IOMask == {"IO", "Stop", "Interrupt"}     \* System.cpp:549-550
REvents == Events \cup {"IO"}

VARIABLES
  fdOf,      \* ServiceContext::fd
  ioEvents,  \* ServiceContext::io_events
  ioWant,    \* WaitIO's io_events argument, kept for the check on return
  reg,       \* epoll interest list: the handle registered for each fd
  regMask,   \* the events each registration asked for
  pend,      \* ready events of a registration not yet returned by epoll_wait
  rbatch,    \* events epoll_wait returned that Run has not dispatched yet
  rpc,       \* IO thread: "head", "wait", "dispatch", "notify", "exited"
  rcur,      \* the event being dispatched
  edges,     \* readiness edges reported so far
  pipeFull,  \* IOService::Stop has written the exit pipe
  rIntr,     \* Thread::Interrupt has been called on the IO thread
  rdy,       \* per socket and direction: bytes readable / send space free
  fin,       \* sockets whose peer has sent FIN
  rst,       \* sockets the peer has reset
  conn,      \* the TcpConnection's sockfd_ of the Read/Write in progress
  xop,       \* which call that is (Read, ReadSome, Write, Accept)
  left       \* read_left / write_left of that call

ioVars == <<fdOf, ioEvents, ioWant, reg, regMask, pend, rbatch, rpc, rcur, edges,
            pipeFull, rIntr>>
tcpVars == <<rdy, fin, rst, conn, xop, left>>
allVars == <<vars, ioVars, tcpVars>>

(* An event returned by epoll_wait: handle, event bits, and (as a ghost,   *)
(* the reactor never sees it) the fd it came from.                        *)
REvent == Services \X (SUBSET IOBits) \X Fds

-----------------------------------------------------------------------------
(* What the kernel's poll of fd reports for the events m: readable data   *)
(* or a FIN for EPOLLIN, free send space for EPOLLOUT; a reset socket is  *)
(* readable and writable with EPOLLERR, which is reported whatever m.     *)
Readiness(fd, m) ==
  {d \in m \cap Dirs : rdy[fd][d] > 0 \/ (d = "IN" /\ fd \in fin) \/ fd \in rst}
  \cup (IF fd \in rst THEN {"ERR"} ELSE {})

(* IOService::Add after SetServiceFD (IOService.cpp:72-88): EPOLL_CTL_ADD *)
(* of fd with the handle as data.  The kernel polls the fd on insertion,  *)
(* so an fd that is already ready is reported by the next epoll_wait.     *)
EpollAdd(s, fd, m) ==
  /\ reg' = [reg EXCEPT ![fd] = s]
  /\ regMask' = [regMask EXCEPT ![fd] = m]
  /\ pend' = [pend EXCEPT ![fd] = Readiness(fd, m)]

(* EPOLL_CTL_DEL of fd (IOService::Remove, IOService.cpp:90-102); the    *)
(* kernel drops its undelivered readiness with the registration.          *)
(* What a registration still has pending once epoll_wait has returned its *)
(* events: nothing if it is edge triggered; its fd's readiness, reported *)
(* again by the next epoll_wait, if it is level triggered.              *)
Rearm ==
  [fd \in Fds |-> IF reg[fd] # NoReg /\ "ET" \notin regMask[fd]
                    THEN Readiness(fd, regMask[fd]) ELSE {}]

EpollDel(fd) ==
  /\ reg' = [reg EXCEPT ![fd] = NoReg]
  /\ pend' = [pend EXCEPT ![fd] = {}]

-----------------------------------------------------------------------------
(***************************************************************************)
(* A call from the service's body on one of its sockets: TcpConnection::  *)
(* Read(buf, n), ReadSome(buf, n) or Write(buf, n) on a connection        *)
(* (TcpConnection.cpp:10-14, 35-41, 58-62), or AcceptorService::Main's    *)
(* StartAccept on the listening socket (Acceptor.h:59-61, Acceptor.cpp:    *)
(* 95-104), or TcpConnector::Connect(srv, ...) on a socket it has just   *)
(* created (TcpConnector.cpp:8-33).  ReadSome's n == 0 early return is   *)
(* left out.                                                              *)
(***************************************************************************)
(* A socket no peer has answered or written to yet. *)
Fresh(fd) == rdy[fd]["OUT"] = 0 /\ rdy[fd]["IN"] = 0 /\ fd \notin fin \cup rst

XferBegin(w) ==
  \E s \in Services, n \in FdNums, op \in Calls, k \in 1..MaxXfer :
    /\ Running(w, s) /\ pc[s] = "body" /\ ops[s] < MaxOps
    /\ (op = "Accept") = (n \in Listeners)
    /\ op = "Connect" => Fresh(<<s, n>>)
    /\ ops' = [ops EXCEPT ![s] = @ + 1]
    /\ conn' = [conn EXCEPT ![s] = <<s, n>>]
    /\ xop' = [xop EXCEPT ![s] = op]
    /\ left' = [left EXCEPT ![s] = IF op \in {"Accept", "Connect"} THEN 0 ELSE k]
    /\ pc' = [pc EXCEPT ![s] = "xfer"]
    /\ UNCHANGED <<schedVars, revents, envVars, ghostVars, ioVars, rdy, fin, rst>>

(* What net::tcp::Recv / Send return on the nonblocking socket now       *)
(* (socketops.cpp:195-234): bytes, kEof (recv of 0 after FIN), kFailed   *)
(* (ECONNRESET, EPIPE) or kAgain.  Queued data is read before the error   *)
(* of a reset; EINTR does not occur on a nonblocking socket.              *)
Outcome(fd, d) ==
  CASE d = "IN" /\ rdy[fd]["IN"] > 0   -> "data"
    [] fd \in rst                      -> "error"
    [] d = "OUT" /\ rdy[fd]["OUT"] > 0 -> "data"
    [] d = "IN" /\ fd \in fin          -> "eof"
    [] OTHER                           -> "again"

(***************************************************************************)
(* One turn of the Read, ReadSome or Write loop: recv/send takes 1..left  *)
(* bytes; Read and Write return OK when none are left, ReadSome after the *)
(* first bytes; kAgain goes on to WaitInput/WaitOutput; EOF and errors    *)
(* return the status.                                                     *)
(***************************************************************************)
Xfer(w) ==
  \E s \in Services :
    LET fd == conn[s]  d == Dir(xop[s]) IN
    /\ Running(w, s) /\ pc[s] = "xfer" /\ xop[s] \notin {"Accept", "Connect"}
    /\ CASE Outcome(fd, d) = "data" ->
              \E k \in 1..left[s] :
                /\ k <= rdy[fd][d]
                /\ rdy' = [rdy EXCEPT ![fd][d] = @ - k]
                /\ left' = [left EXCEPT ![s] = @ - k]
                /\ pc' = [pc EXCEPT ![s] =
                            IF k = left[s] \/ xop[s] = "ReadSome" THEN "body" ELSE "xfer"]
        [] Outcome(fd, d) = "again" ->
              /\ pc' = [pc EXCEPT ![s] = "xfer_wait"]
              /\ UNCHANGED <<rdy, left>>
        [] OTHER ->
              /\ pc' = [pc EXCEPT ![s] = "body"]
              /\ UNCHANGED <<rdy, left>>
    /\ UNCHANGED <<schedVars, ops, revents, envVars, ghostVars, ioVars, fin, rst,
                   conn, xop>>

(***************************************************************************)
(* One turn of Acceptor::StartAccept (Acceptor.cpp:105-122): the loop     *)
(* ends once IsStopping() (a relaxed load of stopping); Accept2 takes a   *)
(* pending connection and hands it to on_new_conn_, returns kAgain on an  *)
(* empty backlog (then WaitInput), or fails and the loop returns: Linux   *)
(* accept() passes a pending connection's network error (ECONNABORTED,    *)
(* EPROTO, ...) back to the caller.  The duplicated IsAgain branch is     *)
(* dead code.                                                             *)
(***************************************************************************)
Accept(w) ==
  \E s \in Services :
    LET fd == conn[s] IN
    /\ Running(w, s) /\ pc[s] = "xfer" /\ xop[s] = "Accept"
    /\ \/ /\ stopping[s]
          /\ pc' = [pc EXCEPT ![s] = "body"]
          /\ UNCHANGED rdy
       \/ /\ ~stopping[s] /\ rdy[fd]["IN"] > 0
          /\ rdy' = [rdy EXCEPT ![fd]["IN"] = @ - 1]
          /\ \/ UNCHANGED pc
             \/ pc' = [pc EXCEPT ![s] = "body"]
       \/ /\ ~stopping[s] /\ rdy[fd]["IN"] = 0
          /\ pc' = [pc EXCEPT ![s] = "xfer_wait"]
          /\ UNCHANGED rdy
    /\ UNCHANGED <<schedVars, ops, revents, envVars, ghostVars, ioVars, fin, rst,
                   conn, xop, left>>

(***************************************************************************)
(* TcpConnector::Connect's loop (TcpConnector.cpp:34-54) with net::tcp::  *)
(* Connect (socketops.cpp:167-188): connect() succeeds (EISCONN) once the *)
(* peer has answered, fails once it has refused (reset), and otherwise    *)
(* returns EINPROGRESS, after which Connect makes one WaitIO(fd, EPOLLOUT)*)
(* and returns its status.                                                *)
(***************************************************************************)
Connect(w) ==
  \E s \in Services :
    /\ Running(w, s) /\ pc[s] = "xfer" /\ xop[s] = "Connect"
    /\ pc' = [pc EXCEPT ![s] =
                IF Outcome(conn[s], "OUT") = "again" THEN "xfer_wait" ELSE "body"]
    /\ UNCHANGED <<schedVars, ops, revents, envVars, ghostVars, ioVars, tcpVars>>

(***************************************************************************)
(* WaitInput / WaitOutput: WaitIO(fd, EPOLLIN|OUT | EPOLLET) entry         *)
(* (System.cpp:545-551), under s's lock: io_events = 0, IOService::Add    *)
(* (SetServiceFD, then EPOLL_CTL_ADD, which fails with EEXIST if the fd   *)
(* is still registered: WaitIO, and so Read/Write, return that error),    *)
(* then Wait_Locked(IO|Stop|Interrupt).                                   *)
(***************************************************************************)
IOWaitOutput(w) ==
  \E s \in Services :
    LET fd == conn[s]  m == IF xop[s] = "Accept" THEN {"OUT", "ET"} ELSE IOWaitMask(xop[s]) IN
    /\ Running(w, s) /\ pc[s] = "xfer_wait"
    /\ fdOf' = [fdOf EXCEPT ![s] = fd]
    /\ ioEvents' = [ioEvents EXCEPT ![s] = {}]
    /\ ioWant' = [ioWant EXCEPT ![s] = m]
    /\ \/ /\ reg[fd] # NoReg
          /\ pc' = [pc EXCEPT ![s] = "body"]
          /\ UNCHANGED <<reg, regMask, pend, schedVars, revents>>
       \/ /\ reg[fd] = NoReg
          /\ EpollAdd(s, fd, m)
          /\ WaitLocked(w, s, IOMask, "io_wait", "io_ret")
          /\ UNCHANGED <<stopping, wakeupSignal, runQueue, cur, prev>>
    /\ UNCHANGED <<ops, envVars, ghostVars, rbatch, rpc, rcur, edges, pipeFull,
                   rIntr, tcpVars>>

IOWait(w) ==
  \E s \in Services :
    LET fd == conn[s]  m == IOWaitMask(xop[s]) IN
    /\ Running(w, s) /\ pc[s] = "xfer_wait"
    /\ fdOf' = [fdOf EXCEPT ![s] = fd]
    /\ ioEvents' = [ioEvents EXCEPT ![s] = {}]
    /\ ioWant' = [ioWant EXCEPT ![s] = m]
    /\ \/ /\ reg[fd] # NoReg
          /\ pc' = [pc EXCEPT ![s] = "body"]
          /\ UNCHANGED <<reg, regMask, pend, schedVars, revents>>
       \/ /\ reg[fd] = NoReg
          /\ EpollAdd(s, fd, m)
          /\ WaitLocked(w, s, IOMask, "io_wait", "io_ret")
          /\ UNCHANGED <<stopping, wakeupSignal, runQueue, cur, prev>>
    /\ UNCHANGED <<ops, envVars, ghostVars, rbatch, rpc, rcur, edges, pipeFull,
                   rIntr, tcpVars>>

(* Back from Schedule() in Wait_Locked: consume IO|Stop|Interrupt. *)
IOWake(w) ==
  \E s \in Services :
    /\ Running(w, s) /\ pc[s] = "io_wait" /\ IOMask \cap events[s] # {}
    /\ revents' = [revents EXCEPT ![s] = events[s] \cap IOMask]
    /\ events' = [events EXCEPT ![s] = @ \ IOMask]
    /\ pc' = [pc EXCEPT ![s] = "io_ret"]
    /\ UNCHANGED <<status, swapping, waitEvents, wpc, stopping, wakeupSignal,
                   runQueue, cur, prev, ops, envVars, ghostVars, ioVars, tcpVars>>

(***************************************************************************)
(* End of WaitIO (System.cpp:552-565), lock released: woken by IO it      *)
(* returns OK if io_events has a requested bit, else "io error";          *)
(* otherwise IOService::Remove (EPOLL_CTL_DEL of its fd) and kInterrupt.  *)
(* Read/ReadSome/Write and the accept loop go round again on OK and       *)
(* return any error (TcpConnection.cpp:21-23, 47-49, 69-71, Acceptor.cpp: *)
(* 112-116); Connect returns WaitIO's status, OK included, at once       *)
(* (TcpConnector.cpp:44-49).                                              *)
(***************************************************************************)
IOReturnIgnoreError(w) ==
  \E s \in Services :
    /\ Running(w, s) /\ pc[s] = "io_ret"
    /\ pc' = [pc EXCEPT ![s] = "xfer"]
    /\ IF "IO" \in revents[s]
         THEN UNCHANGED <<reg, pend>>
         ELSE EpollDel(fdOf[s])
    /\ UNCHANGED <<schedVars, ops, revents, envVars, ghostVars, fdOf, ioEvents,
                   ioWant, regMask, rbatch, rpc, rcur, edges, pipeFull, rIntr,
                   tcpVars>>

IOReturn(w) ==
  \E s \in Services :
    /\ Running(w, s) /\ pc[s] = "io_ret"
    /\ pc' = [pc EXCEPT ![s] =
                IF "IO" \in revents[s] /\ ioEvents[s] \cap ioWant[s] # {}
                     /\ xop[s] # "Connect"
                  THEN "xfer" ELSE "body"]
    /\ IF "IO" \in revents[s]
         THEN UNCHANGED <<reg, pend>>
         ELSE EpollDel(fdOf[s])
    /\ UNCHANGED <<schedVars, ops, revents, envVars, ghostVars, fdOf, ioEvents,
                   ioWant, regMask, rbatch, rpc, rcur, edges, pipeFull, rIntr,
                   tcpVars>>

-----------------------------------------------------------------------------
(***************************************************************************)
(* The remote peer.  Each event is an edge for a registration that asks   *)
(* for it (EPOLLERR always): new data or send space, or on a listening    *)
(* socket a client's connection entering the backlog (one, bounded by     *)
(* MaxEdges with the others), a FIN, or a reset, after which the socket   *)
(* is readable and writable with an error.                                *)
(***************************************************************************)
Edge(fd, bits) ==
  pend' = IF reg[fd] # NoReg
            THEN [pend EXCEPT ![fd] = @ \cup (bits \cap (regMask[fd] \cup {"ERR"}))]
            ELSE pend

PeerData(fd, d) ==
  /\ edges < MaxEdges /\ fd \notin rst /\ (d = "IN" => fd \notin fin)
  /\ fd[2] \in Listeners => d = "IN"
  /\ rdy' = [rdy EXCEPT ![fd][d] = @ + 1]
  /\ Edge(fd, {d})
  /\ edges' = edges + 1
  /\ UNCHANGED <<fin, rst, conn, xop, left>>

PeerFin(fd) ==
  /\ edges < MaxEdges /\ fd \notin fin \cup rst /\ fd[2] \notin Listeners
  /\ fin' = fin \cup {fd}
  /\ Edge(fd, {"IN"})
  /\ edges' = edges + 1
  /\ UNCHANGED <<rdy, rst, conn, xop, left>>

PeerReset(fd) ==
  /\ edges < MaxEdges /\ fd \notin rst /\ fd[2] \notin Listeners
  /\ rst' = rst \cup {fd}
  /\ Edge(fd, {"IN", "OUT", "ERR"})
  /\ edges' = edges + 1
  /\ UNCHANGED <<rdy, fin, conn, xop, left>>

(***************************************************************************)
(* IOService::Run (IOService.cpp:104-133).  The loop head checks the      *)
(* thread's interrupt flag; epoll_wait blocks with no timeout until some  *)
(* registration is ready and returns all of them (edge triggered: their   *)
(* events are cleared).  The exit pipe's read end is registered level     *)
(* triggered (IOService.cpp:29-32) and nothing reads it, so once written  *)
(* it is in every batch.  No signal is sent to the IO thread: the EINTR   *)
(* path is left out.                                                      *)
(***************************************************************************)
LoopHead ==
  /\ rpc = "head"
  /\ rpc' = IF rIntr THEN "exited" ELSE "wait"
  /\ UNCHANGED <<vars, fdOf, ioEvents, ioWant, reg, regMask, pend, rbatch, rcur,
                 edges, pipeFull, rIntr>>

Ready(fd) == pend[fd] # {}
PipeEvent == IF pipeFull THEN {Sentinel} ELSE {}

EpollWaitAll ==
  /\ rpc = "wait"
  /\ (\E fd \in Fds : Ready(fd)) \/ pipeFull
  /\ rbatch' = {<<reg[fd], pend[fd], fd>> : fd \in Fds} \cup PipeEvent
  /\ pend' = Rearm
  /\ rpc' = "dispatch"
  /\ UNCHANGED <<vars, fdOf, ioEvents, ioWant, reg, regMask, rcur, edges,
                 pipeFull, rIntr>>

EpollWaitNoPipe ==
  /\ rpc = "wait"
  /\ \E fd \in Fds : Ready(fd)
  /\ rbatch' = {<<reg[fd], pend[fd], fd>> : fd \in {f \in Fds : Ready(f)}}
  /\ pend' = Rearm
  /\ rpc' = "dispatch"
  /\ UNCHANGED <<vars, fdOf, ioEvents, ioWant, reg, regMask, rcur, edges,
                 pipeFull, rIntr>>

EpollWait ==
  /\ rpc = "wait"
  /\ (\E fd \in Fds : Ready(fd)) \/ pipeFull
  /\ rbatch' = {<<reg[fd], pend[fd], fd>> : fd \in {f \in Fds : Ready(f)}} \cup PipeEvent
  /\ pend' = Rearm
  /\ rpc' = "dispatch"
  /\ UNCHANGED <<vars, fdOf, ioEvents, ioWant, reg, regMask, rcur, edges,
                 pipeFull, rIntr>>

(* Where the loop goes once an event is done: the next one, or the head. *)
NextInBatch(b) == IF b = {} THEN "head" ELSE "dispatch"

(***************************************************************************)
(* One returned service event (IOService.cpp:123-128), in any order: the  *)
(* batch's order is the kernel's.  GrabService by handle; if the service  *)
(* still exists, read its current fd (no lock) and EPOLL_CTL_DEL that fd, *)
(* then go on to OnIOReady.                                               *)
(***************************************************************************)
ReactorDel(ev) ==
  /\ rpc = "dispatch" /\ ev \in rbatch /\ ev # Sentinel
  /\ rbatch' = rbatch \ {ev}
  /\ LET s == ev[1] IN
       IF InTable(s)
         THEN /\ EpollDel(fdOf[s])
              /\ rcur' = ev
              /\ rpc' = "notify"
         ELSE /\ rpc' = NextInBatch(rbatch')
              /\ UNCHANGED <<reg, pend, rcur>>
  /\ UNCHANGED <<vars, fdOf, ioEvents, ioWant, regMask, edges, pipeFull, rIntr>>

(* The exit pipe's event (IOService.cpp:118-121): Run returns at once; the *)
(* rest of the batch is never dispatched.                                  *)
ReactorExit ==
  /\ rpc = "dispatch" /\ Sentinel \in rbatch
  /\ rpc' = "exited" /\ rbatch' = {}
  /\ UNCHANGED <<vars, fdOf, ioEvents, ioWant, reg, regMask, pend, rcur, edges,
                 pipeFull, rIntr>>

(***************************************************************************)
(* System::OnIOReady (System.cpp:568-577), under s's lock: if s waits on  *)
(* IO, store the event bits in io_events and Wakeup_Locked(IO).           *)
(***************************************************************************)
ReactorNotifyExactMask ==
  /\ rpc = "notify"
  /\ LET s == rcur[1] IN
       IF waitEvents[s] = {"IO"}
         THEN /\ ioEvents' = [ioEvents EXCEPT ![s] = rcur[2]]
              /\ WakeupLocked(s, "IO")
         ELSE UNCHANGED <<ioEvents, events, wakeupSignal, status, runQueue>>
  /\ rpc' = NextInBatch(rbatch)
  /\ UNCHANGED <<swapping, stopping, waitEvents, cur, prev, wpc, bodyVars,
                 envVars, ghostVars, fdOf, ioWant, reg, regMask, pend, rbatch,
                 rcur, edges, pipeFull, rIntr>>

ReactorNotify ==
  /\ rpc = "notify"
  /\ LET s == rcur[1] IN
       IF "IO" \in waitEvents[s]
         THEN /\ ioEvents' = [ioEvents EXCEPT ![s] = rcur[2]]
              /\ WakeupLocked(s, "IO")
         ELSE UNCHANGED <<ioEvents, events, wakeupSignal, status, runQueue>>
  /\ rpc' = NextInBatch(rbatch)
  /\ UNCHANGED <<swapping, stopping, waitEvents, cur, prev, wpc, bodyVars,
                 envVars, ghostVars, fdOf, ioWant, reg, regMask, pend, rbatch,
                 rcur, edges, pipeFull, rIntr>>

(***************************************************************************)
(* System::Stop (System.cpp:74-77), after StopAllService has stopped      *)
(* every service in the table: IOService::Stop writes one byte into the   *)
(* exit pipe (IOService.cpp:45-48), and then the IO thread is             *)
(* interrupted.                                                           *)
(***************************************************************************)
IOStop ==
  /\ ~pipeFull
  /\ \A s \in Services : InTable(s) => stopping[s]
  /\ pipeFull' = TRUE
  /\ UNCHANGED <<vars, fdOf, ioEvents, ioWant, reg, regMask, pend, rbatch, rpc,
                 rcur, edges, rIntr>>

IOInterrupt ==
  /\ pipeFull /\ ~rIntr
  /\ rIntr' = TRUE
  /\ UNCHANGED <<vars, fdOf, ioEvents, ioWant, reg, regMask, pend, rbatch, rpc,
                 rcur, edges, pipeFull>>
-----------------------------------------------------------------------------
(***************************************************************************)
(* IOService::Initialize has registered the exit pipe (IOService.cpp:     *)
(* 15-43) and Run is at its loop head; no service fd is registered.       *)
(***************************************************************************)
RInit ==
  /\ Init
  /\ fdOf = [s \in Services |-> NoFd]
  /\ ioEvents = [s \in Services |-> {}]
  /\ ioWant = [s \in Services |-> {}]
  /\ reg = [fd \in Fds |-> NoReg]
  /\ regMask = [fd \in Fds |-> {}]
  /\ pend = [fd \in Fds |-> {}]
  /\ rbatch = {} /\ rpc = "head" /\ rcur = CHOOSE ev \in REvent : TRUE
  /\ edges = 0 /\ pipeFull = FALSE /\ rIntr = FALSE
  /\ rdy = [fd \in Fds |-> [d \in Dirs |-> 0]] /\ fin = {} /\ rst = {}
  /\ conn = [s \in Services |-> NoFd] /\ xop = [s \in Services |-> "Read"]
  /\ left = [s \in Services |-> 0]

(* Worker w: the switch, the end of a service, the socket calls and WaitIO. *)
RWorkerStep(w) ==
  \/ /\ Sched(w) \/ ResumePrev(w) \/ ResumeCur(w) \/ Exit(w)
     /\ UNCHANGED <<ioVars, tcpVars>>
  \/ XferBegin(w) \/ Xfer(w) \/ Accept(w) \/ Connect(w) \/ IOWait(w) \/ IOWake(w) \/ IOReturn(w)

(* The IO thread running IOService::Run. *)
ReactorStep ==
  /\ \/ LoopHead \/ EpollWait \/ ReactorNotify \/ ReactorExit
     \/ \E ev \in rbatch : ReactorDel(ev)
  /\ UNCHANGED tcpVars

(* The remote peers of the connections. *)
Peer ==
  /\ \/ \E fd \in Fds : PeerFin(fd) \/ PeerReset(fd)
     \/ \E fd \in Fds, d \in Dirs : PeerData(fd, d)
  /\ UNCHANGED <<vars, fdOf, ioEvents, ioWant, reg, regMask, rbatch, rpc, rcur,
                 pipeFull, rIntr>>

(* Outside callers, System::Stop and the kernel.  LaunchService returns  *)
(* an empty handle once the system is stopped (System.h:286).           *)
REnvironment ==
  \/ \E s \in Services :
       \/ Launch(s) /\ ~pipeFull /\ UNCHANGED <<ioVars, tcpVars>>
       \/ (InterruptService(s) \/ StopService(s)) /\ UNCHANGED <<ioVars, tcpVars>>
  \/ (IOStop \/ IOInterrupt) /\ UNCHANGED tcpVars
  \/ Peer

RNext == (\E w \in Workers : RWorkerStep(w)) \/ ReactorStep \/ REnvironment

(***************************************************************************)
(* Workers and the IO thread run forever (epoll_wait blocks with no       *)
(* timeout and returns as soon as an event is ready): weak fairness on    *)
(* each.  The peers and outside callers owe nothing.                    *)
(***************************************************************************)
RSpec == RInit /\ [][RNext]_allVars
         /\ \A w \in Workers : WF_allVars(RWorkerStep(w))
         /\ WF_allVars(ReactorStep)

-----------------------------------------------------------------------------
RPcValues == PcValues \cup {"xfer", "xfer_wait", "io_wait", "io_ret"}

RTypeOK ==
  /\ status \in [Services -> Status]
  /\ events \in [Services -> SUBSET REvents]
  /\ pc \in [Services -> RPcValues]
  /\ fdOf \in [Services -> Fds \cup {NoFd}]
  /\ ioEvents \in [Services -> SUBSET IOBits]
  /\ ioWant \in [Services -> SUBSET MaskBits]
  /\ reg \in [Fds -> Services \cup {NoReg}]
  /\ regMask \in [Fds -> SUBSET MaskBits]
  /\ pend \in [Fds -> SUBSET IOBits]
  /\ rbatch \subseteq REvent \cup {Sentinel} /\ rcur \in REvent
  /\ rpc \in {"head", "wait", "dispatch", "notify", "exited"}
  /\ edges \in 0..MaxEdges /\ pipeFull \in BOOLEAN /\ rIntr \in BOOLEAN
  /\ rdy \in [Fds -> [Dirs -> 0..MaxEdges]] /\ fin \subseteq Fds /\ rst \subseteq Fds
  /\ conn \in [Services -> Fds \cup {NoFd}] /\ xop \in [Services -> Calls \cup {"Read"}]
  /\ left \in [Services -> 0..MaxXfer]

(***************************************************************************)
(* A readiness edge on the fd a service waits on ends that WaitIO: the    *)
(* reactor's EPOLL_CTL_DEL and OnIOReady reach the waiter, and the wake   *)
(* is not lost in the switch window or to a concurrent interrupt.         *)
(***************************************************************************)
IOReadyLeadsToReturn ==
  \A s \in Services :
    (pc[s] = "io_wait" /\ \E fd \in Fds : reg[fd] = s /\ pend[fd] # {})
      ~> pc[s] # "io_wait"

(***************************************************************************)
(* IOService::Stop ends the IO thread so that System::Stop's join of it   *)
(* returns (spec 8: the reactor thread has joined after Stop): the exit   *)
(* pipe's event reaches Run whatever batch it arrives in, even if the     *)
(* thread's interrupt flag is never set.                                  *)
(***************************************************************************)
ReactorExits == pipeFull ~> rpc = "exited"

(***************************************************************************)
(* Registrations are one-shot per WaitIO (spec 4.2: edge-triggered        *)
(* single-shot registration per operation): an fd is in the interest list *)
(* only while the WaitIO that added it is in progress.  A registration    *)
(* left behind makes the next WaitIO on that fd fail with EEXIST and      *)
(* routes its later events to whatever the service waits on then.        *)
(***************************************************************************)
OneShotRegistration ==
  \A fd \in Fds :
    reg[fd] # NoReg =>
      /\ pc[reg[fd]] \in {"io_wait", "io_ret"}
      /\ fdOf[reg[fd]] = fd

(***************************************************************************)
(* The socket calls return once they can: a Read whose bytes are all      *)
(* readable (ReadSome: any byte), a Write whose send space is free, a     *)
(* Connect whose peer has answered, a read whose peer has sent FIN, any   *)
(* call on a reset connection, and any call, the accept loop included,    *)
(* whose service is being stopped eventually returns.  Readiness that     *)
(* arrives between the EAGAIN and WaitIO's EPOLL_CTL_ADD, a stale reactor *)
(* event that deletes the new registration, and a WaitIO ended by Stop    *)
(* must not leave it waiting or spinning.                                 *)
(***************************************************************************)
XferPcs == {"xfer", "xfer_wait", "io_wait", "io_ret"}

CanComplete(s) ==
  LET fd == conn[s]  d == Dir(xop[s]) IN
    \/ /\ xop[s] # "Accept"
       /\ \/ rdy[fd][d] >= (IF xop[s] \in {"ReadSome", "Connect"} THEN 1 ELSE left[s])
          \/ fd \in rst
          \/ d = "IN" /\ fd \in fin
    \/ stopping[s]

XferReturns ==
  \A s \in Services : (pc[s] \in XferPcs /\ CanComplete(s)) ~> pc[s] \notin XferPcs

(***************************************************************************)
(* The accept loop drains its backlog: a client connection pending on the *)
(* listening socket is eventually taken by Accept2 and handed to          *)
(* on_new_conn_, unless StartAccept has returned (stop, an interrupted    *)
(* WaitInput, an accept error).  A connection that arrives while the loop *)
(* is between accept()'s EAGAIN and WaitInput's EPOLL_CTL_ADD, or whose   *)
(* edge a stale reactor event consumed, must not wait for a next client.  *)
(***************************************************************************)
Pending(s) == xop[s] = "Accept" /\ pc[s] \in XferPcs /\ rdy[conn[s]]["IN"] > 0

AcceptorDrains ==
  \A s \in Services : Pending(s) ~> (pc[s] \notin XferPcs \/ rdy[conn[s]]["IN"] = 0)
=============================================================================
