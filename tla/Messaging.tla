----------------------------- MODULE Messaging -----------------------------
(***************************************************************************)
(* Message-driven services composed with the scheduler core: the mailbox  *)
(* loop of MessageDrivenServiceMain (src/src/System.cpp:319-385), the     *)
(* launch of a message-driven service (System.h:309-324), SendMessage     *)
(* (System.cpp:388-411), synchronous CallMethod from a user-thread        *)
(* service (System.h:330-354) and asynchronous sends from threads outside *)
(* the runtime (AsyncCallMethod, SendStringMessage), and CallMethod from *)
(* a thread outside the runtime, which blocks on a condition variable     *)
(* (System.h:355-371).                                                    *)
(*                                                                         *)
(* The scheduler's state and its switch, OnResume, StopService and       *)
(* Wakeup_Locked come from Scheduler unchanged; this module adds the      *)
(* mailboxes and the steps of the services that use them.  Actors are    *)
(* the message-driven services (MethodCallServices); the other Services   *)
(* are user threads whose bodies make method calls.  The handler of an    *)
(* actor in NestedCallers may itself make one CallMethod, which suspends  *)
(* the actor inside HandleMessage; its callees never call back, so no     *)
(* cycle of handlers waits on each other.  Message::Done runs the         *)
(* message's closure: WakeUp(src, Response) for a call from a service,    *)
(* the condition variable's done flag for a call from outside.            *)
(***************************************************************************)
EXTENDS Scheduler

CONSTANTS
  Actors,       \* message-driven services (a subset of Services)
  CallTargets,  \* services a user thread's CallMethod may name as destination
  ExtMsgs,      \* threads outside the runtime, each sending one message
  ExtTargets,   \* actors those threads send to
  NestedCallers, \* actors whose handler may make a CallMethod
  NoMsg         \* model value: no message being handled

ASSUME /\ Actors \subseteq Services /\ CallTargets \subseteq Services
       /\ NestedCallers \subseteq Actors /\ ExtTargets \subseteq Actors

Users == Services \ Actors

(* A method call from a service is named by its caller and the caller's *)
(* call number; a message from outside by its sending thread.            *)
CallMsgs == Services \X (1..MaxOps)
AllMsgs == CallMsgs \cup ExtMsgs
Caller(m) == IF m \in CallMsgs THEN m[1] ELSE NoMsg

MEvents == Events \cup {"Message", "Response"}
MsgMask == {"Message", "Stop"}      \* System.cpp:355-357
CallMask == {"Response"}            \* System.h:348

VARIABLES
  mailbox,      \* ServiceContext::msg_queue
  handling,     \* the message MessageDrivenServiceMain holds in msg
  accepted,     \* ghost: messages SendMessage returned OK for
  handled,      \* ghost: messages whose handler has run
  xpc,          \* each outside thread: "idle", "wait" (in cvar.wait), "ret"
  xdone         \* outside callers whose `done` flag the closure has set

msgVars == <<mailbox, handling, accepted, handled, xpc, xdone>>
allVars == <<vars, msgVars>>

-----------------------------------------------------------------------------
(***************************************************************************)
(* SendMessage(msg) to d (System.cpp:388-411): GrabService; under d's     *)
(* lock reject if d is stopping or still Created; else push the message   *)
(* and Wakeup_Locked(Message) if d waits on Message.  Accept(d, m) is the *)
(* OK branch, Reject(d) the kNotFound branches.                           *)
(***************************************************************************)
Reject(d) == ~InTable(d) \/ stopping[d]

AcceptNoWake(d, m) ==
  /\ InTable(d) /\ ~stopping[d]
  /\ mailbox' = [mailbox EXCEPT ![d] = Append(@, m)]
  /\ accepted' = accepted \cup {m}
  /\ UNCHANGED <<events, wakeupSignal, status, runQueue>>

Accept(d, m) ==
  /\ InTable(d) /\ ~stopping[d]
  /\ mailbox' = [mailbox EXCEPT ![d] = Append(@, m)]
  /\ accepted' = accepted \cup {m}
  /\ IF "Message" \in waitEvents[d]
       THEN WakeupLocked(d, "Message")
       ELSE UNCHANGED <<events, wakeupSignal, status, runQueue>>

(***************************************************************************)
(* LaunchService for a message-driven service (System.h:309-324): under   *)
(* its lock, insert into the table, status Blocked, wait_events =         *)
(* Message|Stop, and no self-wake: it stays Blocked until a message or a  *)
(* stop arrives.                                                          *)
(***************************************************************************)
ActorLaunch(a) ==
  /\ pc[a] = "created"
  /\ status' = [status EXCEPT ![a] = "Blocked"]
  /\ waitEvents' = [waitEvents EXCEPT ![a] = MsgMask]
  /\ pc' = [pc EXCEPT ![a] = "loop"]
  /\ UNCHANGED <<events, wakeupSignal, swapping, stopping, runQueue, cur, prev,
                 wpc, ops, revents, envVars, ghostVars, msgVars>>

(***************************************************************************)
(* One turn of MessageDrivenServiceMain's loop (System.cpp:336-367), with *)
(* the lock held at its top.  A non-empty mailbox is served first: pop    *)
(* the front message and drop the lock to handle it.                      *)
(***************************************************************************)
ActorPop(w) ==
  \E a \in Actors :
    /\ Running(w, a) /\ pc[a] = "loop" /\ mailbox[a] # <<>>
    /\ handling' = [handling EXCEPT ![a] = Head(mailbox[a])]
    /\ mailbox' = [mailbox EXCEPT ![a] = Tail(@)]
    /\ pc' = [pc EXCEPT ![a] = "handle"]
    /\ UNCHANGED <<schedVars, ops, revents, envVars, ghostVars, accepted,
                   handled, xpc, xdone>>

(***************************************************************************)
(* Message::Done (Message.h:41-44) runs the closure the sender installed: *)
(* for a call from a service WakeUp(src, Response) (System.h:344-345),    *)
(* GrabService on the caller then Wakeup_Locked under its lock; for a     *)
(* call from outside, done = true and notify (System.h:359-363).  An      *)
(* asynchronous message has no closure here.                              *)
(***************************************************************************)
Done(m) ==
  CASE m \in CallMsgs /\ InTable(Caller(m)) ->
         WakeupLocked(Caller(m), "Response") /\ UNCHANGED xdone
    [] m \in ExtMsgs /\ xpc[m] = "wait" ->
         /\ xdone' = xdone \cup {m}
         /\ UNCHANGED <<events, wakeupSignal, status, runQueue>>
    [] OTHER -> UNCHANGED <<events, wakeupSignal, status, runQueue, xdone>>

(***************************************************************************)
(* The rest of HandleMessage, lock released (System.cpp:344-347):         *)
(* MethodCallService::Dispatch (Service.h:129-150) has run the method;    *)
(* Done(OK) runs the closure and the loop takes the lock again.           *)
(***************************************************************************)
ActorHandle(w) ==
  \E a \in Actors :
    /\ Running(w, a) /\ pc[a] = "handle"
    /\ LET m == handling[a] IN
         /\ handled' = handled \cup {m}
         /\ Done(m)
    /\ handling' = [handling EXCEPT ![a] = NoMsg]
    /\ pc' = [pc EXCEPT ![a] = "loop"]
    /\ UNCHANGED <<swapping, stopping, waitEvents, cur, prev, wpc, ops, revents,
                   envVars, ghostVars, mailbox, accepted, xpc>>

(***************************************************************************)
(* Mailbox empty and stopping latched: leave the loop (System.cpp:350-352) *)
(* and retire (369-384): status Dead, RemoveService, unlock, Schedule().  *)
(***************************************************************************)
ActorExitUnchecked(w) ==
  \E a \in Actors :
    /\ Running(w, a) /\ pc[a] = "loop" /\ stopping[a]
    /\ status' = [status EXCEPT ![a] = "Dead"]
    /\ pc' = [pc EXCEPT ![a] = "dead"]
    /\ wpc' = [wpc EXCEPT ![w] = "sched"]
    /\ UNCHANGED <<events, waitEvents, wakeupSignal, swapping, stopping,
                   runQueue, cur, prev, ops, revents, envVars, ghostVars, msgVars>>

ActorExit(w) ==
  \E a \in Actors :
    /\ Running(w, a) /\ pc[a] = "loop" /\ mailbox[a] = <<>> /\ stopping[a]
    /\ status' = [status EXCEPT ![a] = "Dead"]
    /\ pc' = [pc EXCEPT ![a] = "dead"]
    /\ wpc' = [wpc EXCEPT ![w] = "sched"]
    /\ UNCHANGED <<events, waitEvents, wakeupSignal, swapping, stopping,
                   runQueue, cur, prev, ops, revents, envVars, ghostVars, msgVars>>

(***************************************************************************)
(* Mailbox empty, not stopping, wakeup_signal clear: Wait_Locked(Message  *)
(* |Stop) (System.cpp:354-361).  The branch that only clears a set        *)
(* wakeup_signal (362-365) is not an action: OnResume clears that flag    *)
(* before the loop runs, so it is never set here (LoopSignalClear).       *)
(***************************************************************************)
ActorWait(w) ==
  \E a \in Actors :
    /\ Running(w, a) /\ pc[a] = "loop" /\ mailbox[a] = <<>>
    /\ ~stopping[a] /\ ~wakeupSignal[a]
    /\ WaitLocked(w, a, MsgMask, "mwait", "loop")
    /\ UNCHANGED <<stopping, wakeupSignal, runQueue, cur, prev, ops, envVars,
                   ghostVars, msgVars>>

(* Back from Schedule() in Wait_Locked: consume Message|Stop, loop again. *)
ActorWake(w) ==
  \E a \in Actors :
    /\ Running(w, a) /\ pc[a] = "mwait" /\ MsgMask \cap events[a] # {}
    /\ revents' = [revents EXCEPT ![a] = events[a] \cap MsgMask]
    /\ events' = [events EXCEPT ![a] = @ \ MsgMask]
    /\ pc' = [pc EXCEPT ![a] = "loop"]
    /\ UNCHANGED <<status, swapping, waitEvents, wpc, stopping, wakeupSignal,
                   runQueue, cur, prev, ops, envVars, ghostVars, msgVars>>

-----------------------------------------------------------------------------
(***************************************************************************)
(* CallMethod from a user-thread service (System.h:330-354): SendMessage  *)
(* of a call whose closure posts Response to the caller; if it was        *)
(* accepted, Wait(Response), else return the error.                      *)
(***************************************************************************)
(* The caller's pc in its body or handler, where the call returns to. *)
CallerPc(s) == IF s \in Actors THEN "handle" ELSE "body"

(* A service that may call d now: a user thread in its body, or an actor *)
(* in NestedCallers inside its handler, calling one that never calls.     *)
MayCall(w, s, d) ==
  /\ Running(w, s) /\ d # s /\ ops[s] < MaxOps
  /\ \/ s \in Users /\ pc[s] = "body"
     \/ s \in NestedCallers /\ pc[s] = "handle" /\ d \notin NestedCallers

(* SendMessage with msg_queue.push_back moved above the stopping/kCreated *)
(* test: a refused call still leaves its message in the mailbox.          *)
CallSendPushFirst(w) ==
  \E s \in Services, d \in CallTargets :
    /\ MayCall(w, s, d)
    /\ ops' = [ops EXCEPT ![s] = @ + 1]
    /\ LET m == <<s, ops[s] + 1>> IN
         \/ /\ Accept(d, m)
            /\ pc' = [pc EXCEPT ![s] = "call_sent"]
         \/ /\ Reject(d) /\ status[d] # "Dead"
            /\ mailbox' = [mailbox EXCEPT ![d] = Append(@, m)]
            /\ UNCHANGED <<pc, accepted, events, wakeupSignal, status,
                           runQueue>>
         \/ /\ Reject(d) /\ status[d] = "Dead"
            /\ UNCHANGED <<pc, mailbox, accepted, events, wakeupSignal, status,
                           runQueue>>
    /\ UNCHANGED <<swapping, stopping, waitEvents, cur, prev, wpc, revents,
                   envVars, ghostVars, handling, handled, xpc, xdone>>

CallSend(w) ==
  \E s \in Services, d \in CallTargets :
    /\ MayCall(w, s, d)
    /\ ops' = [ops EXCEPT ![s] = @ + 1]
    /\ LET m == <<s, ops[s] + 1>> IN
         \/ /\ Accept(d, m)
            /\ pc' = [pc EXCEPT ![s] = "call_sent"]
         \/ /\ Reject(d)
            /\ UNCHANGED <<pc, mailbox, accepted, events, wakeupSignal, status,
                           runQueue>>
    /\ UNCHANGED <<swapping, stopping, waitEvents, cur, prev, wpc, revents,
                   envVars, ghostVars, handling, handled, xpc, xdone>>

(* Wait(Response) (System.cpp:433-437), the caller's lock taken again. *)
CallWait(w) ==
  \E s \in Services :
    /\ Running(w, s) /\ pc[s] = "call_sent"
    /\ WaitLocked(w, s, CallMask, "call_wait", CallerPc(s))
    /\ UNCHANGED <<stopping, wakeupSignal, runQueue, cur, prev, ops, envVars,
                   ghostVars, msgVars>>

(* Back from Schedule() in Wait(Response): consume it and return. *)
CallWake(w) ==
  \E s \in Services :
    /\ Running(w, s) /\ pc[s] = "call_wait" /\ "Response" \in events[s]
    /\ revents' = [revents EXCEPT ![s] = events[s] \cap CallMask]
    /\ events' = [events EXCEPT ![s] = @ \ CallMask]
    /\ pc' = [pc EXCEPT ![s] = CallerPc(s)]
    /\ UNCHANGED <<status, swapping, waitEvents, wpc, stopping, wakeupSignal,
                   runQueue, cur, prev, ops, envVars, ghostVars, msgVars>>

(***************************************************************************)
(* AsyncCallMethod / SendStringMessage from a thread outside the runtime  *)
(* (System.h:421-437, System.cpp:413-422): one SendMessage, result        *)
(* ignored by the model.                                                  *)
(***************************************************************************)
ExtSend(m, d) ==
  /\ xpc[m] = "idle"
  /\ xpc' = [xpc EXCEPT ![m] = "ret"]
  /\ \/ Accept(d, m)
     \/ Reject(d) /\ UNCHANGED <<mailbox, accepted, events, wakeupSignal,
                                 status, runQueue>>
  /\ UNCHANGED <<swapping, stopping, waitEvents, cur, prev, wpc, bodyVars,
                 envVars, ghostVars, handling, handled, xdone>>

(***************************************************************************)
(* CallMethod from a thread outside the runtime (System.h:355-371): no    *)
(* current service, so the closure sets a local done flag under a local   *)
(* mutex; SendMessage, and if accepted, cvar.wait until done.             *)
(***************************************************************************)
ExtCall(x, d) ==
  /\ xpc[x] = "idle"
  /\ \/ Accept(d, x) /\ xpc' = [xpc EXCEPT ![x] = "wait"]
     \/ /\ Reject(d) /\ xpc' = [xpc EXCEPT ![x] = "ret"]
        /\ UNCHANGED <<mailbox, accepted, events, wakeupSignal, status, runQueue>>
  /\ UNCHANGED <<swapping, stopping, waitEvents, cur, prev, wpc, bodyVars,
                 envVars, ghostVars, handling, handled, xdone>>

(* cvar.wait(lk, [&done] { return done; }) returns (System.h:367-369). *)
ExtCallReturn(x) ==
  /\ xpc[x] = "wait" /\ x \in xdone
  /\ xpc' = [xpc EXCEPT ![x] = "ret"]
  /\ UNCHANGED <<vars, mailbox, handling, accepted, handled, xdone>>
-----------------------------------------------------------------------------
(* Fresh contexts with empty mailboxes (ServiceContext.h:52-69). *)
MInit ==
  /\ Init
  /\ mailbox = [s \in Services |-> <<>>]
  /\ handling = [s \in Services |-> NoMsg]
  /\ accepted = {} /\ handled = {}
  /\ xpc = [x \in ExtMsgs |-> "idle"] /\ xdone = {}

(* Worker w: the switch, user-thread exit, the actor loop and CallMethod. *)
MWorkerStep(w) ==
  \/ /\ Sched(w) \/ ResumePrev(w) \/ ResumeCur(w) \/ Exit(w)
     /\ UNCHANGED msgVars
  \/ ActorPop(w) \/ ActorHandle(w) \/ ActorExit(w) \/ ActorWait(w)
  \/ ActorWake(w) \/ CallSend(w) \/ CallWait(w) \/ CallWake(w)

(***************************************************************************)
(* Outside threads: launches, stops of actors, and sends.  A stopped user *)
(* thread in CallMethod waits on Response only and goes on to its exit,   *)
(* which Scheduler and Lifecycle check; stops here are of the actors,     *)
(* whose loop decides what happens to their mail.                         *)
(***************************************************************************)
MEnvironment ==
  \/ \E s \in Users : Launch(s) /\ UNCHANGED msgVars
  \/ \E a \in Actors : ActorLaunch(a)
  \/ \E a \in Actors : StopService(a) /\ UNCHANGED msgVars
  \/ \E m \in ExtMsgs, d \in ExtTargets : ExtSend(m, d)
  \/ \E x \in ExtMsgs, d \in ExtTargets : ExtCall(x, d)

MNext == (\E w \in Workers : MWorkerStep(w)) \/ MEnvironment
         \/ \E x \in ExtMsgs : ExtCallReturn(x)

(***************************************************************************)
(* Workers never stop running what they switched to: weak fairness per   *)
(* worker, as in Scheduler.  An outside caller blocked in cvar.wait is    *)
(* notified under the mutex after done is set, so it returns: weak        *)
(* fairness on its return.  Senders and stoppers owe nothing.             *)
(***************************************************************************)
MSpec == MInit /\ [][MNext]_allVars
         /\ \A w \in Workers : WF_allVars(MWorkerStep(w))
         /\ \A x \in ExtMsgs : WF_allVars(ExtCallReturn(x))

-----------------------------------------------------------------------------
MPcValues == PcValues \cup {"loop", "handle", "mwait", "call_sent", "call_wait"}

(* Type invariant.  Its last conjuncts say a handled message is one that  *)
(* SendMessage accepted: a message pushed on a path that returns kNotFound *)
(* to its sender, then drained by the stopping loop, breaks it.           *)
MTypeOK ==
  /\ status \in [Services -> Status]
  /\ events \in [Services -> SUBSET MEvents]
  /\ waitEvents \in [Services -> SUBSET MEvents]
  /\ runQueue \in Seq(Services)
  /\ pc \in [Services -> MPcValues]
  /\ ops \in [Services -> 0..MaxOps]
  /\ mailbox \in [Services -> Seq(AllMsgs)]
  /\ handling \in [Services -> AllMsgs \cup {NoMsg}]
  /\ accepted \subseteq AllMsgs /\ handled \subseteq accepted
  /\ xpc \in [ExtMsgs -> {"idle", "wait", "ret"}] /\ xdone \subseteq ExtMsgs

(***************************************************************************)
(* No accepted message is lost: until its handler has run, a message that *)
(* SendMessage accepted is in the mailbox of, or being handled by, a      *)
(* service that is not Dead.  The loop leaving with mail still queued, or *)
(* SendMessage accepting into a service that has already left its loop,   *)
(* breaks it (the CHECK(msg_queue.empty()) at System.cpp:370).            *)
(***************************************************************************)
MailboxConserved ==
  \A m \in accepted \ handled :
    \E a \in Services :
      /\ m \in Range(mailbox[a]) \/ handling[a] = m
      /\ status[a] # "Dead"

(***************************************************************************)
(* The CHECKs after the mailbox and reply waits hold (System.cpp:360,     *)
(* System.h:349): a service resumed inside Wait(Message|Stop) or          *)
(* Wait(Response) has a requested event pending, so the re-check after    *)
(* Schedule() never falls into Wait_Locked's log-and-block-again branch.  *)
(***************************************************************************)
MsgWaitsWokenWithEvent ==
  \A w \in Workers, s \in Services :
    /\ Running(w, s) /\ pc[s] = "mwait" => MsgMask \cap events[s] # {}
    /\ Running(w, s) /\ pc[s] = "call_wait" => "Response" \in events[s]

(***************************************************************************)
(* The else branch of the mailbox loop (System.cpp:362-365), which clears *)
(* a set wakeup_signal instead of waiting, is dead code: every wake that  *)
(* sets the flag is followed by the OnResume that clears it before the    *)
(* loop runs again.                                                       *)
(***************************************************************************)
LoopSignalClear ==
  \A w \in Workers, a \in Actors :
    Running(w, a) /\ pc[a] = "loop" => ~wakeupSignal[a]

(***************************************************************************)
(* Every message SendMessage accepted is eventually handled: the mailbox  *)
(* loop is woken by the first message into an empty mailbox, and a stop   *)
(* does not cut the queue short.                                          *)
(***************************************************************************)
AcceptedHandled ==
  \A m \in AllMsgs : m \in accepted ~> m \in handled

(***************************************************************************)
(* A synchronous CallMethod whose message was accepted returns (comment   *)
(* at System.h:350-352: the message will be handled eventually), even     *)
(* when the reply closure runs before the caller reaches Wait(Response),  *)
(* when the caller is an actor suspended inside its own handler, and when *)
(* the caller is a thread outside the runtime waiting on its condition    *)
(* variable.                                                              *)
(***************************************************************************)
CallReturns ==
  /\ \A s \in Services :
       pc[s] \in {"call_sent", "call_wait"} ~> pc[s] = CallerPc(s)
  /\ \A x \in ExtMsgs : xpc[x] = "wait" ~> xpc[x] = "ret"

=============================================================================
