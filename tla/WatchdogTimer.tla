---------------------------- MODULE WatchdogTimer ----------------------------
(***************************************************************************)
(* The watchdog's own periodic timer (src/src/WakeupService.cpp): the     *)
(* WakeupService is a method-call service whose handlers AddService and   *)
(* Update run one at a time, in mailbox order; Update re-arms the timer,  *)
(* and AddService arms it when timer_, a weak handle, has expired.  The   *)
(* timer's callback runs on the timer thread and only queues an Update    *)
(* (AsyncCallMethod); the timer object stays alive until TimerService's   *)
(* Update has run the callbacks of its whole batch.                       *)
(*                                                                         *)
(* The list of watched services and the interval are left out: neither   *)
(* decides whether a timer is armed.  Timer ids are allocated in order.  *)
(***************************************************************************)
EXTENDS Naturals, Sequences, FiniteSets

CONSTANTS
  MaxAdds,    \* WakeupIfWaitTimeout calls (AsyncCallMethod of AddService)
  MaxTimers   \* timer objects AddTimer may create

Timers == 1..MaxTimers
NoTimer == 0                       \* an empty TimerHandle

(* A timer object: not created yet, linked in a wheel slot, spliced into *)
(* Update's list with its callback still to run, callback run but the    *)
(* list still holding it, freed (its weak handles have expired).         *)
TStates == {"unused", "linked", "firing", "held", "gone"}

VARIABLES
  mbox,      \* the WakeupService's msg_queue: "add" and "update" calls
  tstate,    \* each timer object's state
  timerOf,   \* WakeupService::timer_
  prevOf,    \* the handle each timer's callback captured as `tm`
  stopping,  \* the WakeupService's stopping flag
  alive,     \* the WakeupService's mailbox loop has not exited
  adds       \* WakeupIfWaitTimeout calls made

vars == <<mbox, tstate, timerOf, prevOf, stopping, alive, adds>>

-----------------------------------------------------------------------------
(* timer_.expired() (WakeupService.cpp:20, TimerHandle is a weak_ptr). *)
Expired(h) == h = NoTimer \/ tstate[h] = "gone"

NewTimer == CHOOSE t \in Timers : tstate[t] = "unused"
CanAddTimer == \E t \in Timers : tstate[t] = "unused"

(***************************************************************************)
(* WakeupService::AddTimer (WakeupService.cpp:25-38): TimerService's      *)
(* AddTimer links a new timer (interval >= 100 ms, so never the           *)
(* synchronous zero-tick path) whose callback captured the old timer_,    *)
(* and timer_ is overwritten.  The old timer is not deleted.              *)
(***************************************************************************)
ArmTimer ==
  LET t == NewTimer IN
  /\ tstate' = [tstate EXCEPT ![t] = "linked"]
  /\ prevOf' = [prevOf EXCEPT ![t] = timerOf]
  /\ timerOf' = t

(* SendMessage of a call to the WakeupService: rejected once it is       *)
(* stopping or has left its loop (System.cpp:388-411).                    *)
Send(m) ==
  IF stopping \/ ~alive THEN UNCHANGED mbox ELSE mbox' = Append(mbox, m)

-----------------------------------------------------------------------------
(***************************************************************************)
(* WakeupIfWaitTimeout from any thread (System.cpp:579-589):              *)
(* AsyncCallMethod(wakeup_srv_handle_, &WakeupService::AddService, ...).  *)
(***************************************************************************)
CallAddService ==
  /\ adds < MaxAdds
  /\ adds' = adds + 1
  /\ Send("add")
  /\ UNCHANGED <<tstate, timerOf, prevOf, stopping, alive>>

(***************************************************************************)
(* The mailbox loop pops AddService (WakeupService.cpp:10-23): the entry  *)
(* is appended, and a timer is armed if timer_ has expired.               *)
(***************************************************************************)
HandleAdd ==
  /\ alive /\ mbox # <<>> /\ Head(mbox) = "add"
  /\ mbox' = Tail(mbox)
  /\ IF Expired(timerOf)
       THEN CanAddTimer /\ ArmTimer
       ELSE UNCHANGED <<tstate, timerOf, prevOf>>
  /\ UNCHANGED <<stopping, alive, adds>>

(***************************************************************************)
(* The mailbox loop pops Update (WakeupService.cpp:51-75): after the walk *)
(* of the list, the timer is re-armed unless the service is stopping.     *)
(***************************************************************************)
HandleUpdate ==
  /\ alive /\ mbox # <<>> /\ Head(mbox) = "update"
  /\ mbox' = Tail(mbox)
  /\ IF ~stopping
       THEN CanAddTimer /\ ArmTimer
       ELSE UNCHANGED <<tstate, timerOf, prevOf>>
  /\ UNCHANGED <<stopping, alive, adds>>

(* Mailbox empty and stopping: the loop exits (System.cpp:348-352). *)
LoopExit ==
  /\ alive /\ stopping /\ mbox = <<>>
  /\ alive' = FALSE
  /\ UNCHANGED <<mbox, tstate, timerOf, prevOf, stopping, adds>>

-----------------------------------------------------------------------------
(* TimerService::Update splices a due slot under its lock (TimerService.cpp:99-108). *)
TimerSplice(t) ==
  /\ tstate[t] = "linked"
  /\ tstate' = [tstate EXCEPT ![t] = "firing"]
  /\ UNCHANGED <<mbox, timerOf, prevOf, stopping, alive, adds>>

(***************************************************************************)
(* The callback, outside the lock (WakeupService.cpp:30-37): queue an     *)
(* Update; if that is refused, RemoveTimer(tm) on the handle captured at  *)
(* arming (TimerService::DeleteTimer unlinks a timer still in a slot,     *)
(* TimerService.cpp:27-36) and StopService(self).                         *)
(***************************************************************************)
TimerCallback(t) ==
  /\ tstate[t] = "firing"
  /\ IF stopping \/ ~alive
       THEN LET tm == prevOf[t] IN
            /\ tstate' = [u \in Timers |->
                            CASE u = t -> "held"
                              [] u = tm /\ tstate[u] = "linked" -> "gone"
                              [] OTHER -> tstate[u]]
            /\ stopping' = TRUE
            /\ UNCHANGED mbox
       ELSE /\ mbox' = Append(mbox, "update")
            /\ tstate' = [tstate EXCEPT ![t] = "held"]
            /\ UNCHANGED stopping
  /\ UNCHANGED <<timerOf, prevOf, alive, adds>>

(* The end of TimerService::Update (TimerService.cpp:110-113): its list  *)
(* is destroyed and the timer object freed.                              *)
TimerRelease(t) ==
  /\ tstate[t] = "held"
  /\ tstate' = [tstate EXCEPT ![t] = "gone"]
  /\ UNCHANGED <<mbox, timerOf, prevOf, stopping, alive, adds>>

(* StopAllService (System.cpp:99-108) calls StopService (132-140) on the *)
(* WakeupService: stopping = true under its lock, then Wakeup_Locked.     *)
StopWakeup ==
  /\ ~stopping
  /\ stopping' = TRUE
  /\ UNCHANGED <<mbox, tstate, timerOf, prevOf, alive, adds>>

-----------------------------------------------------------------------------
(***************************************************************************)
(* After WakeupService::Start (WakeupService.cpp:40-49), which the system *)
(* calls before anyone can register a service: the list is empty, so no   *)
(* timer is armed.                                                        *)
(***************************************************************************)
WInit ==
  /\ mbox = <<>>
  /\ tstate = [t \in Timers |-> "unused"]
  /\ timerOf = NoTimer
  /\ prevOf = [t \in Timers |-> NoTimer]
  /\ stopping = FALSE /\ alive = TRUE /\ adds = 0

WNext ==
  \/ CallAddService \/ HandleAdd \/ HandleUpdate \/ LoopExit \/ StopWakeup
  \/ \E t \in Timers : TimerSplice(t) \/ TimerCallback(t) \/ TimerRelease(t)

WSpec == WInit /\ [][WNext]_vars

-----------------------------------------------------------------------------
WTypeOK ==
  /\ mbox \in Seq({"add", "update"})
  /\ tstate \in [Timers -> TStates]
  /\ timerOf \in Timers \cup {NoTimer}
  /\ prevOf \in [Timers -> Timers \cup {NoTimer}]
  /\ stopping \in BOOLEAN /\ alive \in BOOLEAN /\ adds \in 0..MaxAdds

(* The periodic timers alive: linked or spliced timers, and fired ones   *)
(* whose Update is still queued.                                         *)
Chains ==
  Cardinality({t \in Timers : tstate[t] \in {"linked", "firing"}})
    + Len(SelectSeq(mbox, LAMBDA m : m = "update"))

(***************************************************************************)
(* The watchdog runs one periodic timer (spec 4.5: "an internal periodic  *)
(* timer"), which is what AddService's timer_.expired() test is for: at   *)
(* most one timer or queued Update keeps the chain going.  An AddService  *)
(* queued before a timer fires and handled after its batch is freed sees  *)
(* an expired handle while that timer's Update is still queued.           *)
(***************************************************************************)
SingleTimerChain == Chains <= 1
=============================================================================
