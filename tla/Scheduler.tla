----------------------------- MODULE Scheduler -----------------------------
(***************************************************************************)
(* The scheduler core of mcast (src/src/System.cpp): user-thread services *)
(* multiplexed over worker threads, the Wait_Locked / Wakeup_Locked       *)
(* protocol on the per-service context, the global ready queue, and the   *)
(* OnResume sweep that re-enqueues a service woken while it was being     *)
(* switched out.                                                          *)
(*                                                                         *)
(* Granularity: every step below is one critical section of the code     *)
(* (a region under a service's mutex, or under the ready-queue mutex), or *)
(* one thread-local step of a worker.  A worker that calls Schedule()     *)
(* leaves the service's lock released first, so wakers on other threads  *)
(* may run between the service's decision to block and the context        *)
(* switch, and again between the switch and each half of OnResume.       *)
(*                                                                         *)
(* The idle service of worker w is represented by w itself: handle index  *)
(* 1 always names the calling worker's own idle service (GrabService,     *)
(* System.cpp:113-117), and its context fields are only touched by w.     *)
(***************************************************************************)
EXTENDS Naturals, Sequences, FiniteSets, Functions

CONSTANTS
  Workers,    \* worker threads (model values); each has its own idle service
  Services,   \* user-thread services (model values)
  MaxOps,     \* bound on blocking primitives one service body performs
  Ops,        \* primitives service bodies may call: "Sleep", "WaitSignal", "Yield"
  Watched,    \* services registered with the wait-timeout watchdog
  None        \* model value: no previous service

ASSUME Workers # {} /\ Services # {} /\ Workers \cap Services = {}
ASSUME MaxOps \in Nat \ {0}
ASSUME Ops \subseteq {"Sleep", "WaitSignal", "Yield"}
ASSUME Watched \subseteq Services

(* ServiceEvent bits used by these primitives (ServiceEvent.h:10-19). *)
Events == {"Start", "Signal", "Interrupt", "Sleep", "Stop"}
SleepMask  == {"Sleep", "Stop", "Interrupt"}        \* SleepService, System.cpp:527-529
SignalMask == {"Signal", "Interrupt", "Stop"}       \* WaitSignal,   System.cpp:156-157

Status == {"Created", "Blocked", "Ready", "Running", "Dead"}

Idle(w) == w
Idles == {Idle(w) : w \in Workers}

VARIABLES
  status,        \* ServiceContext::status
  events,        \* ServiceContext::events, pending event bits
  waitEvents,    \* ServiceContext::wait_events
  wakeupSignal,  \* ServiceContext::wakeup_signal
  swapping,      \* ServiceContext::is_swaping_out
  stopping,      \* ServiceContext::stopping
  runQueue,      \* System::run_queue_
  cur,           \* PerthreadData::current_service
  prev,          \* PerthreadData::prev_service
  wpc,           \* where worker w is in Schedule/SwitchTo/OnResume
  pc,            \* where each service body is
  ops,           \* primitives started by each service (bounded by MaxOps)
  revents,       \* result of the service's last completed Wait ({} while waiting)
  wheel,         \* timers linked in the timing wheel: <<service, sleep no.>>
  firing,        \* timers spliced out by Update, callbacks not yet run
  wdSeen,        \* watched services the watchdog judged blocked too long
  wdDone,        \* watched services whose watchdog entry is erased
  intrLive,      \* ghost: an Interrupt was posted into the current wait
  sleepFired     \* ghost: the current Sleep's own timer callback has run

schedVars == <<status, events, waitEvents, wakeupSignal, swapping, stopping,
               runQueue, cur, prev, wpc>>
bodyVars  == <<pc, ops, revents>>
envVars   == <<wheel, firing, wdSeen, wdDone>>
ghostVars == <<intrLive, sleepFired>>
vars == <<schedVars, bodyVars, envVars, ghostVars>>

TimerIds == Services \X (1..MaxOps)

(* The service is in System::services_: added by LaunchService and erased *)
(* by RemoveService in the same step that marks it Dead.                  *)
InTable(s) == status[s] \notin {"Created", "Dead"}

(* PutReadyService (System.cpp:602-607): push onto the mutex-guarded     *)
(* run_queue_.  The idle-service early return never applies here: idle   *)
(* services are never woken, so only Services are ever put.              *)
PutReadyService(s) == runQueue' = Append(runQueue, s)

(* The run_queue_.pop(&srv) of GetReadyService (System.cpp:592-600): the *)
(* head of a non-empty queue becomes worker w's next service; an empty   *)
(* queue gives the idle (main) service, which is a step only when the    *)
(* caller is not already idle (else SwitchTo returns false).             *)
GetReadyService(w) ==
  \/ /\ runQueue # <<>>
     /\ cur' = [cur EXCEPT ![w] = Head(runQueue)]
     /\ runQueue' = Tail(runQueue)
  \/ /\ runQueue = <<>>
     /\ cur[w] \in Services
     /\ cur' = [cur EXCEPT ![w] = Idle(w)]
     /\ UNCHANGED runQueue

-----------------------------------------------------------------------------
(***************************************************************************)
(* Wakeup_Locked (System.cpp:497-516), called with s's lock held: OR the  *)
(* event in; return unless s waits on it; set the sticky wakeup_signal;   *)
(* leave the re-enqueue to OnResume if s is mid-switch; otherwise move a  *)
(* Blocked s to Ready and PutReadyService it.                             *)
(***************************************************************************)
WakeupLockedNoSwapCheck(s, e) ==
  /\ events' = [events EXCEPT ![s] = @ \cup {e}]
  /\ IF e \notin waitEvents[s]
       THEN UNCHANGED <<wakeupSignal, status, runQueue>>
       ELSE /\ wakeupSignal' = [wakeupSignal EXCEPT ![s] = TRUE]
            /\ IF status[s] = "Blocked"
                 THEN /\ status' = [status EXCEPT ![s] = "Ready"]
                      /\ PutReadyService(s)
                 ELSE UNCHANGED <<status, runQueue>>

WakeupLockedNoBlockedCheck(s, e) ==
  /\ events' = [events EXCEPT ![s] = @ \cup {e}]
  /\ IF e \notin waitEvents[s]
       THEN UNCHANGED <<wakeupSignal, status, runQueue>>
       ELSE /\ wakeupSignal' = [wakeupSignal EXCEPT ![s] = TRUE]
            /\ IF ~swapping[s]
                 THEN /\ status' = [status EXCEPT ![s] = "Ready"]
                      /\ PutReadyService(s)
                 ELSE UNCHANGED <<status, runQueue>>

WakeupLockedDropEarly(s, e) ==
  /\ IF e \notin waitEvents[s]
       THEN UNCHANGED <<events, wakeupSignal, status, runQueue>>
       ELSE /\ events' = [events EXCEPT ![s] = @ \cup {e}]
            /\ wakeupSignal' = [wakeupSignal EXCEPT ![s] = TRUE]
            /\ IF ~swapping[s] /\ status[s] = "Blocked"
                 THEN /\ status' = [status EXCEPT ![s] = "Ready"]
                      /\ PutReadyService(s)
                 ELSE UNCHANGED <<status, runQueue>>

WakeupLocked(s, e) ==
  /\ events' = [events EXCEPT ![s] = @ \cup {e}]
  /\ IF e \notin waitEvents[s]
       THEN UNCHANGED <<wakeupSignal, status, runQueue>>
       ELSE /\ wakeupSignal' = [wakeupSignal EXCEPT ![s] = TRUE]
            /\ IF ~swapping[s] /\ status[s] = "Blocked"
                 THEN /\ status' = [status EXCEPT ![s] = "Ready"]
                      /\ PutReadyService(s)
                 ELSE UNCHANGED <<status, runQueue>>

(* Ghost bookkeeping beside every wake: an Interrupt posted while the     *)
(* current wait is listening for it.                                      *)
NoteWake(s, e) ==
  intrLive' = [intrLive EXCEPT ![s] =
                 @ \/ (e = "Interrupt" /\ "Interrupt" \in waitEvents[s])]

-----------------------------------------------------------------------------
(***************************************************************************)
(* LaunchService for a user thread (System.h:284-327), run by an outside  *)
(* thread: insert into the table, status Blocked, wait_events = Start,    *)
(* then Wakeup_Locked(Start) moves it to Ready and onto the ready queue.  *)
(***************************************************************************)
Launch(s) ==
  /\ pc[s] = "created"
  /\ status' = [status EXCEPT ![s] = "Ready"]
  /\ waitEvents' = [waitEvents EXCEPT ![s] = {"Start"}]
  /\ events' = [events EXCEPT ![s] = @ \cup {"Start"}]
  /\ wakeupSignal' = [wakeupSignal EXCEPT ![s] = TRUE]
  /\ PutReadyService(s)
  /\ pc' = [pc EXCEPT ![s] = "body"]
  /\ UNCHANGED <<swapping, stopping, cur, prev, wpc, ops, revents, envVars,
                 ghostVars>>

(***************************************************************************)
(* Schedule() = SwitchTo(CurrentService(), GetReadyService())             *)
(* (System.cpp:173-209, 592-600).  GetReadyService pops the ready queue   *)
(* or, when it is empty, returns the worker's idle service.  When that is *)
(* the caller itself (the idle loop finding nothing) SwitchTo returns     *)
(* false and nothing changes, so that case is no step.  Otherwise the     *)
(* caller is flagged is_swaping_out, becomes prev_service, and the worker *)
(* jumps to the chosen service.                                           *)
(***************************************************************************)
SchedNoSwapFlag(w) ==
  /\ wpc[w] = "sched"
  /\ GetReadyService(w)
  /\ prev' = [prev EXCEPT ![w] = cur[w]]
  /\ wpc' = [wpc EXCEPT ![w] = "resume_prev"]
  /\ UNCHANGED <<swapping, status, events, waitEvents, wakeupSignal, stopping,
                 bodyVars, envVars, ghostVars>>

Sched(w) ==
  /\ wpc[w] = "sched"
  /\ GetReadyService(w)
  /\ swapping' = IF cur[w] \in Services
                   THEN [swapping EXCEPT ![cur[w]] = TRUE] ELSE swapping
  /\ prev' = [prev EXCEPT ![w] = cur[w]]
  /\ wpc' = [wpc EXCEPT ![w] = "resume_prev"]
  /\ UNCHANGED <<status, events, waitEvents, wakeupSignal, stopping,
                 bodyVars, envVars, ghostVars>>

(***************************************************************************)
(* OnResume, first half (System.cpp:215-225), under prev's lock: clear    *)
(* is_swaping_out and, if a wake arrived during the switch (the sticky    *)
(* wakeup_signal) and prev is still Blocked, make it Ready and enqueue    *)
(* it.  The idle service is never enqueued.                               *)
(***************************************************************************)
ResumePrevNoRequeue(w) ==
  /\ wpc[w] = "resume_prev"
  /\ swapping' = IF prev[w] \in Services
                   THEN [swapping EXCEPT ![prev[w]] = FALSE] ELSE swapping
  /\ wpc' = [wpc EXCEPT ![w] = "resume_cur"]
  /\ UNCHANGED <<status, runQueue, events, waitEvents, wakeupSignal, stopping,
                 cur, prev, bodyVars, envVars, ghostVars>>

ResumePrevIgnoreSignal(w) ==
  /\ wpc[w] = "resume_prev"
  /\ LET p == prev[w] IN
       IF p \in Services
         THEN /\ swapping' = [swapping EXCEPT ![p] = FALSE]
              /\ IF status[p] = "Blocked"
                   THEN /\ status' = [status EXCEPT ![p] = "Ready"]
                        /\ PutReadyService(p)
                   ELSE UNCHANGED <<status, runQueue>>
         ELSE UNCHANGED <<swapping, status, runQueue>>
  /\ wpc' = [wpc EXCEPT ![w] = "resume_cur"]
  /\ UNCHANGED <<events, waitEvents, wakeupSignal, stopping, cur, prev,
                 bodyVars, envVars, ghostVars>>

ResumePrev(w) ==
  /\ wpc[w] = "resume_prev"
  /\ LET p == prev[w] IN
       IF p \in Services
         THEN /\ swapping' = [swapping EXCEPT ![p] = FALSE]
              /\ IF wakeupSignal[p] /\ status[p] = "Blocked"
                   THEN /\ status' = [status EXCEPT ![p] = "Ready"]
                        /\ PutReadyService(p)
                   ELSE UNCHANGED <<status, runQueue>>
         ELSE UNCHANGED <<swapping, status, runQueue>>
  /\ wpc' = [wpc EXCEPT ![w] = "resume_cur"]
  /\ UNCHANGED <<events, waitEvents, wakeupSignal, stopping, cur, prev,
                 bodyVars, envVars, ghostVars>>

(***************************************************************************)
(* OnResume, second half (System.cpp:226-237, 207), under the new current *)
(* service's lock: clear wakeup_signal and wait_events, status Running;   *)
(* prev_service is dropped.  A resumed idle service re-enters its loop    *)
(* (IdleService::Main, System.cpp:18-24), which calls Schedule again.     *)
(***************************************************************************)
ResumeCurKeepSignal(w) ==
  /\ wpc[w] = "resume_cur"
  /\ LET c == cur[w] IN
       IF c \in Services
         THEN /\ waitEvents' = [waitEvents EXCEPT ![c] = {}]
              /\ status' = [status EXCEPT ![c] = "Running"]
              /\ wpc' = [wpc EXCEPT ![w] = "run"]
              /\ UNCHANGED wakeupSignal
         ELSE /\ wpc' = [wpc EXCEPT ![w] = "sched"]
              /\ UNCHANGED <<wakeupSignal, waitEvents, status>>
  /\ prev' = [prev EXCEPT ![w] = None]
  /\ UNCHANGED <<events, swapping, stopping, runQueue, cur, bodyVars, envVars,
                 ghostVars>>

ResumeCur(w) ==
  /\ wpc[w] = "resume_cur"
  /\ LET c == cur[w] IN
       IF c \in Services
         THEN /\ wakeupSignal' = [wakeupSignal EXCEPT ![c] = FALSE]
              /\ waitEvents' = [waitEvents EXCEPT ![c] = {}]
              /\ status' = [status EXCEPT ![c] = "Running"]
              /\ wpc' = [wpc EXCEPT ![w] = "run"]
         ELSE /\ wpc' = [wpc EXCEPT ![w] = "sched"]
              /\ UNCHANGED <<wakeupSignal, waitEvents, status>>
  /\ prev' = [prev EXCEPT ![w] = None]
  /\ UNCHANGED <<events, swapping, stopping, runQueue, cur, bodyVars, envVars,
                 ghostVars>>

-----------------------------------------------------------------------------
(* Service s is executing on worker w. *)
Running(w, s) == wpc[w] = "run" /\ cur[w] = s

(***************************************************************************)
(* The blocking branch of Wait_Locked (System.cpp:463-468): status        *)
(* Blocked, is_swaping_out, wait_events = mask, unlock, and Schedule.     *)
(***************************************************************************)
Block(w, s, mask, waitPc) ==
  /\ status' = [status EXCEPT ![s] = "Blocked"]
  /\ swapping' = [swapping EXCEPT ![s] = TRUE]
  /\ waitEvents' = [waitEvents EXCEPT ![s] = mask]
  /\ wpc' = [wpc EXCEPT ![w] = "sched"]
  /\ pc' = [pc EXCEPT ![s] = waitPc]
  /\ revents' = [revents EXCEPT ![s] = {}]
  /\ UNCHANGED events

(***************************************************************************)
(* Wait_Locked entry (System.cpp:439-468), s's lock held: wait_events = 0;*)
(* a stopping service waiting on Stop returns Stop at once (events left   *)
(* as they are); a requested event already pending is consumed and        *)
(* returned without switching; otherwise s blocks.                        *)
(***************************************************************************)
WaitLockedNoFastPath(w, s, mask, waitPc, retPc) ==
  \/ /\ stopping[s] /\ "Stop" \in mask
     /\ revents' = [revents EXCEPT ![s] = {"Stop"}]
     /\ waitEvents' = [waitEvents EXCEPT ![s] = {}]
     /\ pc' = [pc EXCEPT ![s] = retPc]
     /\ UNCHANGED <<status, swapping, events, wpc>>
  \/ /\ ~(stopping[s] /\ "Stop" \in mask)
     /\ Block(w, s, mask, waitPc)

WaitLocked(w, s, mask, waitPc, retPc) ==
  \/ /\ stopping[s] /\ "Stop" \in mask
     /\ revents' = [revents EXCEPT ![s] = {"Stop"}]
     /\ waitEvents' = [waitEvents EXCEPT ![s] = {}]
     /\ pc' = [pc EXCEPT ![s] = retPc]
     /\ UNCHANGED <<status, swapping, events, wpc>>
  \/ /\ ~(stopping[s] /\ "Stop" \in mask)
     /\ mask \cap events[s] # {}
     /\ revents' = [revents EXCEPT ![s] = events[s] \cap mask]
     /\ events' = [events EXCEPT ![s] = @ \ mask]
     /\ waitEvents' = [waitEvents EXCEPT ![s] = {}]
     /\ pc' = [pc EXCEPT ![s] = retPc]
     /\ UNCHANGED <<status, swapping, wpc>>
  \/ /\ ~(stopping[s] /\ "Stop" \in mask)
     /\ mask \cap events[s] = {}
     /\ Block(w, s, mask, waitPc)

(* A service body calls primitives until it has none left.  Its check of *)
(* IsStopping() is a relaxed load outside the lock, so StopService may    *)
(* land between the check and the call: stopping is no guard here.       *)
BodyMayCall(s, op) ==
  /\ pc[s] = "body" /\ ops[s] < MaxOps /\ op \in Ops

(***************************************************************************)
(* SleepService (System.cpp:518-529): under s's lock, AddTimer whose      *)
(* callback is WakeUp(h, Sleep), then Wait_Locked(Sleep|Stop|Interrupt).  *)
(* The duration is positive; which tick it expires on is left open.       *)
(***************************************************************************)
SleepOffByOne(w) ==
  \E s \in Services :
    /\ Running(w, s) /\ BodyMayCall(s, "Sleep")
    /\ ops' = [ops EXCEPT ![s] = @ + 1]
    /\ wheel' = wheel \cup {<<s, ops[s]>>}
    /\ intrLive' = [intrLive EXCEPT ![s] = FALSE]
    /\ sleepFired' = [sleepFired EXCEPT ![s] = FALSE]
    /\ WaitLocked(w, s, SleepMask, "sleep_wait", "sleep_ret")
    /\ UNCHANGED <<stopping, wakeupSignal, runQueue, cur, prev, firing,
                   wdSeen, wdDone>>

Sleep(w) ==
  \E s \in Services :
    /\ Running(w, s) /\ BodyMayCall(s, "Sleep")
    /\ ops' = [ops EXCEPT ![s] = @ + 1]
    /\ wheel' = wheel \cup {<<s, ops[s] + 1>>}
    /\ intrLive' = [intrLive EXCEPT ![s] = FALSE]
    /\ sleepFired' = [sleepFired EXCEPT ![s] = FALSE]
    /\ WaitLocked(w, s, SleepMask, "sleep_wait", "sleep_ret")
    /\ UNCHANGED <<stopping, wakeupSignal, runQueue, cur, prev, firing,
                   wdSeen, wdDone>>

(* WaitSignal (System.cpp:155-162): Wait(Signal|Interrupt|Stop). *)
WaitSignal(w) ==
  \E s \in Services :
    /\ Running(w, s) /\ BodyMayCall(s, "WaitSignal")
    /\ ops' = [ops EXCEPT ![s] = @ + 1]
    /\ intrLive' = [intrLive EXCEPT ![s] = FALSE]
    /\ WaitLocked(w, s, SignalMask, "sig_wait", "body")
    /\ UNCHANGED <<stopping, wakeupSignal, runQueue, cur, prev, envVars,
                   sleepFired>>

(***************************************************************************)
(* Service::Yield (Service.cpp:9-11) is a bare Schedule(): the caller is  *)
(* neither marked Ready nor put back on the ready queue.                  *)
(***************************************************************************)
Yield(w) ==
  \E s \in Services :
    /\ Running(w, s) /\ BodyMayCall(s, "Yield")
    /\ ops' = [ops EXCEPT ![s] = @ + 1]
    /\ wpc' = [wpc EXCEPT ![w] = "sched"]
    /\ UNCHANGED <<status, events, waitEvents, wakeupSignal, swapping,
                   stopping, runQueue, cur, prev, pc, revents, envVars,
                   ghostVars>>

(***************************************************************************)
(* Back from Schedule() inside Wait_Locked (System.cpp:470-479): re-lock  *)
(* and consume the requested events that woke the service.  The code's    *)
(* else branch (log and block again) is not an action: a service is only *)
(* ever resumed with a requested event pending (WokenWaitHasEvent).       *)
(***************************************************************************)
WaitMask(p) == IF p = "sleep_wait" THEN SleepMask ELSE SignalMask
WaitRet(p)  == IF p = "sleep_wait" THEN "sleep_ret" ELSE "body"

WakeFromWait(w) ==
  \E s \in Services :
    /\ Running(w, s) /\ pc[s] \in {"sleep_wait", "sig_wait"}
    /\ LET mask == WaitMask(pc[s]) IN
         /\ mask \cap events[s] # {}
         /\ revents' = [revents EXCEPT ![s] = events[s] \cap mask]
         /\ events' = [events EXCEPT ![s] = @ \ mask]
         /\ pc' = [pc EXCEPT ![s] = WaitRet(pc[s])]
    /\ UNCHANGED <<status, swapping, waitEvents, wpc, stopping, wakeupSignal,
                   runQueue, cur, prev, ops, envVars, ghostVars>>

(***************************************************************************)
(* End of SleepService (System.cpp:530-537), lock released: woken by      *)
(* Sleep it returns OK; otherwise DeleteTimer (TimerService.cpp:27-36)    *)
(* unlinks the timer if it is still linked in a wheel slot.  A timer      *)
(* Update has already spliced out has slot == nullptr and is not touched. *)
(***************************************************************************)
SleepReturn(w) ==
  \E s \in Services :
    /\ Running(w, s) /\ pc[s] = "sleep_ret"
    /\ pc' = [pc EXCEPT ![s] = "body"]
    /\ wheel' = IF "Sleep" \in revents[s] THEN wheel
                ELSE wheel \ {<<s, ops[s]>>}
    /\ UNCHANGED <<schedVars, ops, revents, firing, wdSeen, wdDone, ghostVars>>

(***************************************************************************)
(* End of UserThreadServiceMain (System.cpp:293-315): stopping = true and *)
(* status Dead (both without the lock), RemoveService, then Schedule().   *)
(***************************************************************************)
Exit(w) ==
  \E s \in Services :
    /\ Running(w, s) /\ pc[s] = "body"
    /\ stopping[s] \/ ops[s] = MaxOps
    /\ status' = [status EXCEPT ![s] = "Dead"]
    /\ stopping' = [stopping EXCEPT ![s] = TRUE]
    /\ pc' = [pc EXCEPT ![s] = "dead"]
    /\ wpc' = [wpc EXCEPT ![w] = "sched"]
    /\ UNCHANGED <<events, waitEvents, wakeupSignal, swapping, runQueue, cur,
                   prev, ops, revents, envVars, ghostVars>>

-----------------------------------------------------------------------------
(***************************************************************************)
(* Wakes from other threads.  Each takes s's lock around Wakeup_Locked.   *)
(***************************************************************************)
(* System::Signal (System.cpp:164-171): unconditional Signal. *)
Signal(s) ==
  /\ InTable(s)
  /\ WakeupLocked(s, "Signal") /\ NoteWake(s, "Signal")
  /\ UNCHANGED <<swapping, stopping, waitEvents, cur, prev, wpc, bodyVars,
                 envVars, sleepFired>>

(***************************************************************************)
(* System::InterruptService (System.cpp:142-153): only a Blocked service  *)
(* whose wait includes Interrupt is woken; otherwise it is a no-op.       *)
(***************************************************************************)
InterruptServiceUnguarded(s) ==
  /\ InTable(s)
  /\ WakeupLocked(s, "Interrupt") /\ NoteWake(s, "Interrupt")
  /\ UNCHANGED <<swapping, stopping, waitEvents, cur, prev, wpc, bodyVars,
                 envVars, sleepFired>>

InterruptService(s) ==
  /\ InTable(s)
  /\ status[s] = "Blocked" /\ "Interrupt" \in waitEvents[s]
  /\ WakeupLocked(s, "Interrupt") /\ NoteWake(s, "Interrupt")
  /\ UNCHANGED <<swapping, stopping, waitEvents, cur, prev, wpc, bodyVars,
                 envVars, sleepFired>>

(***************************************************************************)
(* System::StopService (System.cpp:122-140): latch stopping once and      *)
(* Wakeup_Locked(Stop); a second call returns without effect.             *)
(***************************************************************************)
StopServiceNoWake(s) ==
  /\ InTable(s) /\ ~stopping[s]
  /\ stopping' = [stopping EXCEPT ![s] = TRUE]
  /\ UNCHANGED <<status, events, wakeupSignal, runQueue, intrLive, swapping,
                 waitEvents, cur, prev, wpc, bodyVars, envVars, sleepFired>>

StopService(s) ==
  /\ InTable(s) /\ ~stopping[s]
  /\ stopping' = [stopping EXCEPT ![s] = TRUE]
  /\ WakeupLocked(s, "Stop") /\ NoteWake(s, "Stop")
  /\ UNCHANGED <<swapping, waitEvents, cur, prev, wpc, bodyVars, envVars,
                 sleepFired>>

(***************************************************************************)
(* TimerService::Update (TimerService.cpp:92-108)  on the timer thread:   *)
(* under the wheel lock a due slot is spliced out (slot = nullptr); the   *)
(* callbacks run afterwards, outside the lock.  The callback of a Sleep   *)
(* timer is WakeUp(h, Sleep) (System.cpp:483-495): GrabService, then      *)
(* Wakeup_Locked under the lock; a service no longer in the table is      *)
(* ignored.  Which tick a timer falls due on is abstracted away.          *)
(***************************************************************************)
TimerExpire(t) ==
  /\ t \in wheel
  /\ wheel' = wheel \ {t}
  /\ firing' = firing \cup {t}
  /\ UNCHANGED <<schedVars, bodyVars, wdSeen, wdDone, ghostVars>>

TimerFire(t) ==
  /\ t \in firing
  /\ firing' = firing \ {t}
  /\ LET s == t[1] IN
       /\ sleepFired' = [sleepFired EXCEPT ![s] = @ \/ t[2] = ops[s]]
       /\ IF InTable(s)
            THEN WakeupLocked(s, "Sleep") /\ NoteWake(s, "Sleep")
            ELSE UNCHANGED <<events, wakeupSignal, status, runQueue, intrLive>>
  /\ UNCHANGED <<swapping, stopping, waitEvents, cur, prev, wpc, bodyVars,
                 wheel, wdSeen, wdDone>>

(***************************************************************************)
(* WakeupService::Update (WakeupService.cpp:51-70) for one registered   *)
(* service: GrabService, then ServiceSleepTime reads status (relaxed, no  *)
(* lock); a service Blocked past its deadline is sent                     *)
(* WakeUp(srv, Interrupt) and its entry erased; a vanished one is erased. *)
(* The read and the wake are separate steps: the lock is taken only by    *)
(* WakeUp.  WakeUp posts the event whatever the service waits on.         *)
(***************************************************************************)
WdPending == Watched \ (wdSeen \cup wdDone)

WdObserve(s) ==
  /\ s \in WdPending
  /\ InTable(s) /\ status[s] = "Blocked"
  /\ wdSeen' = wdSeen \cup {s}
  /\ UNCHANGED <<schedVars, bodyVars, wheel, firing, wdDone, ghostVars>>

WdDrop(s) ==
  /\ s \in WdPending
  /\ status[s] = "Dead"
  /\ wdDone' = wdDone \cup {s}
  /\ UNCHANGED <<schedVars, bodyVars, wheel, firing, wdSeen, ghostVars>>

WdWake(s) ==
  /\ s \in wdSeen
  /\ WakeupLocked(s, "Interrupt") /\ NoteWake(s, "Interrupt")
  /\ wdSeen' = wdSeen \ {s}
  /\ wdDone' = wdDone \cup {s}
  /\ UNCHANGED <<swapping, stopping, waitEvents, cur, prev, wpc, bodyVars,
                 wheel, firing, sleepFired>>

-----------------------------------------------------------------------------
(***************************************************************************)
(* Initial state: fresh contexts (ServiceContext.h:52-69) and workers     *)
(* that have jumped into their idle service (System.cpp:240-265), whose   *)
(* loop is calling Schedule.                                              *)
(***************************************************************************)
Init ==
  /\ status = [s \in Services |-> "Created"]
  /\ events = [s \in Services |-> {}]
  /\ waitEvents = [s \in Services |-> {}]
  /\ wakeupSignal = [s \in Services |-> FALSE]
  /\ swapping = [s \in Services |-> FALSE]
  /\ stopping = [s \in Services |-> FALSE]
  /\ runQueue = <<>>
  /\ cur = [w \in Workers |-> Idle(w)]
  /\ prev = [w \in Workers |-> None]
  /\ wpc = [w \in Workers |-> "sched"]
  /\ pc = [s \in Services |-> "created"]
  /\ ops = [s \in Services |-> 0]
  /\ revents = [s \in Services |-> {}]
  /\ wheel = {} /\ firing = {}
  /\ wdSeen = {} /\ wdDone = {}
  /\ intrLive = [s \in Services |-> FALSE]
  /\ sleepFired = [s \in Services |-> FALSE]

(* Everything worker w does: its idle loop, the switch, and the body of   *)
(* the service it is running.                                             *)
WorkerStep(w) ==
  \/ Sched(w) \/ ResumePrev(w) \/ ResumeCur(w)
  \/ Sleep(w) \/ WaitSignal(w) \/ Yield(w)
  \/ WakeFromWait(w) \/ SleepReturn(w) \/ Exit(w)

Environment ==
  \/ \E s \in Services :
       \/ Launch(s) \/ Signal(s) \/ InterruptService(s) \/ StopService(s)
       \/ WdObserve(s) \/ WdDrop(s) \/ WdWake(s)
  \/ \E t \in TimerIds : TimerExpire(t) \/ TimerFire(t)

Next == (\E w \in Workers : WorkerStep(w)) \/ Environment

(***************************************************************************)
(* Workers are OS threads that never stop running their idle loop or the  *)
(* service they switched to, and service bodies here always reach their   *)
(* next suspension point: weak fairness per worker.  The timer thread     *)
(* wakes every half tick and runs every due callback: weak fairness on    *)
(* expiry and firing.  Outside callers (Launch, Signal, Stop, ...) owe    *)
(* nothing.                                                               *)
(***************************************************************************)
Fairness ==
  /\ \A w \in Workers : WF_vars(WorkerStep(w))
  /\ \A t \in TimerIds : WF_vars(TimerExpire(t)) /\ WF_vars(TimerFire(t))

Spec == Init /\ [][Next]_vars /\ Fairness

-----------------------------------------------------------------------------
(***************************************************************************)
(*                              Properties                                 *)
(***************************************************************************)
PcValues == {"created", "body", "sleep_wait", "sleep_ret", "sig_wait", "dead"}
WpcValues == {"sched", "resume_prev", "resume_cur", "run"}

TypeOK ==
  /\ status \in [Services -> Status]
  /\ events \in [Services -> SUBSET Events]
  /\ waitEvents \in [Services -> SUBSET Events]
  /\ wakeupSignal \in [Services -> BOOLEAN]
  /\ swapping \in [Services -> BOOLEAN]
  /\ stopping \in [Services -> BOOLEAN]
  /\ runQueue \in Seq(Services)
  /\ cur \in [Workers -> Services \cup Idles]
  /\ prev \in [Workers -> Services \cup Idles \cup {None}]
  /\ wpc \in [Workers -> WpcValues]
  /\ pc \in [Services -> PcValues]
  /\ ops \in [Services -> 0..MaxOps]
  /\ revents \in [Services -> SUBSET Events]
  /\ wheel \subseteq TimerIds /\ firing \subseteq TimerIds
  /\ wdSeen \subseteq Watched /\ wdDone \subseteq Watched
  /\ intrLive \in [Services -> BOOLEAN]
  /\ sleepFired \in [Services -> BOOLEAN]

(***************************************************************************)
(* One stack, one worker (spec invariant 1): a service is the current     *)
(* service of at most one worker, and a service some worker is on is not  *)
(* in the ready queue, so no other worker can pop it and jump onto its    *)
(* stack while the first is still there (e.g. between Wait_Locked's       *)
(* unlock and the jump in SwitchTo).                                      *)
(***************************************************************************)
OneStackOneWorker ==
  \A w \in Workers : cur[w] \in Services =>
     /\ \A v \in Workers \ {w} : cur[v] # cur[w]
     /\ cur[w] \notin Range(runQueue)

(***************************************************************************)
(* The ready queue is sound and complete (spec invariant 2): it holds     *)
(* each service at most once, only Ready ones, and every Ready service is *)
(* either queued or has just been popped by a worker that is resuming it. *)
(* A double PutReadyService, or a service made Ready and never queued,    *)
(* breaks it.                                                             *)
(***************************************************************************)
ReadyQueueSound ==
  /\ IsInjective(runQueue)
  /\ \A s \in Services :
       status[s] = "Ready" <=>
         \/ s \in Range(runQueue)
         \/ \E w \in Workers : cur[w] = s /\ wpc[w] \in {"resume_prev", "resume_cur"}

(***************************************************************************)
(* No lost wakeup (spec invariants 2-3): a Blocked service with a pending *)
(* event it waits for is only ever one whose switch-out is still in       *)
(* progress; the wake then left wakeup_signal set and the OnResume sweep  *)
(* of the worker switching it out is still to come.  Outside that window  *)
(* Wakeup_Locked must already have made it Ready.                         *)
(***************************************************************************)
NoLostWakeup ==
  \A s \in Services :
    (status[s] = "Blocked" /\ events[s] \cap waitEvents[s] # {}) =>
      /\ swapping[s] /\ wakeupSignal[s]
      /\ \E w \in Workers : \/ cur[w] = s /\ wpc[w] = "sched"
                            \/ prev[w] = s /\ wpc[w] = "resume_prev"

(***************************************************************************)
(* The CHECKs of the scheduler never fire: OnResume finds prev flagged    *)
(* is_swaping_out (System.cpp:217) and the resumed service not swapping   *)
(* out and Ready (229-230); a service running its body is Running (445);  *)
(* a service that calls Schedule is not on the ready queue, so Schedule   *)
(* cannot pick the caller itself (469) or resume a dead one (316).        *)
(***************************************************************************)
AssertionsHold ==
  \A w \in Workers :
    /\ wpc[w] = "resume_prev" /\ prev[w] \in Services => swapping[prev[w]]
    /\ wpc[w] = "resume_cur" /\ cur[w] \in Services =>
         ~swapping[cur[w]] /\ status[cur[w]] = "Ready"
    /\ wpc[w] = "run" => status[cur[w]] = "Running"
    /\ wpc[w] = "sched" /\ cur[w] \in Services => cur[w] \notin Range(runQueue)

(***************************************************************************)
(* No spurious resumption: a service is only put back on a worker inside  *)
(* a wait when an event that wait requested is pending, so the re-check   *)
(* after Schedule() in Wait_Locked always succeeds.  A Ready transition   *)
(* without a matching wake (e.g. OnResume re-enqueuing a Blocked prev     *)
(* whose wakeup_signal is not set) breaks it.                             *)
(***************************************************************************)
WokenWaitHasEvent ==
  \A w \in Workers, s \in Services :
    Running(w, s) /\ pc[s] \in {"sleep_wait", "sig_wait"} =>
      WaitMask(pc[s]) \cap events[s] # {}

(***************************************************************************)
(* Yield gives the CPU away and gets it back: a service that is Running   *)
(* is on some worker (spec invariant 1, the other direction).             *)
(***************************************************************************)
RunningIsOnWorker ==
  \A s \in Services : status[s] = "Running" =>
    \E w \in Workers : cur[w] = s /\ wpc[w] \in {"run", "sched"}

(***************************************************************************)
(* Sleep returns OK only when its own timer has fired (spec: a timer      *)
(* fires after at least its duration; a cancelled timer never fires).     *)
(***************************************************************************)
SleepOnlyEndsByOwnTimer ==
  \A s \in Services : "Sleep" \in revents[s] => sleepFired[s]

(***************************************************************************)
(* A wait ends with kInterrupt as its only cause (Sleep and WaitSignal    *)
(* then return Status(kInterrupt)) only when an Interrupt was posted      *)
(* while that wait was listening for it (spec 8: interrupting a service   *)
(* that is not in an interruptible wait is a no-op and is not seen by a   *)
(* later wait).                                                           *)
(***************************************************************************)
NoSpuriousInterrupt ==
  \A s \in Services : revents[s] = {"Interrupt"} => intrLive[s]
=============================================================================
