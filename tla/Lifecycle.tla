----------------------------- MODULE Lifecycle -----------------------------
(***************************************************************************)
(* Shutdown of the runtime composed with the scheduler core:              *)
(* System::Stop and StopAllService (src/src/System.cpp:67-101) on an      *)
(* outside thread, the idle loop of each worker, which ends once its      *)
(* thread is interrupted and the ready queue is empty (IdleService::Main, *)
(* System.cpp:18-24), and LaunchService (System.h:284-327), whose test of *)
(* `stopped` and whose insertion into the table are separate steps.       *)
(*                                                                         *)
(* Services use WaitSignal only: the timer thread, the watchdog and the   *)
(* IO thread are left out (they stop at their own interrupt check).       *)
(***************************************************************************)
EXTENDS Scheduler

VARIABLES
  sysStopped,   \* System::stopped
  spc,          \* the thread in System::Stop: "run", "stop_all", "stopping", "join", "done"
  snap,         \* StopAllService's copy of services_ not yet stopped
  snapAll,      \* ghost: every service that copy held
  interrupted,  \* workers whose ThreadImpl::interrupted_ is set
  launching     \* services whose LaunchService passed the `stopped` test

lcVars == <<sysStopped, spc, snap, snapAll, interrupted, launching>>
allVars == <<vars, lcVars>>

(* this_thread::IsInterrupted on worker w: a relaxed load of its own   *)
(* ThreadImpl::interrupted_ (Thread.h:49-51, 192-195).                 *)
IsInterrupted(w) == w \in interrupted

(* ThreadMain has returned on every worker. *)
ThreadsDone == \A w \in Workers : wpc[w] = "exited"

-----------------------------------------------------------------------------
(***************************************************************************)
(* LaunchService (System.h:286-287): the relaxed load of `stopped`; a     *)
(* stopped system returns an empty handle, which changes nothing.         *)
(***************************************************************************)
LaunchCheck(s) ==
  /\ pc[s] = "created" /\ s \notin launching /\ ~sysStopped
  /\ launching' = launching \cup {s}
  /\ UNCHANGED <<vars, sysStopped, spc, snap, snapAll, interrupted>>

(* The rest of LaunchService (System.h:288-327): context, AddService and  *)
(* Wakeup_Locked(Start) under the new service's lock, whatever `stopped`  *)
(* has become meanwhile.                                                  *)
LaunchCommit(s) ==
  /\ s \in launching
  /\ launching' = launching \ {s}
  /\ Launch(s)
  /\ UNCHANGED <<sysStopped, spc, snap, snapAll, interrupted>>

(***************************************************************************)
(* The condition of the idle loop (System.cpp:19), checked when the idle  *)
(* service is back on its worker: NeedSchedule() is !run_queue_.empty()   *)
(* (System.h:206-208).  The loop ends, UserThreadServiceMain returns to   *)
(* ThreadMain (System.cpp:266-273) and the thread exits.                  *)
(***************************************************************************)
IdleExitNoRecheck(w) ==
  /\ cur[w] = Idle(w) /\ wpc[w] = "sched" /\ IsInterrupted(w)
  /\ wpc' = [wpc EXCEPT ![w] = "exited"]
  /\ UNCHANGED <<status, events, waitEvents, wakeupSignal, swapping, stopping,
                 runQueue, cur, prev, bodyVars, envVars, ghostVars, lcVars>>

IdleExitInverted(w) ==
  /\ cur[w] = Idle(w) /\ wpc[w] = "sched" /\ IsInterrupted(w) /\ runQueue # <<>>
  /\ wpc' = [wpc EXCEPT ![w] = "exited"]
  /\ UNCHANGED <<status, events, waitEvents, wakeupSignal, swapping, stopping,
                 runQueue, cur, prev, bodyVars, envVars, ghostVars, lcVars>>

IdleExit(w) ==
  /\ cur[w] = Idle(w) /\ wpc[w] = "sched" /\ IsInterrupted(w) /\ runQueue = <<>>
  /\ wpc' = [wpc EXCEPT ![w] = "exited"]
  /\ UNCHANGED <<status, events, waitEvents, wakeupSignal, swapping, stopping,
                 runQueue, cur, prev, bodyVars, envVars, ghostVars, lcVars>>

-----------------------------------------------------------------------------
(* System::Stop (System.cpp:71-78): under mutex_, stopped = true. *)
StopBegin ==
  /\ spc = "run" /\ ~sysStopped
  /\ sysStopped' = TRUE /\ spc' = "stop_all"
  /\ UNCHANGED <<vars, snap, snapAll, interrupted, launching>>

(* StopAllService (System.cpp:99-102): copy services_ under its lock. *)
StopSnapshot ==
  /\ spc = "stop_all"
  /\ snap' = {s \in Services : InTable(s)}
  /\ snapAll' = {s \in Services : InTable(s)}
  /\ spc' = "stopping"
  /\ UNCHANGED <<vars, sysStopped, interrupted, launching>>

(***************************************************************************)
(* StopAllService's loop (System.cpp:103-107): StopService on each copied *)
(* service.  One that has exited since still has stopping set, and        *)
(* StopService returns at once.                                           *)
(***************************************************************************)
StopOne(s) ==
  /\ spc = "stopping" /\ s \in snap
  /\ snap' = snap \ {s}
  /\ \/ StopService(s)
     \/ stopping[s] /\ UNCHANGED vars
  /\ UNCHANGED <<sysStopped, spc, snapAll, interrupted, launching>>

(***************************************************************************)
(* Stop's loop over threads_ (System.cpp:81-83): Thread::Interrupt, a     *)
(* relaxed store of the thread's own flag (Thread.h:45-47, 138-140), one  *)
(* thread after another; workers already interrupted keep running while   *)
(* the rest are not.  The loop's order over threads_ is left open.  The   *)
(* timer and IO threads and io_srv_.Stop() are not part of this module.   *)
(***************************************************************************)
StopInterrupt(w) ==
  /\ spc = "stopping" /\ snap = {} /\ ~IsInterrupted(w)
  /\ interrupted' = interrupted \cup {w}
  /\ spc' = IF interrupted' = Workers THEN "join" ELSE "stopping"
  /\ UNCHANGED <<vars, sysStopped, snap, snapAll, launching>>

(* Join every thread, then CHECK(run_queue_.empty()) (System.cpp:85-91). *)
StopJoin ==
  /\ spc = "join" /\ ThreadsDone
  /\ spc' = "done"
  /\ UNCHANGED <<vars, sysStopped, snap, snapAll, interrupted, launching>>

-----------------------------------------------------------------------------
(***************************************************************************)
(* System::Start has returned (System.cpp:27-56): the workers run their   *)
(* idle loops and `stopped` is false.                                      *)
(***************************************************************************)
LInit ==
  /\ Init
  /\ sysStopped = FALSE /\ spc = "run" /\ snap = {} /\ snapAll = {}
  /\ interrupted = {} /\ launching = {}

LWorkerStep(w) ==
  \/ /\ \/ Sched(w) \/ ResumePrev(w) \/ ResumeCur(w)
        \/ WaitSignal(w) \/ WakeFromWait(w) \/ Exit(w)
     /\ UNCHANGED lcVars
  \/ IdleExit(w)

Stopper ==
  \/ StopSnapshot \/ StopJoin
  \/ \E s \in Services : StopOne(s)
  \/ \E w \in Workers : StopInterrupt(w)

LEnvironment ==
  \/ \E s \in Services :
       \/ LaunchCheck(s) \/ LaunchCommit(s)
       \/ (Signal(s) \/ InterruptService(s) \/ StopService(s)) /\ UNCHANGED lcVars
  \/ StopBegin

LNext == (\E w \in Workers : LWorkerStep(w)) \/ Stopper \/ LEnvironment

(***************************************************************************)
(* Workers run until their idle loop ends; the thread in Stop, once it    *)
(* has begun, goes on (every step it takes is a bounded loop or a join).  *)
(* Nothing obliges anyone to launch, signal or stop.                      *)
(***************************************************************************)
LSpec == LInit /\ [][LNext]_allVars
         /\ \A w \in Workers : WF_allVars(LWorkerStep(w))
         /\ WF_allVars(Stopper)

-----------------------------------------------------------------------------
(***************************************************************************)
(* Stop stops everything it found: every service in StopAllService's copy *)
(* of the table is Dead by the time Stop has joined the workers.  A       *)
(* worker leaving its idle loop while stopped services are still queued,  *)
(* or a Stop wake lost in a switch, leaves one behind.                    *)
(***************************************************************************)
StopEndsServices ==
  spc = "done" => \A s \in snapAll : status[s] = "Dead"

(***************************************************************************)
(* System::Stop returns: once it has begun, every worker's idle loop ends *)
(* and the joins complete.                                                *)
(***************************************************************************)
StopReturns == sysStopped ~> spc = "done"

(***************************************************************************)
(* Every wake that matches a wait eventually gets the service back on a   *)
(* worker, unless the runtime has shut down first: no wake is lost in the *)
(* switch window (OnResume's wakeup_signal sweep, System.cpp:215-225),    *)
(* and the FIFO ready queue served by fair workers starves nobody.        *)
(***************************************************************************)
WakeupLeadsToRun ==
  \A s \in Services :
    (status[s] = "Blocked" /\ events[s] \cap waitEvents[s] # {})
      ~> (status[s] = "Running" \/ ThreadsDone)

(***************************************************************************)
(* StopService terminates the service at its next suspension point: once  *)
(* stopping is latched the service eventually is Dead, unless every       *)
(* worker has already exited.                                             *)
(***************************************************************************)
StopLeadsToExit ==
  \A s \in Services : stopping[s] ~> (status[s] = "Dead" \/ ThreadsDone)

(***************************************************************************)
(* The CHECK at the end of System::Stop (System.cpp:89): when every       *)
(* worker has been joined the ready queue is empty, so no launched        *)
(* service is left that nobody will ever run.  Nothing pops the queue     *)
(* once the workers are gone, so the queue Stop's CHECK reads is the one  *)
(* of this state or a longer one.                                         *)
(***************************************************************************)
StopCheckHolds == spc = "join" /\ ThreadsDone => runQueue = <<>>
=============================================================================
