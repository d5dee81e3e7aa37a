--------------------------- MODULE MC_Scheduler ---------------------------
(* Model-checking harness for Scheduler: workers and services are model  *)
(* values; both sets are symmetric for the safety runs.                   *)
EXTENDS Scheduler, TLC

MC_Symmetry == Permutations(Workers) \cup Permutations(Services)

(***************************************************************************)
(* Refinement mapping onto ServiceLifecycle.  A service a worker has      *)
(* popped from run_queue_ and is switching to (still Ready in its context *)
(* until OnResume's second half) has already been dispatched; a wake is   *)
(* pending when an event of the current wait_events has been posted.     *)
(***************************************************************************)
Dispatched(s) ==
  \E w \in Workers : cur[w] = s /\ wpc[w] \in {"resume_prev", "resume_cur"}

AbsStatus ==
  [s \in Services |-> IF Dispatched(s) THEN "Running" ELSE status[s]]

AbsPend ==
  [s \in Services |-> AbsStatus[s] \in {"Ready", "Blocked"}
                        /\ events[s] \cap waitEvents[s] # {}]

Abs == INSTANCE ServiceLifecycle WITH st <- AbsStatus, rq <- runQueue, pend <- AbsPend

(***************************************************************************)
(* The scheduler implements the service lifecycle (spec section 4): every *)
(* step of the workers, the switch, OnResume and every waker is a legal   *)
(* transition of ServiceLifecycle or leaves it unchanged.  Services are   *)
(* dispatched from run_queue_ in FIFO order, a wait never blocks with a   *)
(* requested event already pending, and a Blocked service is made Ready, *)
(* by Wakeup_Locked or by OnResume's wakeup_signal sweep, only with an    *)
(* event of its wait pending.                                             *)
(***************************************************************************)
LifecycleRefined == Abs!ASpec
=============================================================================
