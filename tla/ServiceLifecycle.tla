-------------------------- MODULE ServiceLifecycle --------------------------
(***************************************************************************)
(* What the scheduler promises a service, with no workers, locks or        *)
(* switch windows: the lifecycle Created -> Ready <-> Running <-> Blocked  *)
(* -> Dead of spec section 4, a single FIFO ready queue from which         *)
(* services are dispatched in order, and a Blocked service becoming Ready  *)
(* only with an event it waits for pending.                                *)
(*                                                                         *)
(* `pend[s]` is "a wake matching s's wait is pending"; it is only          *)
(* meaningful while s is Ready or Blocked.  A Running service may also    *)
(* stay Running through any number of steps (fast-path waits, Yield).     *)
(***************************************************************************)
EXTENDS Sequences

CONSTANT Services

VARIABLES
  st,    \* each service's lifecycle state
  rq,    \* the ready queue, oldest first
  pend   \* a matching wake is pending

absVars == <<st, rq, pend>>

States == {"Created", "Ready", "Running", "Blocked", "Dead"}

AInit ==
  /\ st = [s \in Services |-> "Created"]
  /\ rq = <<>>
  /\ pend = [s \in Services |-> FALSE]

(* Launch: the service is Ready, queued, with its Start event pending. *)
ALaunch(s) ==
  /\ st[s] = "Created"
  /\ st' = [st EXCEPT ![s] = "Ready"]
  /\ rq' = Append(rq, s)
  /\ pend' = [pend EXCEPT ![s] = TRUE]

(* The oldest Ready service, and only it, is dispatched to a worker. *)
ADispatch ==
  /\ rq # <<>>
  /\ LET s == Head(rq) IN
       /\ st' = [st EXCEPT ![s] = "Running"]
       /\ pend' = [pend EXCEPT ![s] = FALSE]
  /\ rq' = Tail(rq)

(* A running service blocks with nothing it waits for pending. *)
ABlock(s) ==
  /\ st[s] = "Running"
  /\ st' = [st EXCEPT ![s] = "Blocked"]
  /\ pend' = [pend EXCEPT ![s] = FALSE]
  /\ UNCHANGED rq

(* A wake is posted to a Blocked service that cannot run yet. *)
APost(s) ==
  /\ st[s] = "Blocked" /\ ~pend[s]
  /\ pend' = [pend EXCEPT ![s] = TRUE]
  /\ UNCHANGED <<st, rq>>

(* A Blocked service with a matching wake becomes Ready and is queued; *)
(* the wake may be posted in the same step.                            *)
AWake(s) ==
  /\ st[s] = "Blocked"
  /\ st' = [st EXCEPT ![s] = "Ready"]
  /\ rq' = Append(rq, s)
  /\ pend' = [pend EXCEPT ![s] = TRUE]

(* A running service ends. *)
AExit(s) ==
  /\ st[s] = "Running"
  /\ st' = [st EXCEPT ![s] = "Dead"]
  /\ UNCHANGED <<rq, pend>>

ANext ==
  \/ ADispatch
  \/ \E s \in Services : ALaunch(s) \/ ABlock(s) \/ APost(s) \/ AWake(s) \/ AExit(s)

ASpec == AInit /\ [][ANext]_absVars

ATypeOK ==
  /\ st \in [Services -> States]
  /\ rq \in Seq(Services)
  /\ pend \in [Services -> BOOLEAN]
=============================================================================
