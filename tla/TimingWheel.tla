----------------------------- MODULE TimingWheel -----------------------------
(***************************************************************************)
(* TimerService (src/src/TimerService.cpp) as a concurrent component: the *)
(* timer thread's Run loop (fetch_add of cur_time_, then Update with its  *)
(* cascade of TickSection2 calls and the splice of the due section1 slot, *)
(* then the callbacks outside the lock) against AddTimer and DeleteTimer  *)
(* called by other threads.  Every step is one critical section under     *)
(* mutex_, or one lock-free step of the timer thread (the fetch_add, one  *)
(* callback).  Slot arithmetic comes from TimingWheelAlgo.                *)
(*                                                                         *)
(* Ticks are absolute here: the horizon stays below one turn of the       *)
(* clock, and wrapping is covered by MC_TimingWheel.                      *)
(***************************************************************************)
EXTENDS TimingWheelAlgo, FiniteSets

CONSTANTS
  Timers,    \* timer objects (model values), each added at most once
  Millis,    \* timeouts callers pass to AddTimer, in milliseconds
  Horizon,   \* cur_time_ never passes Horizon
  NoSlot     \* model value: timer->slot == nullptr

ASSUME Millis \subseteq Nat /\ Horizon \in 1..(Mod - 1)

kPeriod == 10    \* TimerService::kPeriod, milliseconds per tick

(* AddTimer's conversion (TimerService.cpp:12), rounding to the nearest *)
(* tick.  The code's uint32 sum wraps only for ms >= 2^32 - 5, beyond    *)
(* TLC's integers and beyond Millis.                                      *)
Timeout(ms) == (ms + kPeriod \div 2) \div kPeriod

TStates == {"unused", "linked", "spliced", "fired", "cancelled"}

VARIABLES
  now,       \* cur_time_
  tpc,       \* timer thread: "idle", "cascade", "splice" or "fire"
  lvl,       \* the TickSection2 section the cascade is at
  tick,      \* the argument of the Update in progress (last one if idle)
  loc,       \* timer->slot
  tmOf,      \* timer->tm
  tstate,    \* where each timer is in its life
  batch,     \* the spliced list whose callbacks Update still has to run
  due,       \* ghost: the tick the caller asked for, cur_time_ + timeout
  firedAt    \* ghost: the tick whose Update ran the callback

vars == <<now, tpc, lvl, tick, loc, tmOf, tstate, batch, due, firedAt>>

-----------------------------------------------------------------------------
(***************************************************************************)
(* AddTimer (TimerService.cpp:9-25): a timeout of 0 ticks runs the        *)
(* callback at once on the caller's thread; otherwise, under the lock,    *)
(* tm = cur_time_ + timeout and DoAdd(cur_time_, timer).                  *)
(***************************************************************************)
AddTimer(t, ms) ==
  LET d == Timeout(ms) IN
  /\ tstate[t] = "unused"
  /\ now + d < Horizon
  /\ due' = [due EXCEPT ![t] = now + d]
  /\ IF d = 0
       THEN /\ tstate' = [tstate EXCEPT ![t] = "fired"]
            /\ firedAt' = [firedAt EXCEPT ![t] = now]
            /\ UNCHANGED <<loc, tmOf>>
       ELSE /\ tmOf' = [tmOf EXCEPT ![t] = (now + d) % Mod]
            /\ loc' = [loc EXCEPT ![t] = Place(now, (now + d) % Mod)]
            /\ tstate' = [tstate EXCEPT ![t] = "linked"]
            /\ UNCHANGED firedAt
  /\ UNCHANGED <<now, tpc, lvl, tick, batch>>

(***************************************************************************)
(* DeleteTimer (TimerService.cpp:27-36): under the lock, unlink the timer *)
(* if it still has a slot.  A timer Update has spliced out has slot ==    *)
(* nullptr and is left alone: its callback still runs.                    *)
(***************************************************************************)
DeleteTimer(t) ==
  /\ tstate[t] = "linked"
  /\ loc' = [loc EXCEPT ![t] = NoSlot]
  /\ tstate' = [tstate EXCEPT ![t] = "cancelled"]
  /\ UNCHANGED <<now, tpc, lvl, tick, tmOf, batch, due, firedAt>>

(***************************************************************************)
(* Run (TimerService.cpp:127-129): tm = cur_time_.fetch_add(1), then      *)
(* Update(tm), which cascades first when tm & kSection1Mask == 0.         *)
(***************************************************************************)
FetchAdd ==
  /\ tpc = "idle" /\ now < Horizon
  /\ tick' = now
  /\ now' = now + 1
  /\ tpc' = IF now % N1 = 0 THEN "cascade" ELSE "splice"
  /\ lvl' = 0
  /\ UNCHANGED <<loc, tmOf, tstate, batch, due, firedAt>>

(***************************************************************************)
(* TickSection2(tick, lvl) (TimerService.cpp:74-84), one critical        *)
(* section: re-add every timer of the indexed slot with DoAdd(tick, .),   *)
(* clear the slot, and go on to the next section only if the index was 0 *)
(* (Update, TimerService.cpp:94-97).                                      *)
(***************************************************************************)
TickSection2NoChain ==
  /\ tpc = "cascade"
  /\ LET i == Sec2Index(tick, lvl) IN
       /\ loc' = [t \in Timers |->
                    IF loc[t] = <<lvl + 1, i>> THEN Place(tick, tmOf[t]) ELSE loc[t]]
       /\ tpc' = "splice"
       /\ UNCHANGED lvl
  /\ UNCHANGED <<now, tick, tmOf, tstate, batch, due, firedAt>>

TickSection2ClearFirst ==
  /\ tpc = "cascade"
  /\ LET i == Sec2Index(tick, lvl) IN
       /\ loc' = [t \in Timers |-> IF loc[t] = <<lvl + 1, i>> THEN NoSlot ELSE loc[t]]
       /\ IF i = 0 /\ lvl < 3
            THEN lvl' = lvl + 1 /\ UNCHANGED tpc
            ELSE tpc' = "splice" /\ UNCHANGED lvl
  /\ UNCHANGED <<now, tick, tmOf, tstate, batch, due, firedAt>>

TickSection2 ==
  /\ tpc = "cascade"
  /\ LET i == Sec2Index(tick, lvl) IN
       /\ loc' = [t \in Timers |->
                    IF loc[t] = <<lvl + 1, i>> THEN Place(tick, tmOf[t]) ELSE loc[t]]
       /\ IF i = 0 /\ lvl < 3
            THEN lvl' = lvl + 1 /\ UNCHANGED tpc
            ELSE tpc' = "splice" /\ UNCHANGED lvl
  /\ UNCHANGED <<now, tick, tmOf, tstate, batch, due, firedAt>>

(***************************************************************************)
(* Update's critical section (TimerService.cpp:99-108): every timer of    *)
(* section1 slot tick & kSection1Mask gets slot = nullptr and the list is *)
(* spliced out.                                                           *)
(***************************************************************************)
Splice ==
  /\ tpc = "splice"
  /\ LET due1 == {t \in Timers : loc[t] = <<0, tick % N1>>} IN
       /\ loc' = [t \in Timers |-> IF t \in due1 THEN NoSlot ELSE loc[t]]
       /\ tstate' = [t \in Timers |-> IF t \in due1 THEN "spliced" ELSE tstate[t]]
       /\ batch' = due1
  /\ tpc' = "fire"
  /\ UNCHANGED <<now, lvl, tick, tmOf, due, firedAt>>

(* The callbacks, outside the lock (TimerService.cpp:110-112). *)
Fire(t) ==
  /\ tpc = "fire" /\ t \in batch
  /\ batch' = batch \ {t}
  /\ tstate' = [tstate EXCEPT ![t] = "fired"]
  /\ firedAt' = [firedAt EXCEPT ![t] = tick]
  /\ UNCHANGED <<now, tpc, lvl, tick, loc, tmOf, due>>

UpdateDone ==
  /\ tpc = "fire" /\ batch = {}
  /\ tpc' = "idle"
  /\ UNCHANGED <<now, lvl, tick, loc, tmOf, tstate, batch, due, firedAt>>

-----------------------------------------------------------------------------
(* cur_time_ starts at 1 (TimerService.h:96); the wheel is empty. *)
Init ==
  /\ now = 1 /\ tpc = "idle" /\ lvl = 0 /\ tick = 0
  /\ loc = [t \in Timers |-> NoSlot]
  /\ tmOf = [t \in Timers |-> 0]
  /\ tstate = [t \in Timers |-> "unused"]
  /\ batch = {}
  /\ due = [t \in Timers |-> 0]
  /\ firedAt = [t \in Timers |-> 0]

TimerThread == FetchAdd \/ TickSection2 \/ Splice \/ UpdateDone \/ \E t \in Timers : Fire(t)

Callers == \E t \in Timers : (\E ms \in Millis : AddTimer(t, ms)) \/ DeleteTimer(t)

Next == TimerThread \/ Callers

(***************************************************************************)
(* The timer thread sleeps half a period and then processes every elapsed *)
(* tick; until interrupted it always comes back: weak fairness.  Callers *)
(* owe nothing.                                                           *)
(***************************************************************************)
Spec == Init /\ [][Next]_vars /\ WF_vars(TimerThread)

-----------------------------------------------------------------------------
TypeOK ==
  /\ now \in 1..Horizon /\ tick \in 0..Horizon
  /\ tpc \in {"idle", "cascade", "splice", "fire"} /\ lvl \in Sections2
  /\ loc \in [Timers -> Slots \cup {NoSlot}]
  /\ tmOf \in [Timers -> Ticks]
  /\ tstate \in [Timers -> TStates]
  /\ batch \subseteq Timers
  /\ due \in [Timers -> 0..Horizon] /\ firedAt \in [Timers -> 0..Horizon]

(* The ticks whose Update has spliced its slot. *)
Spliced == IF tpc \in {"fire", "idle"} THEN tick ELSE tick - 1

(***************************************************************************)
(* No timer is left behind: a timer still linked in the wheel is due      *)
(* after every tick whose slot Update has already spliced.  A cascade     *)
(* that stops early, a wrong slot index, or a splice of the wrong slot    *)
(* leaves a timer in the wheel past its time.                             *)
(***************************************************************************)
NotLate ==
  \A t \in Timers : tstate[t] = "linked" => due[t] > Spliced

(***************************************************************************)
(* Every timer added and not cancelled eventually has its callback run:   *)
(* the cascade never drops a timer on the way down the sections.          *)
(***************************************************************************)
AllFire ==
  \A t \in Timers : tstate[t] = "linked" ~> tstate[t] \in {"fired", "cancelled"}

(***************************************************************************)
(* A timer fires in the Update of the tick it was due on (spec: a timer   *)
(* fires after at least its duration, within one tick).                  *)
(***************************************************************************)
FiresOnDue ==
  \A t \in Timers : tstate[t] = "fired" => firedAt[t] = due[t]
=============================================================================
