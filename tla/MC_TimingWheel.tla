--------------------------- MODULE MC_TimingWheel ---------------------------
(***************************************************************************)
(* TimingWheel instantiated for TLC, with the wheel's slot arithmetic     *)
(* checked against its reference meaning: a timer added with a timeout of *)
(* d ticks while cur_time_ = c, with the timer thread idle, fires in      *)
(* Update(c + d), i.e. after exactly d ticks.  The two reference          *)
(* properties quantify over every (c, d) of a whole clock turn, wrapping  *)
(* included.  They are constant facts of the slot arithmetic, so they are *)
(* stated as invariants checked in the state the timer thread starts in.  *)
(***************************************************************************)
EXTENDS TimingWheel

(* Timeouts of one clock turn: AddTimer with 0 ticks never reaches DoAdd. *)
RefTimeouts == 1..(Mod - 1)

(***************************************************************************)
(* AddTimer/DoAdd followed by Update's cascades and splices fire a timer  *)
(* after exactly its timeout: never early, never late, whatever the       *)
(* section it starts in and however many cascades move it.  A wrong shift *)
(* in GetSection2Index, a wrong bound in DoAdd or a cascade that stops    *)
(* early breaks it.                                                       *)
(***************************************************************************)
FiresExactly ==
  \A c \in Ticks, d \in RefTimeouts :
    LET tm == (c + d) % Mod IN TicksUntilFire(c, Place(c, tm), tm, 0) = d

(* In the wheel's starting state, FiresExactly holds of AddTimer/DoAdd   *)
(* and Update: every timeout of a clock turn fires after exactly itself. *)
FiresAfterTimeout == Init => FiresExactly

(* The cascade of Update(t) would re-add the timer at slot `at`, due at   *)
(* tm, to the very section2 slot TickSection2 is iterating.               *)
SelfReAdd(t, at, tm) ==
  LET RECURSIVE From(_, _)
      From(k, l) ==
        LET i == Sec2Index(t, k) IN
          \/ l = <<k + 1, i>> /\ Place(t, tm) = l
          \/ /\ i = 0 /\ k < 3
             /\ From(k + 1, IF l = <<k + 1, i>> THEN Place(t, tm) ELSE l)
  IN t % N1 = 0 /\ From(0, at)

(* No self re-add in any Update from tick t up to the one that fires the  *)
(* timer added at c with timeout d.                                       *)
RECURSIVE NoSelfReAddFrom(_, _, _, _, _)
NoSelfReAddFrom(t, at, tm, n, d) ==
  \/ n > d
  \/ /\ ~SelfReAdd(t, at, tm)
     /\ NoSelfReAddFrom((t + 1) % Mod, Cascade(t, at, tm), tm, n + 1, d)

(***************************************************************************)
(* A cascade never puts a timer back into the list TickSection2 is        *)
(* iterating (TimerService.cpp:78-81): that list is cleared right after   *)
(* the loop, so such a timer would be lost.                               *)
(***************************************************************************)
NoCascadeSelfReAdd ==
  \A c \in Ticks, d \in RefTimeouts :
    LET tm == (c + d) % Mod IN NoSelfReAddFrom(c, Place(c, tm), tm, 0, d)

(* In the wheel's starting state, NoCascadeSelfReAdd holds of            *)
(* TickSection2: no cascade loses a timer to the list it clears.         *)
CascadeLeavesSlot == Init => NoCascadeSelfReAdd
=============================================================================
