-------------------------- MODULE TimingWheelAlgo --------------------------
(***************************************************************************)
(* The slot arithmetic of TimerService's hierarchical timing wheel        *)
(* (src/src/TimerService.cpp, TimerService.h) as pure operators.          *)
(*                                                                         *)
(* The wheel has one section of 2^kSection1Bits slots indexed by the low  *)
(* bits of the expiry tick, and four sections of 2^kSection2Bits slots    *)
(* indexed by successively higher bit groups.  The code's widths are 8    *)
(* and 6, which makes the four upper sections reach exactly the 32 bits   *)
(* of the tick counter; the model keeps that shape with smaller widths:   *)
(* ticks are TimeBits = B1 + 4 * B2 bits wide and wrap like the uint32.   *)
(*                                                                         *)
(* A slot is <<0, i>> for time_slot_section1_[i] and <<k + 1, i>> for     *)
(* time_slot_section2_[k][i].                                             *)
(***************************************************************************)
EXTENDS Integers

CONSTANTS B1, B2   \* kSection1Bits, kSection2Bits (scaled down)

ASSUME B1 \in Nat \ {0} /\ B2 \in Nat \ {0}

N1 == 2^B1                    \* kSection1Num
N2 == 2^B2                    \* kSection2Num
Sections2 == 0..3             \* time_slot_section2_[4]
TimeBits == B1 + 4 * B2
Mod == 2^TimeBits             \* uint32_t arithmetic, scaled
Ticks == 0..(Mod - 1)

Slots == ({0} \X (0..(N1 - 1))) \cup ((1..4) \X (0..(N2 - 1)))

Sec2IndexUnmasked(t, k) == t \div 2^(B1 + B2 * k)

(* GetSection2Index (TimerService.cpp:86-90). *)
Sec2Index(t, k) == (t \div 2^(B1 + B2 * k)) % N2

(* Section k of section2 holds differences below N1 * N2^(k+1). *)
SectionSpan(k) == N1 * N2^(k + 1)

(***************************************************************************)
(* DoAdd (TimerService.cpp:38-72): the slot a timer due at tick tm goes  *)
(* to when the wheel's time is cur.  The difference is unsigned 32-bit    *)
(* arithmetic; the last section takes everything that is left.           *)
(***************************************************************************)
PlaceInclusiveBound(cur, tm) ==
  LET dx == (tm - cur) % Mod
      k  == IF \E j \in 0..2 : dx <= SectionSpan(j)
              THEN CHOOSE j \in 0..2 : dx <= SectionSpan(j) /\
                                       \A i \in 0..(j - 1) : dx > SectionSpan(i)
              ELSE 3
  IN IF dx <= N1 THEN <<0, tm % N1>> ELSE <<k + 1, Sec2Index(tm, k)>>

PlaceByCurrentIndex(cur, tm) ==
  LET dx == (tm - cur) % Mod
      k  == IF \E j \in 0..2 : dx < SectionSpan(j)
              THEN CHOOSE j \in 0..2 : dx < SectionSpan(j) /\
                                       \A i \in 0..(j - 1) : dx >= SectionSpan(i)
              ELSE 3
  IN IF dx < N1 THEN <<0, tm % N1>> ELSE <<k + 1, Sec2Index(cur, k)>>

Place(cur, tm) ==
  LET dx == (tm - cur) % Mod
      k  == IF \E j \in 0..2 : dx < SectionSpan(j)
              THEN CHOOSE j \in 0..2 : dx < SectionSpan(j) /\
                                       \A i \in 0..(j - 1) : dx >= SectionSpan(i)
              ELSE 3
  IN IF dx < N1 THEN <<0, tm % N1>> ELSE <<k + 1, Sec2Index(tm, k)>>

(***************************************************************************)
(* The cascade at the start of Update(t) (TimerService.cpp:74-84, 93-97)  *)
(* for one timer at slot loc due at tm: TickSection2(t, k) re-adds every  *)
(* timer of time_slot_section2_[k][Sec2Index(t, k)] with DoAdd(t, .), and *)
(* the next section is ticked only when that index was 0.                 *)
(***************************************************************************)
RECURSIVE CascadeFrom(_, _, _, _)
CascadeFrom(t, k, loc, tm) ==
  LET i    == Sec2Index(t, k)
      loc2 == IF loc = <<k + 1, i>> THEN Place(t, tm) ELSE loc
  IN IF i = 0 /\ k < 3 THEN CascadeFrom(t, k + 1, loc2, tm) ELSE loc2

Cascade(t, loc, tm) == IF t % N1 = 0 THEN CascadeFrom(t, 0, loc, tm) ELSE loc

(* Update(t) fires what is in section1 slot t & kSection1Mask after the  *)
(* cascade (TimerService.cpp:99-112).                                    *)
FiresAt(t, loc, tm) == Cascade(t, loc, tm) = <<0, t % N1>>

(***************************************************************************)
(* Ticks processed, counting from tick t, until a timer at loc due at tm  *)
(* fires; -1 if it has not fired within a whole turn of the clock.  A     *)
(* timer added while cur_time_ = c next sees Update(c).                   *)
(***************************************************************************)
RECURSIVE TicksUntilFire(_, _, _, _)
TicksUntilFire(t, loc, tm, n) ==
  IF FiresAt(t, loc, tm) THEN n
  ELSE IF n >= Mod THEN -1
  ELSE TicksUntilFire((t + 1) % Mod, Cascade(t, loc, tm), tm, n + 1)
=============================================================================
