---------------------------- MODULE TimeReference ----------------------------
(***************************************************************************)
(* The reference between the counter of the concentrator and the time of   *)
(* the GPS receiver (lgw_gps_sync, lgw_cnt2utc, lgw_utc2cnt of             *)
(* loragw_gps.c), kept by a client that offers it fixes, some of them      *)
(* wrong.  Times are kept as the code keeps them, in seconds and           *)
(* nanoseconds; a double is a pair of integers, its quotient.              *)
(***************************************************************************)
EXTENDS Integers

CONSTANTS
  TS_CPS,        \* ticks of the counter in a second, 10^6 in the code; below NS
  NS,            \* nanoseconds in a second
  Wrap,          \* values of the counter, 2^32
  TOL,           \* a slope is good within 1/TOL: 10 ppm, 10^5
  Rates,         \* ticks the crystal really makes in a second
  Gaps,          \* seconds between two fixes; more than the counter holds is a loss
  Errors,        \* nanoseconds a wrong fix is off
  Epoch, MaxTime \* bounds: the first and the last second

VARIABLES
  rate, now, count,   \* the crystal, the second, and the counter
  ref,                \* struct tref
  aber_min1, aber_min2,
  offered,            \* history: the last right fix that was offered, [count, utc]
  right, settled, wild \* history: right fixes in a row, up to 4; wrong ones since
vars == <<rate, now, count, ref, aber_min1, aber_min2, offered, right, settled, wild>>

Zero == [sec |-> 0, nsec |-> 0]
ReferenceInit ==
  /\ rate \in Rates /\ now = Epoch /\ count \in {0, Wrap - TS_CPS}
  /\ ref = [systime |-> 0, count_us |-> 0, utc |-> Zero, xtal_err |-> <<0, 1>>]
  /\ aber_min1 = FALSE /\ aber_min2 = FALSE
  /\ offered = [count_us |-> 0, utc |-> Zero] /\ right = 0 /\ settled = FALSE /\ wild = 0

-----------------------------------------------------------------------------
Since(c, d) == (c - d) % Wrap      \* of unsigned counts
utc_diff(a, b) == ((a.sec - b.sec) * NS) + (a.nsec - b.nsec)

(* The quotient q is within PLUS_10PPM and MINUS_10PPM.                    *)
InRange(q) == q[2] > 0 /\ (TOL - 1) * q[2] <= TOL * q[1] /\ TOL * q[1] <= (TOL + 1) * q[2]
Slope(c, utc) == <<Since(c, ref.count_us) * NS, TS_CPS * utc_diff(utc, ref.utc)>>

(* A point out of range counts once two others have come before it.        *)
lgw_gps_sync(c, utc) ==
  LET aber_n0 == ~InRange(Slope(c, utc)) IN
  /\ ref' = IF ~aber_n0
            THEN [systime |-> 1, count_us |-> c, utc |-> utc, xtal_err |-> Slope(c, utc)]
            ELSE IF aber_min1 /\ aber_min2
            THEN [ref EXCEPT !.systime = 1, !.count_us = c, !.utc = utc,
                             !.xtal_err = IF InRange(@) THEN @ ELSE <<1, 1>>]
            ELSE ref
  /\ aber_min2' = aber_min1 /\ aber_min1' = aber_n0

Valid == ref.systime # 0 /\ InRange(ref.xtal_err)

(* Rounded down to a nanosecond, and a second carried.                     *)
lgw_cnt2utc(c) ==
  LET delta == (Since(c, ref.count_us) * NS * ref.xtal_err[2]) \div (TS_CPS * ref.xtal_err[1])
      tmp   == ref.utc.nsec + (delta % NS)
      carry == IF tmp < NS THEN 0 ELSE 1
  IN  [sec |-> ref.utc.sec + (delta \div NS) + carry, nsec |-> tmp - (carry * NS)]

(* What a negative double becomes as an unsigned integer is undefined: it  *)
(* wraps on one processor and is 0 on another.                             *)
lgw_utc2cnt(utc) ==
  LET scaled == utc_diff(utc, ref.utc) * TS_CPS * ref.xtal_err[1]
      ticks  == IF scaled >= 0 THEN scaled \div (NS * ref.xtal_err[2])
                ELSE -((-scaled) \div (NS * ref.xtal_err[2]))
  IN  {(ref.count_us + ticks) % Wrap} \cup (IF ticks < 0 THEN {ref.count_us} ELSE {})

-----------------------------------------------------------------------------
(* The client: time passes and a fix is offered, right or wrong.  Seconds  *)
(* the counter does not hold begin a new history.                          *)
Shifted(utc, error) ==
  [sec |-> utc.sec + ((utc.nsec + error) \div NS), nsec |-> (utc.nsec + error) % NS]

Fix(gap, error) ==
  /\ now + gap <= MaxTime
  /\ now' = now + gap /\ count' = (count + (gap * rate)) % Wrap
  /\ LET utc == [sec |-> now', nsec |-> 0] IN
     /\ lgw_gps_sync(count', Shifted(utc, error))
     /\ IF error = 0
        THEN /\ offered' = [count_us |-> count', utc |-> utc]
             /\ right' = IF gap * rate >= Wrap THEN 1 ELSE IF right < 4 THEN right + 1 ELSE 4
             /\ wild' = 0
             /\ settled' = (gap * rate < Wrap /\ (settled \/ right' = 4))
        ELSE /\ UNCHANGED offered /\ right' = 0 /\ wild' = IF wild < 3 THEN wild + 1 ELSE 3
             /\ settled' = (settled /\ wild' < 3 /\ gap * rate < Wrap)
  /\ UNCHANGED rate

ReferenceNext == \E gap \in Gaps, error \in Errors \cup {0} : Fix(gap, error)

-----------------------------------------------------------------------------
(* Properties.                                                             *)

Point == [count_us |-> ref.count_us, utc |-> ref.utc]

(* Three right fixes in a row are always enough: the reference is the last *)
(* of them, whatever had been taken for one before, or after the counter   *)
(* has wrapped unseen.                                                     *)
Recovered == right >= 3 => Point = offered /\ Valid

(* After four, a wrong fix or two in a row do not move it; and the counter *)
(* now is converted to the time now, to the tolerance.                     *)
Steady == settled => /\ Point = offered /\ Valid
                     /\ LET off == utc_diff(lgw_cnt2utc(count), [sec |-> now, nsec |-> 0])
                            age == utc_diff([sec |-> now, nsec |-> 0], ref.utc)
                        IN  off \in -(((2 * age) \div TOL) + 1)..(((2 * age) \div TOL) + 1)

(* A count converted to a time and back is the same count, or the one      *)
(* before, wherever the counter is and wraps; and the nanoseconds of that  *)
(* time are less than a second.                                            *)
ThereAndBack ==
  Valid => \A c \in 0..(Wrap - 1) :
    LET utc == lgw_cnt2utc(c) IN
    /\ utc.nsec \in 0..(NS - 1)
    /\ lgw_utc2cnt(utc) \subseteq {c, (c - 1) % Wrap}
=============================================================================
