------------------------------ MODULE UteeTime ------------------------------
(***************************************************************************)
(* The persistent time of a TA, crates/rustee-utee/src/time_api.rs: the    *)
(* value the TA set and the system time at that moment.  A time is seconds *)
(* and milliseconds.  The system clock is external and may be set back.    *)
(***************************************************************************)
EXTENDS Integers

CONSTANTS
  PerSecond, \* milliseconds of a second, 1000 in the code
  MaxSecond, \* largest second, 2^32 - 1 in the code
  MaxClock   \* bound: largest value of the system clock, in milliseconds

ASSUME TimeAssumption == PerSecond \in Nat \ {0} /\ MaxSecond \in Nat

VARIABLES
  clock,    \* external: the system time in milliseconds
  persist,  \* PersistTime: set, sys_base, value
  got       \* what get_ta_persistent_time returned, if it was the last step, and when

timeVars == <<clock, persist, got>>

Time(ms) == [seconds |-> ms \div PerSecond, millis |-> ms % PerSecond]

Millis(t) == t.seconds * PerSecond + t.millis

NoAnswer == [st |-> "none"]

TimeInit ==
  /\ clock = 0
  /\ persist = [set |-> FALSE, sys_base |-> Time(0), value |-> Time(0)]
  /\ got = NoAnswer

----------------------------------------------------------------------------
\* A faulty add, for mutation: the carry of the milliseconds is lost.
time_add_no_carry(base, delta) ==
  LET sec == base.seconds + delta.seconds
  IN  IF sec > MaxSecond THEN {}
      ELSE {[seconds |-> sec, millis |-> (base.millis + delta.millis) % PerSecond]}

\* add: a set, empty on an overflow.
time_add(base, delta) ==
  LET ms == base.millis + delta.millis
      sec == base.seconds + delta.seconds + (ms \div PerSecond)
  IN  IF sec > MaxSecond THEN {} ELSE {[seconds |-> sec, millis |-> ms % PerSecond]}

sat_sub(later, earlier) ==
  LET ms == later.millis - earlier.millis
      borrow == IF ms < 0 THEN 1 ELSE 0
      sec == later.seconds - earlier.seconds - borrow
  IN  IF sec < 0 THEN Time(0)
      ELSE [seconds |-> sec, millis |-> ms + borrow * PerSecond]

ClockMoves ==
  /\ clock' \in (0..MaxClock) \ {clock}
  /\ got' = NoAnswer /\ UNCHANGED persist

\* set_ta_persistent_time; milliseconds of a second or more are refused.
SetTaPersistentTime(t) ==
  /\ t.millis < PerSecond
  /\ persist' = [set |-> TRUE, sys_base |-> Time(clock), value |-> t]
  /\ got' = NoAnswer /\ UNCHANGED clock

GetTaPersistentTime ==
  /\ got' = IF ~persist.set THEN [st |-> "TIME_NOT_SET"]
            ELSE LET r == time_add(persist.value, sat_sub(Time(clock), persist.sys_base))
                 IN  [st |-> IF r = {} THEN "OVERFLOW" ELSE "ok", t |-> r, at |-> clock, of |-> persist]
  /\ UNCHANGED <<clock, persist>>

TimeNext ==
  \/ ClockMoves \/ GetTaPersistentTime
  \/ \E t \in [seconds : 0..MaxSecond, millis : 0..PerSecond] : SetTaPersistentTime(t)

TimeSpec == TimeInit /\ [][TimeNext]_timeVars

----------------------------------------------------------------------------
(* Properties *)

\* The persistent time is the value that was set plus the time the clock has
\* moved on since, to the millisecond, and the value itself when the clock
\* was set back behind that moment.  It is refused as an overflow exactly
\* when the seconds do not fit.
PersistentTimeExact ==
  got.st \in {"ok", "OVERFLOW"} =>
    LET passed == got.at - Millis(got.of.sys_base)
        due == Millis(got.of.value) + (IF passed < 0 THEN 0 ELSE passed)
    IN  IF due < (MaxSecond + 1) * PerSecond THEN got.t = {Time(due)} ELSE got.st = "OVERFLOW"
============================================================================
