-------------------------------- MODULE Timer --------------------------------
(***************************************************************************)
(* Timers (timer.c) on a clock of clock_time_t (clock-arch.c): a signed      *)
(* long, kept here as a number from 0 up to ClockMod - 1.  The clock comes   *)
(* round while a timer runs.                                                *)
(***************************************************************************)
EXTENDS Integers

CONSTANT ClockMod       \* values of clock_time_t (2^32)

ASSUME TimerAssumption == ClockMod \in Nat /\ ClockMod > 1

Clock == 0 .. ClockMod - 1

\* The first value that counts as negative.
Half == (ClockMod + 1) \div 2

\* clock_time after one more second.
Later(now) == (now + 1) % ClockMod

\* Mutant: the sum or difference does not come round.
MutAsLong(x) == x

\* A sum or a difference as a signed long.
AsLong(x) == IF x % ClockMod < Half THEN x % ClockMod ELSE (x % ClockMod) - ClockMod

timer_set(interval, now) == [start |-> now, interval |-> interval]

timer_expired(t, now) == AsLong(now - t.start) >= t.interval
=============================================================================
