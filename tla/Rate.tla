-------------------------------- MODULE Rate --------------------------------
(***************************************************************************)
(* chumicro_timing.deadline.Rate over the wrapping clock of Ticks.  The    *)
(* code reads clock and keeps next_due; late is a history variable, the    *)
(* true distance from the next fire to the present, which the code never   *)
(* sees.  Polls come often enough that the schedule is never so far behind *)
(* that the code's arithmetic leaves half the ring (MaxLate).              *)
(***************************************************************************)
EXTENDS Ticks

CONSTANT period_ms

\* What the constructor does not reject with a ValueError.
ASSUME PeriodAssumption ==
  /\ period_ms \in Nat \ {0}
  /\ period_ms < TICKS_HALFPERIOD

MaxLate == TICKS_HALFPERIOD - 1 - period_ms

VARIABLES clock, next_due, late, answer

vars == <<clock, next_due, late, answer>>

Init ==
  /\ clock \in Tick
  /\ next_due = ticks_add(clock, period_ms)
  /\ late = -period_ms
  /\ answer = "none"

\* Time passes between polls.
Elapse ==
  /\ \E d \in 1 .. TICKS_HALFPERIOD :
       /\ late + d <= MaxLate
       /\ clock' = ticks_ms(clock + d)
       /\ late' = late + d
  /\ answer' = "none"
  /\ UNCHANGED next_due

\* Mutant: the fire time moves to the last period boundary, not past it.
PeriodsMissedOffByOne(behind) == behind \div period_ms

\* Mutant: one period too many.
PeriodsMissedTwice(behind) == behind \div period_ms + 2

PeriodsMissed(behind) == behind \div period_ms + 1

\* due(now_ms)
Due ==
  LET behind == ticks_diff(clock, next_due)
      skip == PeriodsMissed(behind) * period_ms
  IN  /\ IF behind < 0
         THEN answer' = "quiet" /\ UNCHANGED <<next_due, late>>
         ELSE IF AddRaises(skip)
         THEN answer' = "overflow" /\ UNCHANGED <<next_due, late>>
         ELSE /\ answer' = "fire"
              /\ next_due' = ticks_add(next_due, skip)
              /\ late' = late - skip
      /\ UNCHANGED clock

\* reset(now_ms)
Reset ==
  /\ next_due' = ticks_add(clock, period_ms)
  /\ late' = -period_ms
  /\ answer' = "none"
  /\ UNCHANGED clock

Next == Elapse \/ Due \/ Reset

Spec == Init /\ [][Next]_vars

-----------------------------------------------------------------------------
\* The schedule is never further ahead than one period nor further behind than
\* the polls allow, and both readings stay on the ring (deadline.py:30-55).
TypeOK ==
  /\ clock \in Tick
  /\ next_due \in Tick
  /\ late \in (-period_ms) .. MaxLate
  /\ answer \in {"none", "quiet", "fire", "overflow"}

\* What due() computes from two wrapped readings (deadline.py:44) is the true
\* distance to the next fire, wherever on the ring the two readings lie.
ReadingIsExact == ticks_diff(clock, next_due) = late

\* due() never raises OverflowError (ticks.py:69): skipping whole periods
\* stays inside half the ring as long as the polls come within MaxLate.
NeverOverflows == answer # "overflow"

IInv == TypeOK /\ ReadingIsExact /\ NeverOverflows

\* The wrapped implementation is the non-wrapping one (RateSpec): it fires
\* exactly when the true time has come and keeps the phase across the wrap.
Abstract == INSTANCE RateSpec
ImplementsRateSpec == Abstract!Spec
=============================================================================
