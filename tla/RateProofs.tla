----------------------------- MODULE RateProofs -----------------------------
(***************************************************************************)
(* For every tick period and every rate period: Rate's wrapped arithmetic  *)
(* is exact (IInv is inductive) and Rate implements RateSpec.              *)
(***************************************************************************)
EXTENDS Rate, TicksProofs

\* A fire armed one period ahead is one period in the future.
LEMMA ArmedAhead ==
  ASSUME NEW t \in Tick
  PROVE  /\ ticks_add(t, period_ms) \in Tick
         /\ ticks_diff(t, ticks_add(t, period_ms)) = -period_ms
<1>1. /\ ticks_diff(t, t) = 0
      /\ period_ms \in Int /\ -TICKS_HALFPERIOD <= 0 - period_ms
      /\ -TICKS_HALFPERIOD <= period_ms /\ period_ms <= TICKS_HALFPERIOD
      /\ 0 - period_ms < TICKS_HALFPERIOD
      /\ -TICKS_PERIOD <= period_ms /\ period_ms <= TICKS_PERIOD
  BY HalfPeriod, PeriodAssumption, DiffSame
<1>2. ticks_diff(t, ticks_add(t, period_ms)) = 0 - period_ms
  BY <1>1, StartMoves
<1> QED BY <1>1, <1>2, AddWraps

\* Whole periods (deadline.py:47-49): the multiple of the period that due()
\* adds is the least one that is greater than the lateness.
LEMMA WholePeriods ==
  ASSUME NEW b \in Nat
  PROVE  LET skip == PeriodsMissed(b) * period_ms
         IN  /\ skip \in Nat
             /\ b < skip /\ skip <= b + period_ms
             /\ skip % period_ms = 0
<1>1. PICK q \in Nat : q = b \div period_ms /\ q * period_ms <= b
                        /\ b < q * period_ms + period_ms
  BY PeriodAssumption
<1>2. PeriodsMissed(b) * period_ms = q * period_ms + period_ms
  BY <1>1, PeriodAssumption DEF PeriodsMissed
<1>3. (PeriodsMissed(b) * period_ms) % period_ms = 0
  BY <1>1, PeriodAssumption DEF PeriodsMissed
<1> QED BY <1>1, <1>2, <1>3, PeriodAssumption

\* The initial states satisfy the inductive invariant.
LEMMA InitIInv == Init => IInv
<1> SUFFICES ASSUME Init PROVE IInv
  OBVIOUS
<1>1. next_due \in Tick /\ ticks_diff(clock, next_due) = -period_ms
  BY ArmedAhead DEF Init
<1> QED BY <1>1, HalfPeriod, PeriodAssumption
        DEF Init, IInv, TypeOK, ReadingIsExact, NeverOverflows, MaxLate

\* Every step keeps it: one case per operation.
LEMMA NextIInv == IInv /\ [Next]_vars => IInv'
<1> SUFFICES ASSUME IInv, [Next]_vars PROVE IInv'
  OBVIOUS
<1> USE HalfPeriod, PeriodAssumption DEF IInv, TypeOK, ReadingIsExact, NeverOverflows, MaxLate
<1>1. CASE Elapse
  <2>1. PICK d \in 1 .. TICKS_HALFPERIOD :
          /\ late + d <= MaxLate
          /\ clock' = ticks_add(clock, d)
          /\ late' = late + d
    BY <1>1 DEF Elapse, ticks_ms, ticks_add
  <2>2. next_due' = next_due /\ answer' = "none"
    BY <1>1 DEF Elapse
  <2>3. clock' \in Tick
    BY <2>1, AddWraps
  <2>4. ticks_diff(clock', next_due') = late'
    BY <2>1, <2>2, EndMoves
  <2> QED BY <2>1, <2>2, <2>3, <2>4
<1>2. CASE Due
  <2>1. CASE late < 0
    BY <1>2, <2>1 DEF Due
  <2>2. CASE late >= 0
    <3> DEFINE skip == PeriodsMissed(late) * period_ms
    <3>1. skip \in Nat /\ late < skip /\ skip <= late + period_ms
      BY <2>2, WholePeriods
    <3> HIDE DEF skip
    <3>2. ~AddRaises(skip)
      BY <3>1 DEF AddRaises
    <3>3. /\ next_due' = ticks_add(next_due, skip)
          /\ late' = late - skip
          /\ clock' = clock
          /\ answer' = "fire"
      BY <1>2, <2>2, <3>2 DEF Due, skip
    <3>4. next_due' \in Tick
      BY <3>1, <3>3, AddWraps
    <3>5. ticks_diff(clock', next_due') = late'
      BY <3>1, <3>3, StartMoves
    <3> QED BY <2>2, <3>1, <3>3, <3>4, <3>5
  <2> QED BY <2>1, <2>2
<1>3. CASE Reset
  <2>1. next_due' \in Tick /\ ticks_diff(clock', next_due') = -period_ms
    BY <1>3, ArmedAhead DEF Reset
  <2> QED BY <1>3, <2>1 DEF Reset
<1>4. CASE UNCHANGED vars
  BY <1>4 DEF vars
<1> QED BY <1>1, <1>2, <1>3, <1>4 DEF Next

\* due() reads the true distance to the next fire at every point of the ring,
\* and never overflows, for every tick period and every rate period.
THEOREM RateIsExact == Spec => [](ReadingIsExact /\ NeverOverflows)
<1>1. IInv => ReadingIsExact /\ NeverOverflows
  BY DEF IInv
<1> QED BY InitIInv, NextIInv, <1>1, PTL DEF Spec

\* The wrapping implementation implements the specification whose time never
\* wraps: fires exactly when the time has come, in phase, never in a burst.
THEOREM RateImplementsRateSpec == Spec => ImplementsRateSpec
<1>1. Init => Abstract!Init
  BY DEF Init, Abstract!Init
<1>2. IInv /\ [Next]_vars => [Abstract!Next]_<<late, answer>>
  <2> SUFFICES ASSUME IInv, [Next]_vars PROVE [Abstract!Next]_<<late, answer>>
    OBVIOUS
  <2> USE HalfPeriod, PeriodAssumption DEF IInv, TypeOK, ReadingIsExact, MaxLate
  <2>1. CASE Elapse
    BY <2>1 DEF Elapse, Abstract!Next, Abstract!Elapse
  <2>2. CASE Due /\ late < 0
    BY <2>2 DEF Due, Abstract!Next, Abstract!Quiet
  <2>3. CASE Due /\ late >= 0
    <3> DEFINE skip == PeriodsMissed(late) * period_ms
    <3>1. /\ skip \in Nat /\ late < skip /\ skip <= late + period_ms
          /\ skip % period_ms = 0
      BY <2>3, WholePeriods
    <3> HIDE DEF skip
    <3>2. ~AddRaises(skip)
      BY <3>1 DEF AddRaises
    <3>3. late' = late - skip /\ answer' = "fire"
      BY <2>3, <3>2 DEF Due, skip
    <3>4. late - late' = skip /\ late' \in (-period_ms) .. (-1)
      BY <3>1, <3>3
    <3> QED BY <2>3, <3>1, <3>3, <3>4 DEF Abstract!Next, Abstract!Fire
  <2>4. CASE Reset
    BY <2>4 DEF Reset, Abstract!Next, Abstract!Reset
  <2>5. CASE UNCHANGED vars
    BY <2>5 DEF vars
  <2> QED BY <2>1, <2>2, <2>3, <2>4, <2>5 DEF Next
<1> QED BY InitIInv, NextIInv, <1>1, <1>2, PTL
        DEF Spec, ImplementsRateSpec, Abstract!Spec
=============================================================================
