---------------------------- MODULE TicksProofs ----------------------------
(***************************************************************************)
(* Facts about the wrapping clock for every even tick period: what the     *)
(* modular arithmetic of Ticks does as long as intervals stay inside half  *)
(* the ring.  From DiffWraps and AddWraps on, everything is linear.        *)
(***************************************************************************)
EXTENDS Ticks, TLAPS

\* Half the ring is a positive integer and twice it is the whole ring.
LEMMA HalfPeriod ==
  /\ TICKS_HALFPERIOD \in Nat \ {0}
  /\ TICKS_PERIOD = 2 * TICKS_HALFPERIOD
  /\ TICKS_PERIOD \in Nat \ {0}
BY TicksPeriodAssumption DEF TICKS_HALFPERIOD

\* A remainder within one ring of the readings.
LEMMA Wrap ==
  ASSUME NEW x \in Int, -TICKS_PERIOD <= x, x < 2 * TICKS_PERIOD
  PROVE  /\ x % TICKS_PERIOD \in Tick
         /\ \/ x % TICKS_PERIOD = x
            \/ x % TICKS_PERIOD = x + TICKS_PERIOD
            \/ x % TICKS_PERIOD = x - TICKS_PERIOD
BY HalfPeriod DEF Tick, TICKS_MAX

\* ticks_add (ticks.py:61-69) returns a reading, off by at most one ring.
LEMMA AddWraps ==
  ASSUME NEW t \in Tick, NEW d \in Int, -TICKS_PERIOD <= d, d <= TICKS_PERIOD
  PROVE  /\ ticks_add(t, d) \in Tick
         /\ \/ ticks_add(t, d) = t + d
            \/ ticks_add(t, d) = t + d + TICKS_PERIOD
            \/ ticks_add(t, d) = t + d - TICKS_PERIOD
<1>1. PICK x \in Int : x = t + d /\ -TICKS_PERIOD <= x /\ x < 2 * TICKS_PERIOD
  BY HalfPeriod DEF Tick, TICKS_MAX
<1>2. PICK y \in Tick : /\ y = x % TICKS_PERIOD
                        /\ y = x \/ y = x + TICKS_PERIOD \/ y = x - TICKS_PERIOD
  BY <1>1, Wrap
<1>3. ticks_add(t, d) = y
  BY <1>1, <1>2 DEF ticks_add
<1> QED BY HalfPeriod, <1>1, <1>2, <1>3 DEF Tick, TICKS_MAX

\* ticks_diff (ticks.py:72-80) returns the signed distance inside half the
\* ring, off by at most one ring from the difference of the readings.
LEMMA DiffWraps ==
  ASSUME NEW e \in Tick, NEW s \in Tick
  PROVE  LET r == ticks_diff(e, s)
         IN  /\ r \in Int
             /\ -TICKS_HALFPERIOD <= r /\ r < TICKS_HALFPERIOD
             /\ r = e - s \/ r = e - s + TICKS_PERIOD \/ r = e - s - TICKS_PERIOD
<1> DEFINE P == TICKS_PERIOD
           H == TICKS_HALFPERIOD
<1>1. e \in 0 .. P - 1 /\ s \in 0 .. P - 1 /\ H \in Nat /\ P = 2 * H
  BY HalfPeriod DEF Tick, TICKS_MAX
<1>2. PICK x \in Int : x = e - s /\ -P <= x /\ x < 2 * P
  BY <1>1
<1>3. PICK y \in Tick : y = x % P /\ (y = x \/ y = x + P \/ y = x - P)
  BY <1>1, <1>2, Wrap
<1>4. PICK z \in Int : z = y + H /\ -P <= z /\ z < 2 * P
  BY <1>1, <1>3 DEF Tick, TICKS_MAX
<1>5. PICK w \in Tick : w = z % P /\ (w = z \/ w = z + P \/ w = z - P)
  BY <1>1, <1>4, Wrap
<1>6. ticks_diff(e, s) = w - H
  BY <1>2, <1>3, <1>4, <1>5 DEF ticks_diff
<1> QED BY <1>1, <1>2, <1>3, <1>4, <1>5, <1>6 DEF Tick, TICKS_MAX

\* Moving one end of an interval moves ticks_diff by as much, as long as the
\* true distance stays inside half the ring.
LEMMA EndMoves ==
  ASSUME NEW e \in Tick, NEW s \in Tick, NEW d \in Int,
         -TICKS_HALFPERIOD <= d, d <= TICKS_HALFPERIOD,
         -TICKS_HALFPERIOD <= ticks_diff(e, s) + d,
         ticks_diff(e, s) + d < TICKS_HALFPERIOD
  PROVE  ticks_diff(ticks_add(e, d), s) = ticks_diff(e, s) + d
<1>1. PICK e2 \in Tick :
        /\ e2 = ticks_add(e, d)
        /\ e2 = e + d \/ e2 = e + d + TICKS_PERIOD \/ e2 = e + d - TICKS_PERIOD
  BY HalfPeriod, AddWraps
<1>2. PICK r \in Int :
        /\ r = ticks_diff(e, s) /\ -TICKS_HALFPERIOD <= r /\ r < TICKS_HALFPERIOD
        /\ r = e - s \/ r = e - s + TICKS_PERIOD \/ r = e - s - TICKS_PERIOD
  BY DiffWraps
<1>3. PICK q \in Int :
        /\ q = ticks_diff(e2, s) /\ -TICKS_HALFPERIOD <= q /\ q < TICKS_HALFPERIOD
        /\ q = e2 - s \/ q = e2 - s + TICKS_PERIOD \/ q = e2 - s - TICKS_PERIOD
  BY DiffWraps
<1>4. q = r + d
  BY HalfPeriod, <1>1, <1>2, <1>3 DEF Tick, TICKS_MAX
<1> QED BY <1>1, <1>2, <1>3, <1>4

\* The same for the other end: a later start is a shorter distance.
LEMMA StartMoves ==
  ASSUME NEW e \in Tick, NEW s \in Tick, NEW d \in Int,
         -TICKS_HALFPERIOD <= d, d <= TICKS_HALFPERIOD,
         -TICKS_HALFPERIOD <= ticks_diff(e, s) - d,
         ticks_diff(e, s) - d < TICKS_HALFPERIOD
  PROVE  ticks_diff(e, ticks_add(s, d)) = ticks_diff(e, s) - d
<1>1. PICK s2 \in Tick :
        /\ s2 = ticks_add(s, d)
        /\ s2 = s + d \/ s2 = s + d + TICKS_PERIOD \/ s2 = s + d - TICKS_PERIOD
  BY HalfPeriod, AddWraps
<1>2. PICK r \in Int :
        /\ r = ticks_diff(e, s) /\ -TICKS_HALFPERIOD <= r /\ r < TICKS_HALFPERIOD
        /\ r = e - s \/ r = e - s + TICKS_PERIOD \/ r = e - s - TICKS_PERIOD
  BY DiffWraps
<1>3. PICK q \in Int :
        /\ q = ticks_diff(e, s2) /\ -TICKS_HALFPERIOD <= q /\ q < TICKS_HALFPERIOD
        /\ q = e - s2 \/ q = e - s2 + TICKS_PERIOD \/ q = e - s2 - TICKS_PERIOD
  BY DiffWraps
<1>4. q = r - d
  BY HalfPeriod, <1>1, <1>2, <1>3 DEF Tick, TICKS_MAX
<1> QED BY <1>1, <1>2, <1>3, <1>4

\* A moment and itself are no time apart.
LEMMA DiffSame == ASSUME NEW t \in Tick PROVE ticks_diff(t, t) = 0
BY DiffWraps, HalfPeriod DEF Tick, TICKS_MAX
=============================================================================
