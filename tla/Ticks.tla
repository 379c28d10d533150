------------------------------- MODULE Ticks -------------------------------
(***************************************************************************)
(* chumicro_timing.ticks: millisecond ticks that wrap at TICKS_PERIOD      *)
(* (2^29 in the source).  The source masks with "& TICKS_MAX"; for a       *)
(* period that is a power of two this is the remainder modulo the period,  *)
(* also for a negative operand, which is what % means in TLA+.             *)
(***************************************************************************)
EXTENDS Integers

CONSTANT TICKS_PERIOD

ASSUME TicksPeriodAssumption ==
  /\ TICKS_PERIOD \in Nat
  /\ TICKS_PERIOD > 3
  /\ TICKS_PERIOD % 2 = 0

TICKS_MAX == TICKS_PERIOD - 1
TICKS_HALFPERIOD == TICKS_PERIOD \div 2

\* The readings of the clock: ticks_ms() is the raw counter & TICKS_MAX.
Tick == 0 .. TICKS_MAX
ticks_ms(raw) == raw % TICKS_PERIOD

\* ticks_add raises OverflowError unless the offset is below half the ring.
AddRaises(delta) == ~(-TICKS_HALFPERIOD < delta /\ delta < TICKS_HALFPERIOD)

\* Mutant: the sum is not masked.
ticks_addUnmasked(ticks, delta) == ticks + delta

ticks_add(ticks, delta) == (ticks + delta) % TICKS_PERIOD

\* Mutant: the distance is not brought back into [-HALF, HALF).
ticks_diffUnsigned(end, start) == (end - start) % TICKS_PERIOD

\* The signed distance from start to end, in [-HALF, HALF).
ticks_diff(end, start) ==
  LET diff == (end - start) % TICKS_PERIOD
  IN  ((diff + TICKS_HALFPERIOD) % TICKS_PERIOD) - TICKS_HALFPERIOD
=============================================================================
