------------------------------ MODULE RateSpec ------------------------------
(***************************************************************************)
(* What chumicro_timing.Rate promises, over time that never wraps: late is *)
(* the signed distance from the next fire to the present.  A poll fires    *)
(* when the fire time has come and moves it by whole periods to the first  *)
(* one in the future, so the cadence keeps its phase and missed fires are  *)
(* skipped, never replayed in a burst.                                     *)
(***************************************************************************)
EXTENDS Integers

CONSTANT period_ms

VARIABLES late, answer

Init == late = -period_ms /\ answer = "none"

Elapse == late' > late /\ answer' = "none"

\* due() answering True: the new fire time is congruent to the old one.
Fire ==
  /\ late >= 0
  /\ late' \in (-period_ms) .. (-1)
  /\ (late - late') % period_ms = 0
  /\ answer' = "fire"

\* due() answering False leaves the schedule alone.
Quiet == late < 0 /\ answer' = "quiet" /\ UNCHANGED late

Reset == late' = -period_ms /\ answer' = "none"

Next == Elapse \/ Fire \/ Quiet \/ Reset

Spec == Init /\ [][Next]_<<late, answer>>
=============================================================================
