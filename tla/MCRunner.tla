------------------------------ MODULE MCRunner ------------------------------
(***************************************************************************)
(* Two tasks, one a bare handler and one with a check() that may raise,    *)
(* and two kinds of registration: a plain periodic one, and one that is    *)
(* phase-aligned, due at once and limited to two runs.                     *)
(***************************************************************************)
EXTENDS Runner

CONSTANTS t1, t2

Option(p, d, n, aligned) ==
  [period_ms |-> p, start_after_ms |-> d, run_count |-> n, preserve_phase |-> aligned]

MCOptions == { Option(2, None, None, FALSE), Option(1, 0, 2, TRUE) }
=============================================================================
