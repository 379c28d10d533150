---------------------------- MODULE ConnectorSpec ----------------------------
(***************************************************************************)
(* What a socket connector promises whoever drives it, whatever runtime it *)
(* runs on: it is connecting until it is ready or failed, both are final,  *)
(* it is ready only with a socket to hand over, and once failed it has let *)
(* go of the socket it was connecting with.                                *)
(***************************************************************************)

VARIABLES phase,    \* "connecting", "ready" or "failed"
          holds     \* the connector's socket attribute is set

Init == phase = "connecting" /\ holds = FALSE

\* Opens the socket; the only way to obtain one.
Open == phase = "connecting" /\ holds' = TRUE /\ phase' = phase

\* The socket may be opened and become ready in one step, as where the
\* connect blocks; a ready connector always has one.
Succeed == phase = "connecting" /\ phase' = "ready" /\ holds' = TRUE

Fail == phase = "connecting" /\ phase' = "failed" /\ holds' = FALSE

Next == Open \/ Succeed \/ Fail

Spec == Init /\ [][Next]_<<phase, holds>>
=============================================================================
