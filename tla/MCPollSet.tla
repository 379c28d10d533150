----------------------------- MODULE MCPollSet -----------------------------
(***************************************************************************)
(* Fewer descriptors than socket objects, so descriptors are reused; two   *)
(* services that may share a socket.  Services, socket objects and         *)
(* descriptors are interchangeable.                                        *)
(***************************************************************************)
EXTENDS PollSet, TLC

CONSTANTS v1, v2, s1, s2, s3, f1, f2

Symmetry == Permutations(Services) \cup Permutations(Socks) \cup Permutations(Fds)
=============================================================================
