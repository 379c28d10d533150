----------------------------- MODULE MCKVStore -----------------------------
(***************************************************************************)
(* Two keys of which one fits, and three values of which the encoder       *)
(* rounds one (3, a float) to another (2).                                 *)
(***************************************************************************)
EXTENDS KVStore

CONSTANTS k1, k2

MCEncoded(v) == IF v = 3 THEN 2 ELSE v
=============================================================================
