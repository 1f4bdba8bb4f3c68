--------------------------- MODULE MCJsonBuilder ---------------------------
(***************************************************************************)
(* An instance of JsonBuilder for TLC: any calls, in any order.            *)
(***************************************************************************)
EXTENDS JsonBuilder

CONSTANTS empty, k1, v1
=============================================================================
