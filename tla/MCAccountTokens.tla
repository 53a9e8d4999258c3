--------------------------- MODULE MCAccountTokens ---------------------------
(* Two accounts of a server and two calls that may overlap. *)
EXTENDS AccountTokens
CONSTANTS a1, a2, c1, c2
=============================================================================
