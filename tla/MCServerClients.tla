--------------------------- MODULE MCServerClients ---------------------------
(* The page's server p, f which it recommends, g which only the user adds, and calls
   that overlap. *)
EXTENDS ServerClients
CONSTANTS p, f, g, c1, c2
MCRecommended == <<f>>
=============================================================================
