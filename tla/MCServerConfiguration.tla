----------------------- MODULE MCServerConfiguration -----------------------
(***************************************************************************)
(* Two or three server threads over a handful of saved versions.  A thread *)
(* that is about to commit past MaxRows can only roll back.                *)
(***************************************************************************)
EXTENDS ServerConfiguration, TLC

Perms == Permutations(Writers) \cup Permutations(Css) \cup Permutations(Holders)
=============================================================================
