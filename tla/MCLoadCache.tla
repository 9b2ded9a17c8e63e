---------------------------- MODULE MCLoadCache ----------------------------
(***************************************************************************)
(* LoadCache for TLC.                                                      *)
(***************************************************************************)
EXTENDS LoadCache, TLC

Symmetry == Permutations(Ctx) \cup Permutations(Goroutine)

=============================================================================
