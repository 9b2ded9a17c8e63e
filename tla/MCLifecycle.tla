---------------------------- MODULE MCLifecycle ----------------------------
(***************************************************************************)
(* Lifecycle for TLC.                                                      *)
(***************************************************************************)
EXTENDS Lifecycle, TLC

Symmetry ==
  Permutations(Jc) \cup Permutations(Addr) \cup Permutations(Ptr)
  \cup Permutations(Obj \ Func) \cup Permutations(Func)

=============================================================================
