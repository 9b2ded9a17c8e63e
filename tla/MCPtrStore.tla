---------------------------- MODULE MCPtrStore -----------------------------
(***************************************************************************)
(* PtrStore for TLC, with symmetry in the holders and in the pointers.     *)
(***************************************************************************)
EXTENDS PtrStore, TLC

Symmetry == Permutations(Holder \ Func) \cup Permutations(Func) \cup Permutations(Ptr)

=============================================================================
