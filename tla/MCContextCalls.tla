--------------------------- MODULE MCContextCalls ---------------------------
(***************************************************************************)
(* ContextCalls for TLC.                                                   *)
(***************************************************************************)
EXTENDS ContextCalls

CONSTANTS c1, c2

\* Scripts of c1 may reach c2, never the other way round.
Ordered == {<<c1, c2>>}
\* Scripts of a context may reach the context itself.
Reentrant == {<<c1, c1>>}

=============================================================================
