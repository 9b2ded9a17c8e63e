----------------------------- MODULE IdRegistry -----------------------------
(***************************************************************************)
(* What a ptrStore promises to the scripts, whatever tables it keeps: ids  *)
(* in use and Go values in use are in one-to-one correspondence.  A holder *)
(* that gets an id gets the one its value already has, or one that nobody  *)
(* carries; an id given back may be issued again for any value.            *)
(***************************************************************************)
CONSTANTS
  Holder,  \* the JavaScript values that may carry an id
  Value,   \* the Go values
  Id,      \* the ids
  Nothing  \* what a holder without an id carries

VARIABLE names  \* what each holder carries: an id and the value it stands for

Init == names = [h \in Holder |-> Nothing]

\* i may stand for v beside the names that are in use.
Fits(i, v) ==
  \A h \in Holder : names[h] # Nothing => (names[h].id = i <=> names[h].ptr = v)

Issue(h, v) ==
  /\ names[h] = Nothing
  /\ \E i \in Id :
       /\ Fits(i, v)
       /\ names' = [names EXCEPT ![h] = [id |-> i, ptr |-> v]]

Release(h) ==
  /\ names[h] # Nothing
  /\ names' = [names EXCEPT ![h] = Nothing]

Next == \E h \in Holder : Release(h) \/ \E v \in Value : Issue(h, v)

Spec == Init /\ [][Next]_names

=============================================================================
