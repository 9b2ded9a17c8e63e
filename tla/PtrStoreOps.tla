---------------------------- MODULE PtrStoreOps ----------------------------
(***************************************************************************)
(* The operations of one ptrStore (go-ptr-id.go): the table that gives a   *)
(* Go value a uint32 id which the JavaScript side can carry around, and    *)
(* that finds the Go value again when the engine calls back with the id.   *)
(*                                                                         *)
(* A store is a value here, [index, id2ptr, ptr2id], and an operation maps *)
(* a store to a store, so that PtrStore (one store and its holders) and    *)
(* Lifecycle (one store per context) share the definitions.  Every         *)
(* operation of the code runs from beginning to end under s.lock.          *)
(***************************************************************************)
EXTENDS Integers, FiniteSets

CONSTANTS
  Ptr,    \* the Go pointers that are registered (the &v of makeGoObject)
  IdMod   \* ids are uint32: arithmetic on s.index is modulo IdMod

ASSUME IdModAssumption == IdMod \in Nat \ {0, 1}

Id == 0 .. (IdMod - 1)

\* A Go map from K to V is a function whose domain is the set of its keys.
IsGoMap(m, K, V) == DOMAIN m \subseteq K /\ m \in [DOMAIN m -> V]
EmptyMap == [x \in {} |-> x]

\* type ref struct { ptr, count }
Ref == [ptr : Ptr, count : Nat]

\* type ptrStore struct { index, id2ptr, ptr2id }, without its lock.
IsPtrStore(s) ==
  /\ s.index \in Id
  /\ IsGoMap(s.id2ptr, Id, Ref)
  /\ IsGoMap(s.ptr2id, Ptr, Id)

newPtrStore == [index |-> 0, id2ptr |-> EmptyMap, ptr2id |-> EmptyMap]

(***************************************************************************)
(* register's loop increments s.index, which wraps at IdMod, until it      *)
(* meets an id that is not in the table.  Bump(i, d) is s.index after d    *)
(* increments, d <= IdMod.  FreeAfter says that id n is the one where the  *)
(* loop stops; when every id is taken there is none and it never ends.     *)
(***************************************************************************)
Bump(i, d) == IF i + d < IdMod THEN i + d ELSE i + d - IdMod

FreeAfter(s, n) ==
  \E d \in 1 .. IdMod :
    /\ n = Bump(s.index, d)
    /\ n \notin DOMAIN s.id2ptr
    /\ \A e \in 1 .. (d - 1) : Bump(s.index, e) \in DOMAIN s.id2ptr

HasFree(s) == \E n \in Id : n \notin DOMAIN s.id2ptr

NextFree(s) == CHOOSE n \in Id : FreeAfter(s, n)

\* The id that register(p) returns.
RegisteredId(s, p) ==
  IF p \in DOMAIN s.ptr2id THEN s.ptr2id[p] ELSE NextFree(s)

\* The store that register(p) leaves behind.
register(s, p) ==
  IF p \in DOMAIN s.ptr2id
    THEN [index  |-> s.index,
          id2ptr |-> [s.id2ptr EXCEPT ![s.ptr2id[p]] =
                       [ptr |-> @.ptr, count |-> @.count + 1]],
          ptr2id |-> s.ptr2id]
    ELSE LET n == NextFree(s) IN
         [index  |-> n,
          id2ptr |-> [i \in DOMAIN s.id2ptr \cup {n} |->
                        IF i = n THEN [ptr |-> p, count |-> 1]
                                 ELSE s.id2ptr[i]],
          ptr2id |-> [q \in DOMAIN s.ptr2id \cup {p} |->
                        IF q = p THEN n ELSE s.ptr2id[q]]]

\* lookup(i) finds p.
lookup(s, i, p) == i \in DOMAIN s.id2ptr /\ s.id2ptr[i].ptr = p

(***************************************************************************)
(* remove(i): one reference less; with the last one the id leaves both     *)
(* maps and s.index steps back below it, so that it is handed out again    *)
(* first.  An id that is not in the table is ignored.                      *)
(***************************************************************************)
\* A wrong step back: past the id before the one that was freed.
PrevTwice(i) == i - 2

Prev(i) == IF i = 0 THEN IdMod - 1 ELSE i - 1

\* A wrong removal: s.index stays where it is.
RemoveLastKeepIndex(s, i) ==
  [index  |-> s.index,
   id2ptr |-> [j \in DOMAIN s.id2ptr \ {i} |-> s.id2ptr[j]],
   ptr2id |-> [q \in DOMAIN s.ptr2id \ {s.id2ptr[i].ptr} |-> s.ptr2id[q]]]

RemoveLast(s, i) ==
  LET p == s.id2ptr[i].ptr IN
  [index  |-> IF i <= s.index THEN Prev(i) ELSE s.index,
   id2ptr |-> [j \in DOMAIN s.id2ptr \ {i} |-> s.id2ptr[j]],
   ptr2id |-> [q \in DOMAIN s.ptr2id \ {p} |-> s.ptr2id[q]]]

\* A wrong remove: the first reference that goes takes the entry with it.
removeAtOnce(s, i) ==
  IF i \in DOMAIN s.id2ptr THEN RemoveLast(s, i) ELSE s

remove(s, i) ==
  IF i \notin DOMAIN s.id2ptr THEN s
  ELSE IF s.id2ptr[i].count - 1 > 0
    THEN [index  |-> s.index,
          id2ptr |-> [s.id2ptr EXCEPT ![i] =
                       [ptr |-> @.ptr, count |-> @.count - 1]],
          ptr2id |-> s.ptr2id]
    ELSE RemoveLast(s, i)

=============================================================================
