--------------------------- MODULE PtrStoreFacts ---------------------------
(***************************************************************************)
(* What the operations of a ptrStore do, for every store: the facts that   *)
(* the proofs about one store (PtrStoreProofs) and about the stores of     *)
(* several contexts (LifecycleProofs) share.                               *)
(***************************************************************************)
EXTENDS PtrStoreOps, WellFoundedInduction, TLAPS

\* A non-empty set of natural numbers has a least element.
LEMMA LeastNat ==
  ASSUME NEW T, T \subseteq Nat, T # {}
  PROVE  \E x \in T : \A y \in T : x <= y
<1>1. PICK x \in T : \A y \in T : ~ (<<y, x>> \in OpToRel(<, Nat))
  BY NatLessThanWellFounded, WFMin
<1>2. \A y \in T : ~ (y < x)
  BY <1>1 DEF OpToRel
<1>. QED  BY <1>2

\* The loop of register ends at an id that is free, if there is one.
LEMMA NextFreeIsFree ==
  ASSUME NEW s, s.index \in Id, HasFree(s)
  PROVE  NextFree(s) \in Id /\ FreeAfter(s, NextFree(s))
<1> USE IdModAssumption DEF Id
<1>1. PICK m \in Id : m \notin DOMAIN s.id2ptr
  BY DEF HasFree
<1> DEFINE T == {d \in 1 .. IdMod : Bump(s.index, d) \notin DOMAIN s.id2ptr}
<1>2. T # {}
  <2>1. CASE m > s.index
    <3>1. m - s.index \in T
      BY <1>1, <2>1 DEF Bump
    <3>. QED  BY <3>1
  <2>2. CASE m <= s.index
    <3>1. m + IdMod - s.index \in T
      BY <1>1, <2>2 DEF Bump
    <3>. QED  BY <3>1
  <2>. QED  BY <2>1, <2>2
<1>3. PICK d \in T : \A y \in T : d <= y
  <2>1. T \subseteq Nat
    OBVIOUS
  <2>. HIDE DEF T
  <2>. QED  BY <1>2, <2>1, LeastNat
<1>4. Bump(s.index, d) \in Id
  BY <1>3 DEF Bump
<1>5. FreeAfter(s, Bump(s.index, d))
  BY <1>3 DEF FreeAfter
<1>. QED  BY <1>4, <1>5 DEF NextFree

-----------------------------------------------------------------------------
\* register of a pointer that the store does not know: the pointer is found by
\* an id that nothing had, and whatever was found before still is.
LEMMA RegisterFresh ==
  ASSUME NEW s, IsPtrStore(s), NEW p \in Ptr, p \notin DOMAIN s.ptr2id, HasFree(s)
  PROVE  /\ IsPtrStore(register(s, p))
         /\ RegisteredId(s, p) \in Id
         /\ lookup(register(s, p), RegisteredId(s, p), p)
         /\ \A i, q : lookup(s, i, q) => lookup(register(s, p), i, q)
<1>0. PICK n : n = NextFree(s)
  OBVIOUS
<1>1. n \in Id /\ n \notin DOMAIN s.id2ptr
  BY <1>0, NextFreeIsFree DEF IsPtrStore, FreeAfter
<1>2. RegisteredId(s, p) = n
  BY <1>0 DEF RegisteredId
<1>3. PICK t : t = register(s, p)
  OBVIOUS
<1>4. /\ t.index = n
      /\ t.id2ptr = [i \in DOMAIN s.id2ptr \cup {n} |->
                      IF i = n THEN [ptr |-> p, count |-> 1] ELSE s.id2ptr[i]]
      /\ t.ptr2id = [q \in DOMAIN s.ptr2id \cup {p} |->
                      IF q = p THEN n ELSE s.ptr2id[q]]
  BY <1>0, <1>3 DEF register
<1>5. [ptr |-> p, count |-> 1] \in Ref
  BY DEF Ref
<1>6. IsPtrStore(t)
  BY <1>1, <1>4, <1>5 DEF IsPtrStore, IsGoMap
<1>7. lookup(t, n, p)
  BY <1>4 DEF lookup
<1>8. ASSUME NEW i, NEW q, lookup(s, i, q) PROVE lookup(t, i, q)
  BY <1>1, <1>4, <1>8 DEF lookup
<1>. QED  BY <1>1, <1>2, <1>3, <1>6, <1>7, <1>8

\* remove of an id: the other ids are found as before.
LEMMA RemoveKeeps ==
  ASSUME NEW s, IsPtrStore(s), NEW i
  PROVE  /\ IsPtrStore(remove(s, i))
         /\ \A k, q : k # i /\ lookup(s, k, q) => lookup(remove(s, i), k, q)
<1>1. CASE i \notin DOMAIN s.id2ptr
  BY <1>1 DEF remove
<1>2. CASE i \in DOMAIN s.id2ptr /\ s.id2ptr[i].count - 1 > 0
  <2>1. PICK t : t = remove(s, i)
    OBVIOUS
  <2>2. PICK r : r = [ptr |-> s.id2ptr[i].ptr, count |-> s.id2ptr[i].count - 1]
    OBVIOUS
  <2>3. r \in Ref
    BY <1>2, <2>2 DEF Ref, IsPtrStore, IsGoMap
  <2>4. /\ t.index = s.index
        /\ t.id2ptr = [s.id2ptr EXCEPT ![i] = r]
        /\ t.ptr2id = s.ptr2id
    BY <1>2, <2>1, <2>2 DEF remove
  <2>5. IsPtrStore(t)
    BY <1>2, <2>3, <2>4 DEF IsPtrStore, IsGoMap
  <2>6. ASSUME NEW k, NEW q, k # i, lookup(s, k, q) PROVE lookup(t, k, q)
    BY <2>4, <2>6 DEF lookup, IsPtrStore, IsGoMap
  <2>. QED  BY <2>1, <2>5, <2>6
<1>3. CASE i \in DOMAIN s.id2ptr /\ ~ (s.id2ptr[i].count - 1 > 0)
  <2>1. PICK t : t = RemoveLast(s, i)
    OBVIOUS
  <2>2. t = remove(s, i)
    BY <1>3, <2>1 DEF remove
  <2>3. /\ t.index = IF i <= s.index THEN Prev(i) ELSE s.index
        /\ t.id2ptr = [j \in DOMAIN s.id2ptr \ {i} |-> s.id2ptr[j]]
        /\ t.ptr2id = [q \in DOMAIN s.ptr2id \ {s.id2ptr[i].ptr} |-> s.ptr2id[q]]
    BY <2>1 DEF RemoveLast
  <2>4. i \in Id /\ s.index \in Id
    BY <1>3 DEF IsPtrStore, IsGoMap
  <2>5. t.index \in Id
    BY <2>3, <2>4, IdModAssumption DEF Prev, Id
  <2>6. IsPtrStore(t)
    BY <2>3, <2>5 DEF IsPtrStore, IsGoMap
  <2>7. ASSUME NEW k, NEW q, k # i, lookup(s, k, q) PROVE lookup(t, k, q)
    BY <2>3, <2>7 DEF lookup
  <2>. QED  BY <2>2, <2>6, <2>7
<1>. QED  BY <1>1, <1>2, <1>3

\* No id appears in a store from which something is removed.
LEMMA RemoveShrinks ==
  ASSUME NEW s, NEW i
  PROVE  DOMAIN remove(s, i).id2ptr \subseteq DOMAIN s.id2ptr
BY DEF remove, RemoveLast

\* getPtrStore makes an empty store.
LEMMA EmptyStore == IsPtrStore(newPtrStore)
BY IdModAssumption DEF newPtrStore, IsPtrStore, IsGoMap, EmptyMap, Id

=============================================================================
