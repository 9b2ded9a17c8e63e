--------------------------- MODULE PtrStoreProofs ---------------------------
(***************************************************************************)
(* Proofs about PtrStore for every number of holders, pointers and ids.    *)
(* The invariant of interest, HandleResolves, is not inductive alone:      *)
(* remove may free an id only because ref.count is exactly the number of   *)
(* holders (CountExact), register may reuse an entry only because the two  *)
(* maps are inverse (MapsInverse).  Inv is their conjunction.              *)
(***************************************************************************)
EXTENDS PtrStore, PtrStoreFacts, FiniteSetTheorems, TLAPS

Inv == TypeOK /\ MapsInverse /\ HandleResolves /\ CountExact

-----------------------------------------------------------------------------
\* The holders of an id are finitely many.
LEMMA HoldersFinite == \A i : IsFiniteSet(HoldersOf(i))
BY HolderAssumption, FS_Subset DEF HoldersOf, Holding

THEOREM InitInv == Init => Inv
<1> SUFFICES ASSUME Init PROVE Inv
  OBVIOUS
<1>1. DOMAIN EmptyMap = {}
  BY DEF EmptyMap
<1>2. TypeOK
  BY <1>1, IdModAssumption
     DEF Init, TypeOK, IsPtrStore, IsGoMap, newPtrStore, EmptyMap, Id
<1>3. MapsInverse /\ CountExact
  BY <1>1 DEF Init, MapsInverse, CountExact, newPtrStore
<1>4. HandleResolves
  BY DEF Init, HandleResolves, Holding
<1>. QED  BY <1>2, <1>3, <1>4 DEF Inv

LEMMA RegisterInv ==
  ASSUME Inv, NEW h \in Holder, NEW p \in Ptr, Register(h, p)
  PROVE  Inv'
<1>0. PICK n : n = RegisteredId(store, p)
  OBVIOUS
<1>1. n \in Id
  BY <1>0, NextFreeIsFree DEF Inv, TypeOK, IsPtrStore, IsGoMap, Register, RegisteredId
<1>2. /\ held' = [held EXCEPT ![h] = [id |-> n, ptr |-> p]]
      /\ held[h] = NoHandle
      /\ store' = register(store, p)
  BY <1>0 DEF Register
<1>3. [id |-> n, ptr |-> p] \in Handle
  BY <1>1 DEF Handle
<1>4. held' \in [Holder -> Handle \cup {NoHandle}]
  BY <1>2, <1>3 DEF Inv, TypeOK
<1>5. Holding' = Holding \cup {h} /\ h \notin Holding
  BY <1>2, <1>3, NoHandleAssumption DEF Inv, TypeOK, Holding, Handle
<1>6. /\ held'[h].id = n /\ held'[h].ptr = p
      /\ \A g \in Holding : held'[g] = held[g]
  BY <1>2, <1>5 DEF Inv, TypeOK, Holding
<1>7. \A i : HoldersOf(i)' = IF i = n THEN HoldersOf(i) \cup {h} ELSE HoldersOf(i)
  BY <1>5, <1>6 DEF HoldersOf
<1>8. /\ Cardinality(HoldersOf(n)') = Cardinality(HoldersOf(n)) + 1
      /\ Cardinality(HoldersOf(n)) \in Nat
  <2>1. HoldersOf(n)' = HoldersOf(n) \cup {h}
    BY <1>7
  <2>2. h \notin HoldersOf(n)
    BY <1>5 DEF HoldersOf
  <2>3. IsFiniteSet(HoldersOf(n))
    BY HoldersFinite
  <2>. QED  BY <2>1, <2>2, <2>3, FS_AddElement, FS_CardinalityType
<1>9. CASE p \in DOMAIN store.ptr2id
  <2>1. /\ n = store.ptr2id[p]
        /\ n \in DOMAIN store.id2ptr
        /\ store.id2ptr[n].ptr = p
    BY <1>0, <1>9 DEF RegisteredId, Inv, MapsInverse
  <2>2. /\ store'.index = store.index
        /\ store'.ptr2id = store.ptr2id
        /\ store'.id2ptr = [store.id2ptr EXCEPT ![n] =
                             [ptr |-> @.ptr, count |-> @.count + 1]]
    BY <1>2, <1>9, <2>1 DEF register
  <2>3. /\ DOMAIN store'.id2ptr = DOMAIN store.id2ptr
        /\ store'.id2ptr[n] = [ptr |-> p, count |-> store.id2ptr[n].count + 1]
        /\ \A i \in DOMAIN store.id2ptr : i # n => store'.id2ptr[i] = store.id2ptr[i]
        /\ store.id2ptr[n].count \in Nat
    BY <2>1, <2>2 DEF Inv, TypeOK, IsPtrStore, IsGoMap, Ref
  <2>4. TypeOK'
    BY <1>4, <2>1, <2>2, <2>3 DEF Inv, TypeOK, IsPtrStore, IsGoMap, Ref
  <2>5. MapsInverse'
    BY <2>1, <2>2, <2>3 DEF Inv, MapsInverse
  <2>6. HandleResolves'
    BY <1>5, <1>6, <2>1, <2>3 DEF Inv, HandleResolves, lookup
  <2>7. CountExact'
    <3> SUFFICES ASSUME NEW i \in DOMAIN store'.id2ptr
                 PROVE  /\ store'.id2ptr[i].count > 0
                        /\ store'.id2ptr[i].count = Cardinality(HoldersOf(i)')
      BY DEF CountExact
    <3>1. CASE i = n
      BY <1>8, <2>1, <2>3, <3>1 DEF Inv, CountExact
    <3>2. CASE i # n
      BY <1>7, <2>3, <3>2 DEF Inv, CountExact
    <3>. QED  BY <3>1, <3>2
  <2>. QED  BY <2>4, <2>5, <2>6, <2>7 DEF Inv
<1>10. CASE p \notin DOMAIN store.ptr2id
  <2>1. n \notin DOMAIN store.id2ptr /\ n = NextFree(store)
    BY <1>0, <1>10, NextFreeIsFree
       DEF Inv, TypeOK, IsPtrStore, Register, RegisteredId, FreeAfter
  <2>2. /\ store'.index = n
        /\ store'.id2ptr = [i \in DOMAIN store.id2ptr \cup {n} |->
                              IF i = n THEN [ptr |-> p, count |-> 1]
                                       ELSE store.id2ptr[i]]
        /\ store'.ptr2id = [q \in DOMAIN store.ptr2id \cup {p} |->
                              IF q = p THEN n ELSE store.ptr2id[q]]
    BY <1>2, <1>10, <2>1 DEF register
  <2>3. TypeOK'
    BY <1>1, <1>4, <2>2 DEF Inv, TypeOK, IsPtrStore, IsGoMap, Ref
  <2>4. MapsInverse'
    BY <1>10, <2>1, <2>2 DEF Inv, MapsInverse
  <2>5. HandleResolves'
    BY <1>5, <1>6, <2>1, <2>2 DEF Inv, HandleResolves, lookup
  <2>6. HoldersOf(n) = {}
    BY <2>1 DEF Inv, HandleResolves, lookup, HoldersOf
  <2>7. Cardinality(HoldersOf(n)') = 1
    BY <1>8, <2>6, FS_EmptySet
  <2>8. CountExact'
    <3> SUFFICES ASSUME NEW i \in DOMAIN store'.id2ptr
                 PROVE  /\ store'.id2ptr[i].count > 0
                        /\ store'.id2ptr[i].count = Cardinality(HoldersOf(i)')
      BY DEF CountExact
    <3>1. CASE i = n
      BY <2>2, <2>7, <3>1
    <3>2. CASE i # n
      BY <1>7, <2>2, <3>2 DEF Inv, CountExact
    <3>. QED  BY <3>1, <3>2
  <2>. QED  BY <2>3, <2>4, <2>5, <2>8 DEF Inv
<1>. QED  BY <1>9, <1>10

\* The finalizer of a holder gives back one reference: the entry goes with the
\* last one, and no other holder notices.
LEMMA RemoveInv ==
  ASSUME Inv, NEW h \in Holder, Remove(h)
  PROVE  Inv'
<1>0. PICK n, p : n = held[h].id /\ p = held[h].ptr
  OBVIOUS
<1>1. /\ h \in Holding /\ n \in Id /\ p \in Ptr
      /\ n \in DOMAIN store.id2ptr
      /\ store.id2ptr[n].ptr = p
      /\ store.id2ptr[n].count \in Nat
      /\ p \in DOMAIN store.ptr2id
      /\ store.ptr2id[p] = n
  <2>1. h \in Holding /\ held[h] \in Handle
    BY DEF Remove, Inv, TypeOK, Holding
  <2>2. lookup(store, n, p)
    BY <1>0, <2>1 DEF Inv, HandleResolves
  <2>. QED  BY <1>0, <2>1, <2>2
            DEF Inv, TypeOK, IsPtrStore, IsGoMap, Ref, Handle, lookup, MapsInverse
<1>2. /\ held' = [held EXCEPT ![h] = NoHandle]
      /\ store' = remove(store, n)
  BY <1>0 DEF Remove
<1>3. held' \in [Holder -> Handle \cup {NoHandle}]
  BY <1>2 DEF Inv, TypeOK
<1>4. Holding' = Holding \ {h} /\ \A g \in Holding' : held'[g] = held[g]
  BY <1>2, NoHandleAssumption DEF Inv, TypeOK, Holding
<1>5. \A i : HoldersOf(i)' = IF i = n THEN HoldersOf(i) \ {h} ELSE HoldersOf(i)
  BY <1>0, <1>4 DEF HoldersOf
<1>6. /\ Cardinality(HoldersOf(n)') = Cardinality(HoldersOf(n)) - 1
      /\ Cardinality(HoldersOf(n)) \in Nat
  <2>1. HoldersOf(n)' = HoldersOf(n) \ {h}
    BY <1>5
  <2>2. h \in HoldersOf(n)
    BY <1>0, <1>1 DEF HoldersOf
  <2>3. IsFiniteSet(HoldersOf(n))
    BY HoldersFinite
  <2>. QED  BY <2>1, <2>2, <2>3, FS_RemoveElement, FS_CardinalityType
<1>7. CASE store.id2ptr[n].count - 1 > 0
  <2>1. /\ store'.index = store.index
        /\ store'.ptr2id = store.ptr2id
        /\ store'.id2ptr = [store.id2ptr EXCEPT ![n] =
                             [ptr |-> @.ptr, count |-> @.count - 1]]
    BY <1>1, <1>2, <1>7 DEF remove
  <2>2. /\ DOMAIN store'.id2ptr = DOMAIN store.id2ptr
        /\ store'.id2ptr[n] = [ptr |-> p, count |-> store.id2ptr[n].count - 1]
        /\ \A i \in DOMAIN store.id2ptr : i # n => store'.id2ptr[i] = store.id2ptr[i]
    BY <1>1, <2>1
  <2>3. TypeOK'
    BY <1>1, <1>3, <1>7, <2>1, <2>2 DEF Inv, TypeOK, IsPtrStore, IsGoMap, Ref
  <2>4. MapsInverse'
    BY <1>1, <2>1, <2>2 DEF Inv, MapsInverse
  <2>5. HandleResolves'
    BY <1>1, <1>4, <2>2 DEF Inv, HandleResolves, lookup
  <2>6. CountExact'
    <3> SUFFICES ASSUME NEW i \in DOMAIN store'.id2ptr
                 PROVE  /\ store'.id2ptr[i].count > 0
                        /\ store'.id2ptr[i].count = Cardinality(HoldersOf(i)')
      BY DEF CountExact
    <3>1. CASE i = n
      BY <1>1, <1>6, <1>7, <2>2, <3>1 DEF Inv, CountExact
    <3>2. CASE i # n
      BY <1>5, <2>2, <3>2 DEF Inv, CountExact
    <3>. QED  BY <3>1, <3>2
  <2>. QED  BY <2>3, <2>4, <2>5, <2>6 DEF Inv
<1>8. CASE ~ (store.id2ptr[n].count - 1 > 0)
  <2>1. /\ store'.index = IF n <= store.index THEN Prev(n) ELSE store.index
        /\ store'.id2ptr = [j \in DOMAIN store.id2ptr \ {n} |-> store.id2ptr[j]]
        /\ store'.ptr2id = [q \in DOMAIN store.ptr2id \ {p} |-> store.ptr2id[q]]
    BY <1>1, <1>2, <1>8 DEF remove, RemoveLast
  <2>2. Prev(n) \in Id
    BY <1>1, IdModAssumption DEF Prev, Id
  <2>3. TypeOK'
    BY <1>3, <2>1, <2>2 DEF Inv, TypeOK, IsPtrStore, IsGoMap
  <2>4. MapsInverse'
    BY <1>1, <2>1 DEF Inv, MapsInverse
  <2>5. HoldersOf(n)' = {}
    <3>1. Cardinality(HoldersOf(n)) = 1
      BY <1>1, <1>6, <1>8 DEF Inv, CountExact
    <3>2. IsFiniteSet(HoldersOf(n)')
      BY <1>5, HoldersFinite, FS_Subset
    <3>. QED  BY <1>6, <3>1, <3>2, FS_EmptySet
  <2>6. HandleResolves'
    <3> SUFFICES ASSUME NEW g \in Holding'
                 PROVE  lookup(store', held'[g].id, held'[g].ptr)
      BY DEF HandleResolves
    <3>1. held'[g] = held[g] /\ g \in Holding
      BY <1>4
    <3>2. held[g].id # n
      BY <1>4, <2>5, <3>1 DEF HoldersOf
    <3>. QED  BY <2>1, <3>1, <3>2 DEF Inv, HandleResolves, lookup
  <2>7. CountExact'
    <3> SUFFICES ASSUME NEW i \in DOMAIN store'.id2ptr
                 PROVE  /\ store'.id2ptr[i].count > 0
                        /\ store'.id2ptr[i].count = Cardinality(HoldersOf(i)')
      BY DEF CountExact
    <3>1. i # n /\ i \in DOMAIN store.id2ptr /\ store'.id2ptr[i] = store.id2ptr[i]
      BY <2>1
    <3>. QED  BY <1>5, <3>1 DEF Inv, CountExact
  <2>. QED  BY <2>3, <2>4, <2>6, <2>7 DEF Inv
<1>. QED  BY <1>7, <1>8

-----------------------------------------------------------------------------
LEMMA NextInv == Inv /\ [Next]_vars => Inv'
<1> SUFFICES ASSUME Inv, [Next]_vars PROVE Inv'
  OBVIOUS
<1>1. ASSUME NEW h \in Holder, NEW p \in Ptr, Register(h, p)
      PROVE  Inv'
  BY <1>1, RegisterInv
<1>2. ASSUME NEW h \in Holder, Remove(h)
      PROVE  Inv'
  BY <1>2, RemoveInv
<1>3. CASE UNCHANGED vars
  <2>1. HoldersOf(0)' = HoldersOf(0) /\ \A i : HoldersOf(i)' = HoldersOf(i)
    BY <1>3 DEF vars, HoldersOf, Holding
  <2>2. Holding' = Holding
    BY <1>3 DEF vars, Holding
  <2>. QED  BY <1>3, <2>1, <2>2 DEF vars, Inv, TypeOK, MapsInverse, HandleResolves, CountExact
<1>. QED  BY <1>1, <1>2, <1>3 DEF Next

\* The inductive invariant holds in every reachable state.
THEOREM InvHolds == Spec => []Inv
<1>1. Init => Inv
  BY InitInv
<1>2. Inv /\ [Next]_vars => Inv'
  BY NextInv
<1>. QED  BY <1>1, <1>2, PTL DEF Spec

\* TypeOK of the store and of its holders.
THEOREM TypeCorrect == Spec => []TypeOK
BY InvHolds, PTL DEF Inv

\* goFuncBridge and getTargetValue find the pointer of every id still carried,
\* however many holders and pointers there are.
THEOREM HandlesResolve == Spec => []HandleResolves
BY InvHolds, PTL DEF Inv

\* ref.count counts the holders, so remove frees an entry with the last of them.
THEOREM CountsExact == Spec => []CountExact
BY InvHolds, PTL DEF Inv

\* id2ptr and ptr2id stay inverse to each other.
THEOREM MapsStayInverse == Spec => []MapsInverse
BY InvHolds, PTL DEF Inv

-----------------------------------------------------------------------------
\* Every entry of the table has a holder.
LEMMA EntryHasHolder ==
  ASSUME Inv, NEW i \in DOMAIN store.id2ptr
  PROVE  \E g \in Holding : g \in HoldersOf(i)
<1>1. Cardinality(HoldersOf(i)) # 0
  BY DEF Inv, CountExact
<1>2. Cardinality({}) = 0
  BY FS_EmptySet
<1>3. HoldersOf(i) # {}
  BY ONLY <1>1, <1>2, Zenon
<1>. QED  BY <1>3 DEF HoldersOf

\* Different ids have different holders, so while one holder is without an id
\* the ids from a on cannot all be taken if they are as many as the holders.
LEMMA NotAllTaken ==
  ASSUME Inv, NEW h \in Holder, h \notin Holding,
         NEW a \in 0 .. 1, Cardinality(Holder) <= IdMod - a
  PROVE  \E m \in a .. (IdMod - 1) : m \notin DOMAIN store.id2ptr
<1> SUFFICES ASSUME a .. (IdMod - 1) \subseteq DOMAIN store.id2ptr
             PROVE  FALSE
  OBVIOUS
<1> DEFINE S == a .. (IdMod - 1)
           T == Holder \ {h}
           f == [i \in S |-> CHOOSE g \in T : g \in HoldersOf(i)]
<1>1. IsFiniteSet(S) /\ Cardinality(S) = IdMod - a
  <2>1. a \in Int /\ IdMod - 1 \in Int /\ ~ (a > IdMod - 1) /\ IdMod - 1 - a + 1 = IdMod - a
    BY IdModAssumption
  <2>2. /\ IsFiniteSet(a .. (IdMod - 1))
        /\ Cardinality(a .. (IdMod - 1)) =
             IF a > IdMod - 1 THEN 0 ELSE IdMod - 1 - a + 1
    BY <2>1, FS_Interval
  <2>. QED  BY <2>1, <2>2
<1>2. IsFiniteSet(T) /\ Cardinality(T) = Cardinality(Holder) - 1
  BY HolderAssumption, FS_RemoveElement
<1>3. \A i \in S : \E g \in T : g \in HoldersOf(i)
  BY EntryHasHolder DEF Holding
<1>4. f \in [S -> T] /\ \A i \in S : f[i] \in HoldersOf(i)
  BY <1>3
<1>5. \A i, j \in S : f[i] = f[j] => i = j
  BY <1>4 DEF HoldersOf
<1>6. Cardinality(T) < Cardinality(S)
  BY <1>1, <1>2, HolderAssumption, IdModAssumption
<1>. HIDE DEF S, T, f
<1>. QED  BY <1>1, <1>2, <1>4, <1>5, <1>6, FS_PigeonHole

LEMMA NextCompact == Inv /\ CompactIds /\ [Next]_vars => CompactIds'
<1> SUFFICES ASSUME Inv, CompactIds, [Next]_vars, Cardinality(Holder) < IdMod
             PROVE  /\ 1 .. store'.index \subseteq DOMAIN store'.id2ptr
                    /\ 0 \notin DOMAIN store'.id2ptr
  BY DEF CompactIds
<1> USE IdModAssumption DEF Id
<1>1. /\ 1 .. store.index \subseteq DOMAIN store.id2ptr
      /\ 0 \notin DOMAIN store.id2ptr
      /\ store.index \in Id
      /\ DOMAIN store.id2ptr \subseteq Id
  BY DEF CompactIds, Inv, TypeOK, IsPtrStore, IsGoMap
<1>2. ASSUME NEW h \in Holder, NEW p \in Ptr, Register(h, p)
      PROVE  /\ 1 .. store'.index \subseteq DOMAIN store'.id2ptr
             /\ 0 \notin DOMAIN store'.id2ptr
  <2>1. CASE p \in DOMAIN store.ptr2id
    BY <1>1, <1>2, <2>1 DEF Register, register
  <2>2. CASE p \notin DOMAIN store.ptr2id
    <3>1. PICK n : n = NextFree(store)
      OBVIOUS
    <3>2. PICK d \in 1 .. IdMod :
                 /\ n = Bump(store.index, d)
                 /\ n \notin DOMAIN store.id2ptr
                 /\ \A e \in 1 .. (d - 1) : Bump(store.index, e) \in DOMAIN store.id2ptr
      BY <1>1, <1>2, <2>2, <3>1, NextFreeIsFree DEF Register, FreeAfter
    <3>3. PICK m \in 1 .. (IdMod - 1) : m \notin DOMAIN store.id2ptr
      <4>1. h \notin Holding
        BY <1>2 DEF Register, Holding
      <4>2. Cardinality(Holder) <= IdMod - 1 /\ 1 \in 0 .. 1
        BY HolderAssumption
      <4>. QED  BY <4>1, <4>2, NotAllTaken
    <3>4. m > store.index /\ m - store.index \in 1 .. IdMod
      BY <1>1, <3>3
    <3>5. Bump(store.index, m - store.index) = m
      BY <1>1, <3>4 DEF Bump
    <3>6. d <= m - store.index
      BY <1>1, <3>2, <3>3, <3>4, <3>5
    <3>7. /\ n = store.index + d
          /\ \A e \in 1 .. (d - 1) : store.index + e \in DOMAIN store.id2ptr
      BY <1>1, <3>2, <3>3, <3>4, <3>6 DEF Bump
    <3>8. 1 .. (n - 1) \subseteq DOMAIN store.id2ptr
      <4> SUFFICES ASSUME NEW i \in 1 .. (n - 1), i > store.index
                   PROVE  i \in DOMAIN store.id2ptr
        BY <1>1, <3>7
      <4>1. i - store.index \in 1 .. (d - 1)
        BY <1>1, <3>7
      <4>2. store.index + (i - store.index) = i
        BY <1>1
      <4>. QED  BY <3>7, <4>1, <4>2
    <3>9. store'.index = n /\ DOMAIN store'.id2ptr = DOMAIN store.id2ptr \cup {n}
      BY <1>2, <2>2, <3>1 DEF Register, register
    <3>. QED  BY <1>1, <3>7, <3>8, <3>9
  <2>. QED  BY <2>1, <2>2
<1>3. ASSUME NEW h \in Holder, Remove(h)
      PROVE  /\ 1 .. store'.index \subseteq DOMAIN store'.id2ptr
             /\ 0 \notin DOMAIN store'.id2ptr
  <2>1. PICK n : n = held[h].id
    OBVIOUS
  <2>2. n \in DOMAIN store.id2ptr /\ store' = remove(store, n)
    BY <1>3, <2>1 DEF Remove, Inv, HandleResolves, Holding, lookup
  <2>3. CASE store.id2ptr[n].count - 1 > 0
    BY <1>1, <2>2, <2>3 DEF remove
  <2>4. CASE ~ (store.id2ptr[n].count - 1 > 0)
    <3>1. /\ store'.index = IF n <= store.index THEN Prev(n) ELSE store.index
          /\ DOMAIN store'.id2ptr = DOMAIN store.id2ptr \ {n}
      BY <2>2, <2>4 DEF remove, RemoveLast
    <3>2. n # 0 /\ n \in Id
      BY <1>1, <2>2
    <3>. QED  BY <1>1, <3>1, <3>2 DEF Prev
  <2>. QED  BY <2>3, <2>4
<1>4. CASE UNCHANGED vars
  BY <1>1, <1>4 DEF vars
<1>. QED  BY <1>2, <1>3, <1>4 DEF Next

\* With fewer holders than ids, the ids up to s.index are in use, register hands
\* out the smallest free one, s.index never wraps and id 0 is never issued.
THEOREM IdsCompact == Spec => []CompactIds
<1>1. Init => CompactIds
  BY DEF Init, CompactIds, newPtrStore, EmptyMap
<1>. QED  BY <1>1, InvHolds, NextCompact, PTL DEF Spec

\* Whatever the number of holders up to IdMod, an id is free whenever one of
\* them is without: the loop of register ends.
THEOREM RegisterAlwaysEnds == Spec => []RegisterEnds
<1>1. Inv => RegisterEnds
  <2> SUFFICES ASSUME Inv, NEW h \in Holder, h \notin Holding
               PROVE  \E m \in 0 .. (IdMod - 1) : m \notin DOMAIN store.id2ptr
    BY DEF RegisterEnds, HasFree, Holding, Id
  <2>1. Cardinality(Holder) <= IdMod - 0 /\ 0 \in 0 .. 1
    BY HolderAssumption, IdModAssumption
  <2>. QED  BY <2>1, NotAllTaken
<1>. QED  BY <1>1, InvHolds, PTL

-----------------------------------------------------------------------------
\* Where register(p) finds or makes an id, that id fits p: the maps are inverse
\* to each other and every id that is carried resolves to its pointer.
LEMMA RegisteredIdFits ==
  ASSUME Inv, NEW h \in Holder, NEW p \in Ptr, Register(h, p)
  PROVE  RegisteredId(store, p) \in Id /\ Registry!Fits(RegisteredId(store, p), p)
<1> DEFINE n == RegisteredId(store, p)
<1>1. CASE p \in DOMAIN store.ptr2id
  <2>1. n = store.ptr2id[p] /\ n \in DOMAIN store.id2ptr /\ store.id2ptr[n].ptr = p
    BY <1>1 DEF RegisteredId, Inv, MapsInverse
  <2>2. ASSUME NEW g \in Holder, held[g] # NoHandle
        PROVE  held[g].id = n <=> held[g].ptr = p
    <3>1. /\ held[g].id \in DOMAIN store.id2ptr
          /\ store.id2ptr[held[g].id].ptr = held[g].ptr
      BY <2>2 DEF Inv, HandleResolves, Holding, lookup
    <3>2. store.ptr2id[store.id2ptr[held[g].id].ptr] = held[g].id
      BY <3>1 DEF Inv, MapsInverse
    <3>. QED  BY <2>1, <3>1, <3>2
  <2>3. n \in Id
    BY <2>1 DEF Inv, TypeOK, IsPtrStore, IsGoMap
  <2>. QED  BY <2>2, <2>3 DEF Registry!Fits
<1>2. CASE p \notin DOMAIN store.ptr2id
  <2>1. n = NextFree(store) /\ HasFree(store)
    BY <1>2 DEF RegisteredId, Register
  <2>2. n \in Id /\ FreeAfter(store, n)
    BY <2>1, NextFreeIsFree DEF Inv, TypeOK, IsPtrStore
  <2>3. n \notin DOMAIN store.id2ptr
    BY <2>2 DEF FreeAfter
  <2>4. ASSUME NEW g \in Holder, held[g] # NoHandle
        PROVE  held[g].id # n /\ held[g].ptr # p
    <3>1. /\ held[g].id \in DOMAIN store.id2ptr
          /\ store.id2ptr[held[g].id].ptr = held[g].ptr
      BY <2>4 DEF Inv, HandleResolves, Holding, lookup
    <3>2. store.id2ptr[held[g].id].ptr \in DOMAIN store.ptr2id
      BY <3>1 DEF Inv, MapsInverse
    <3>. QED  BY <1>2, <2>3, <3>1, <3>2
  <2>. QED  BY <2>2, <2>4 DEF Registry!Fits
<1>. QED  BY <1>1, <1>2

\* The ptrStore implements the registry of names that IdRegistry describes, for
\* any number of holders, pointers and ids.
THEOREM StoreImplementsRegistry == Spec => ImplementsRegistry
<1>1. Init => Registry!Init
  BY DEF Init, Registry!Init
<1>2. Inv /\ [Next]_vars => [Registry!Next]_held
  <2> SUFFICES ASSUME Inv, [Next]_vars PROVE [Registry!Next]_held
    OBVIOUS
  <2>1. ASSUME NEW h \in Holder, NEW p \in Ptr, Register(h, p)
        PROVE  Registry!Next
    <3>1. /\ RegisteredId(store, p) \in Id
          /\ Registry!Fits(RegisteredId(store, p), p)
      BY <2>1, RegisteredIdFits
    <3>2. Registry!Issue(h, p)
      BY <2>1, <3>1 DEF Register, Registry!Issue
    <3>. QED  BY <3>2 DEF Registry!Next
  <2>2. ASSUME NEW h \in Holder, Remove(h)
        PROVE  Registry!Next
    BY <2>2 DEF Remove, Registry!Next, Registry!Release
  <2>3. CASE UNCHANGED vars
    BY <2>3 DEF vars
  <2>. QED  BY <2>1, <2>2, <2>3 DEF Next
<1>. QED  BY <1>1, <1>2, InvHolds, PTL DEF Spec, ImplementsRegistry, Registry!Spec

=============================================================================
