-------------------------- MODULE LifecycleProofs --------------------------
(***************************************************************************)
(* Proofs about Lifecycle for every number of contexts, addresses, objects *)
(* and ids.                                                                *)
(*                                                                         *)
(* ValuesReleased needs a host that keeps a context reachable while it is  *)
(* used (KeepsAlive): a call that outlived its context would register into *)
(* a store that delPtrStore has forgotten.  What is used of it is that a   *)
(* call is never without a reference to its context (Referenced).          *)
(*                                                                         *)
(* ProxyResolves goes by addresses: an object of one context is harmless   *)
(* to another one because no two contexts that still have something of     *)
(* their own (Holds) have the same address (Apart), because an object is   *)
(* never left behind by its context (AtHome), and because a store never    *)
(* finds two objects by one id, as no two have the same pointer            *)
(* (PtrsApart).                                                            *)
(***************************************************************************)
EXTENDS Lifecycle, PtrStoreFacts, TLAPS

\* The JSContext of j, or an object of its runtime, is still allocated.
Holds(j) == phase[j] \notin {"none", "gone"}

\* Only a context that exists is used.
Started ==
  /\ \A j \in refd \cup calls \cup handed : phase[j] # "none"
  /\ \A j \in Jc : phase[j] # "none" => addr[j] \in Addr

\* The finalizer runs when the last reference has gone.
RefdLive == \A j \in refd : phase[j] = "live"

Base == TypeOK /\ Started /\ RefdLive

\* A context in use is referenced: what KeepsAlive asks of the host.
Referenced == calls \subseteq refd

Apart == \A j, k \in Jc : Holds(j) /\ Holds(k) /\ addr[j] = addr[k] => j = k

AtHome == \A o \in Carrying : Holds(obj[o].jc) /\ obj[o].addr = addr[obj[o].jc]

PtrsApart == \A o, q \in Carrying : obj[o].ptr = obj[q].ptr => o = q

Inv == Base /\ Referenced /\ Apart /\ AtHome /\ PtrsApart /\ ProxyResolves

-----------------------------------------------------------------------------
\* An object that carries something carries the context, address, id and
\* pointer of a registration.
LEMMA CarriedParts ==
  ASSUME TypeOK, NEW o \in Carrying
  PROVE  /\ o \in Obj /\ obj[o] \in Carried /\ obj[o].jc \in Jc
         /\ obj[o].addr \in Addr /\ obj[o].id \in Id /\ obj[o].ptr \in Ptr
<1>1. o \in Obj /\ obj[o] \in Carried
  BY DEF TypeOK, Carrying
<1>. QED  BY <1>1 DEF Carried

\* Whatever getPtrStore returns is a store.
LEMMA GetPtrStoreType ==
  ASSUME TypeOK, NEW a
  PROVE  IsPtrStore(getPtrStore(a))
BY EmptyStore DEF TypeOK, getPtrStore

\* PutStore changes the store of one address.
LEMMA PutStoreParts ==
  ASSUME TypeOK, NEW a \in Addr, NEW s, IsPtrStore(s), PutStore(a, s)
  PROVE  /\ DOMAIN stores' = DOMAIN stores \cup {a}
         /\ stores'[a] = s
         /\ \A b \in DOMAIN stores : b # a => stores'[b] = stores[b]
         /\ DOMAIN stores' \subseteq Addr
         /\ \A b \in DOMAIN stores' : IsPtrStore(stores'[b])
<1>1. /\ DOMAIN stores' = DOMAIN stores \cup {a}
      /\ stores'[a] = s
      /\ \A b \in DOMAIN stores : b # a => stores'[b] = stores[b]
  BY DEF PutStore
<1>2. \A b \in DOMAIN stores' : IsPtrStore(stores'[b])
  BY <1>1 DEF TypeOK
<1>. QED  BY <1>1, <1>2 DEF TypeOK

-----------------------------------------------------------------------------
\* What MakeObj does to the object, which carries a registration ...
LEMMA MakeObjParts ==
  ASSUME Base, NEW j \in Jc, NEW o \in Obj, NEW p \in Ptr, MakeObj(j, o, p)
  PROVE  /\ obj'[o] \in Carried
         /\ obj'[o].jc = j /\ obj'[o].addr = addr[j] /\ obj'[o].ptr = p
         /\ obj'[o].id = RegisteredId(getPtrStore(addr[j]), p)
         /\ obj' \in [Obj -> Carried \cup {None}]
         /\ \A q \in Obj : q # o => obj'[q] = obj[q]
<1>1. IsPtrStore(getPtrStore(addr[j])) /\ addr[j] \in Addr
  BY GetPtrStoreType DEF Base, Started, MakeObj
<1>2. p \notin DOMAIN getPtrStore(addr[j]).ptr2id
  BY DEF MakeObj, getPtrStore, newPtrStore, EmptyMap
<1>3. PICK n : n = RegisteredId(getPtrStore(addr[j]), p)
  OBVIOUS
<1>4. n \in Id
  BY <1>1, <1>2, <1>3, RegisterFresh DEF MakeObj
<1>5. PICK c : c = [jc |-> j, addr |-> addr[j], ptr |-> p, id |-> n]
  OBVIOUS
<1>6. c \in Carried /\ c.jc = j /\ c.addr = addr[j] /\ c.ptr = p /\ c.id = n
  BY <1>1, <1>4, <1>5 DEF Carried
<1>7. obj' = [obj EXCEPT ![o] = c]
  BY <1>3, <1>5 DEF MakeObj
<1>8. /\ obj' \in [Obj -> Carried \cup {None}] /\ obj'[o] = c
      /\ \A q \in Obj : q # o => obj'[q] = obj[q]
  BY <1>6, <1>7 DEF Base, TypeOK
<1>. QED  BY <1>3, <1>6, <1>8

\* ... and to the stores: the pointer is found by the id, and nothing is lost.
LEMMA MakeObjStores ==
  ASSUME Base, NEW j \in Jc, NEW o \in Obj, NEW p \in Ptr, MakeObj(j, o, p)
  PROVE  /\ DOMAIN stores' = DOMAIN stores \cup {addr[j]}
         /\ \A b \in DOMAIN stores : b # addr[j] => stores'[b] = stores[b]
         /\ DOMAIN stores' \subseteq Addr
         /\ \A b \in DOMAIN stores' : IsPtrStore(stores'[b])
         /\ lookup(stores'[addr[j]], RegisteredId(getPtrStore(addr[j]), p), p)
         /\ addr[j] \in DOMAIN stores =>
              \A i, r : lookup(stores[addr[j]], i, r) => lookup(stores'[addr[j]], i, r)
<1>0. PICK s : s = getPtrStore(addr[j])
  OBVIOUS
<1>1. IsPtrStore(s) /\ addr[j] \in Addr
  BY <1>0, GetPtrStoreType DEF Base, Started, MakeObj
<1>2. p \notin DOMAIN s.ptr2id
  BY <1>0 DEF MakeObj, getPtrStore, newPtrStore, EmptyMap
<1>3. /\ IsPtrStore(register(s, p))
      /\ lookup(register(s, p), RegisteredId(s, p), p)
      /\ \A i, r : lookup(s, i, r) => lookup(register(s, p), i, r)
  BY <1>0, <1>1, <1>2, RegisterFresh DEF MakeObj
<1>4. PutStore(addr[j], register(s, p))
  BY <1>0 DEF MakeObj
<1>5. /\ DOMAIN stores' = DOMAIN stores \cup {addr[j]}
      /\ stores'[addr[j]] = register(s, p)
      /\ \A b \in DOMAIN stores : b # addr[j] => stores'[b] = stores[b]
      /\ DOMAIN stores' \subseteq Addr
      /\ \A b \in DOMAIN stores' : IsPtrStore(stores'[b])
  BY <1>1, <1>3, <1>4, PutStoreParts DEF Base
<1>6. addr[j] \in DOMAIN stores => s = stores[addr[j]]
  BY <1>0 DEF getPtrStore
<1>. QED  BY <1>0, <1>3, <1>5, <1>6

\* What FinalizeObject does.
LEMMA FinalizeObjectParts ==
  ASSUME TypeOK, NEW o \in Obj, FinalizeObject(o)
  PROVE  /\ o \in Carrying
         /\ obj' \in [Obj -> Carried \cup {None}]
         /\ obj'[o] = None /\ \A q \in Obj : q # o => obj'[q] = obj[q]
         /\ DOMAIN stores' = DOMAIN stores \cup {obj[o].addr}
         /\ \A b \in DOMAIN stores : b # obj[o].addr => stores'[b] = stores[b]
         /\ DOMAIN stores' \subseteq Addr
         /\ \A b \in DOMAIN stores' : IsPtrStore(stores'[b])
         /\ obj[o].addr \in DOMAIN stores =>
              \A i, q : i # obj[o].id /\ lookup(stores[obj[o].addr], i, q)
                          => lookup(stores'[obj[o].addr], i, q)
<1>0. PICK a, s, i : a = obj[o].addr /\ s = getPtrStore(a) /\ i = obj[o].id
  OBVIOUS
<1>1. o \in Carrying
  BY DEF FinalizeObject, Carrying
<1>2. a \in Addr
  BY <1>0, <1>1, CarriedParts
<1>3. IsPtrStore(s)
  BY <1>0, GetPtrStoreType
<1>4. /\ IsPtrStore(remove(s, i))
      /\ \A k, q : k # i /\ lookup(s, k, q) => lookup(remove(s, i), k, q)
  BY <1>3, RemoveKeeps
<1>5. PutStore(a, remove(s, i))
  BY <1>0 DEF FinalizeObject
<1>6. /\ DOMAIN stores' = DOMAIN stores \cup {a}
      /\ stores'[a] = remove(s, i)
      /\ \A b \in DOMAIN stores : b # a => stores'[b] = stores[b]
      /\ DOMAIN stores' \subseteq Addr
      /\ \A b \in DOMAIN stores' : IsPtrStore(stores'[b])
  BY <1>2, <1>4, <1>5, PutStoreParts
<1>7. obj' = [obj EXCEPT ![o] = None]
  BY DEF FinalizeObject
<1>8. /\ obj' \in [Obj -> Carried \cup {None}] /\ obj'[o] = None
      /\ \A q \in Obj : q # o => obj'[q] = obj[q]
  BY <1>7 DEF TypeOK
<1>9. a \in DOMAIN stores => s = stores[a]
  BY <1>0 DEF getPtrStore
<1>. QED  BY <1>0, <1>1, <1>4, <1>6, <1>8, <1>9

\* The steps of the takedown, and the phase after each.
Takedown(j) ==
  \/ DelPtrStore(j) \/ FreeContext(j) \/ FreeRuntime(j) \/ UnmapContext(j) \/ RuntimeFreed(j)

\* What a step of the takedown does.
LEMMA TakedownParts ==
  ASSUME Base, NEW j \in Jc, Takedown(j)
  PROVE  /\ phase' \in [Jc -> Phase]
         /\ Holds(j) /\ j \notin refd /\ phase'[j] \notin {"none", "live"}
         /\ \A k \in Jc : k # j => phase'[k] = phase[k]
         /\ phase'[j] = "gone" => ObjsOf(j) = {}
         /\ UNCHANGED <<addr, refd, calls, handed, obj>>
         /\ DOMAIN stores' \subseteq DOMAIN stores
         /\ \A a \in DOMAIN stores' : stores'[a] = stores[a]
         /\ \A a \in DOMAIN stores \ DOMAIN stores' : phase[j] = "live" /\ a = addr[j]
<1> USE DEF Base, TypeOK, Phase, Holds, RefdLive
<1>1. CASE DelPtrStore(j)
  BY <1>1 DEF DelPtrStore
<1>2. CASE FreeContext(j)
  BY <1>2 DEF FreeContext
<1>3. CASE FreeRuntime(j)
  BY <1>3 DEF FreeRuntime
<1>4. CASE UnmapContext(j)
  BY <1>4 DEF UnmapContext
<1>5. CASE RuntimeFreed(j)
  BY <1>5 DEF RuntimeFreed
<1>. QED  BY <1>1, <1>2, <1>3, <1>4, <1>5 DEF Takedown

\* The steps of the host and of its calls, which change neither objects nor stores.
HostStep(j) ==
  \/ BeginCall(j) \/ HandFunc(j) \/ CallHandedFunc(j) \/ EndCall(j) \/ Drop(j)

-----------------------------------------------------------------------------
\* Types, without any assumption on the host or on malloc.
LEMMA InitBase == Init => Base
BY LifecycleAssumption
   DEF Init, Base, TypeOK, Started, RefdLive, Phase, EmptyMap

LEMMA NextBase == Base /\ [Next]_vars => Base'
<1> SUFFICES ASSUME Base, [Next]_vars PROVE Base'
  OBVIOUS
<1>1. ASSUME NEW j \in Jc, NEW a \in Addr, NewContext(j, a) PROVE Base'
  BY <1>1 DEF Base, TypeOK, Started, RefdLive, NewContext, Phase
<1>2. ASSUME NEW j \in Jc, HostStep(j) PROVE Base'
  BY <1>2 DEF Base, TypeOK, Started, RefdLive, HostStep, BeginCall, HandFunc,
     CallHandedFunc, EndCall, Drop
<1>3. ASSUME NEW j \in Jc, NEW o \in Obj, NEW p \in Ptr, MakeObj(j, o, p) PROVE Base'
  <2>1. UNCHANGED <<phase, addr, refd, calls, handed>>
    BY <1>3 DEF MakeObj
  <2>2. /\ DOMAIN stores' \subseteq Addr
        /\ \A b \in DOMAIN stores' : IsPtrStore(stores'[b])
        /\ obj' \in [Obj -> Carried \cup {None}]
    BY <1>3, MakeObjParts, MakeObjStores
  <2>. QED  BY <2>1, <2>2 DEF Base, TypeOK, Started, RefdLive
<1>4. ASSUME NEW j \in Jc, Takedown(j) PROVE Base'
  <2>0. \A a \in DOMAIN stores' : IsPtrStore(stores'[a])
    BY <1>4, TakedownParts DEF Base, TypeOK
  <2>1. TypeOK'
    BY <1>4, <2>0, TakedownParts DEF Base, TypeOK
  <2>2. UNCHANGED <<addr, refd, calls, handed>> /\ phase'[j] # "none" /\ phase[j] # "none"
        /\ j \notin refd /\ \A k \in Jc : k # j => phase'[k] = phase[k]
    BY <1>4, TakedownParts DEF Holds
  <2>3. Started' /\ RefdLive'
    BY <2>2 DEF Base, TypeOK, Started, RefdLive
  <2>. QED  BY <2>1, <2>3 DEF Base
<1>5. ASSUME NEW o \in Obj, FinalizeObject(o) PROVE Base'
  <2>1. UNCHANGED <<phase, addr, refd, calls, handed>>
    BY <1>5 DEF FinalizeObject
  <2>2. /\ DOMAIN stores' \subseteq Addr
        /\ \A b \in DOMAIN stores' : IsPtrStore(stores'[b])
        /\ obj' \in [Obj -> Carried \cup {None}]
    BY <1>5, FinalizeObjectParts DEF Base
  <2>. QED  BY <2>1, <2>2 DEF Base, TypeOK, Started, RefdLive
<1>6. ASSUME NEW o \in Obj, FinalizeFunc(o) PROVE Base'
  BY <1>6 DEF Base, TypeOK, Started, RefdLive, FinalizeFunc
<1>7. CASE UNCHANGED vars
  BY <1>7 DEF Base, TypeOK, Started, RefdLive, vars
<1>. QED
  BY <1>1, <1>2, <1>3, <1>4, <1>5, <1>6, <1>7 DEF Next, HostStep, Takedown

\* The state has its shape, whatever the host does and malloc hands out: the
\* stores that goFreeId finds or makes by an address are ptrStores.
THEOREM TypeCorrect == Spec => []TypeOK
<1>1. Base => TypeOK
  BY DEF Base
<1>. QED  BY InitBase, NextBase, <1>1, PTL DEF Spec

-----------------------------------------------------------------------------
LEMMA NextReferenced ==
  ASSUME KeepsAlive, Base, Referenced, [Next]_vars
  PROVE  Referenced'
<1>1. ASSUME NEW j \in Jc, NEW a \in Addr, NewContext(j, a) PROVE Referenced'
  BY <1>1 DEF Referenced, NewContext
<1>2. ASSUME NEW j \in Jc, HostStep(j) PROVE Referenced'
  BY <1>2 DEF Referenced, HostStep, BeginCall, HandFunc, CallHandedFunc, EndCall, Drop
<1>3. ASSUME NEW j \in Jc, NEW o \in Obj, NEW p \in Ptr, MakeObj(j, o, p) PROVE Referenced'
  BY <1>3 DEF Referenced, MakeObj
<1>4. ASSUME NEW j \in Jc, Takedown(j) PROVE Referenced'
  BY <1>4, TakedownParts DEF Referenced
<1>5. ASSUME NEW o \in Obj, FinalizeObject(o) \/ FinalizeFunc(o) PROVE Referenced'
  BY <1>5 DEF Referenced, FinalizeObject, FinalizeFunc
<1>6. CASE UNCHANGED vars
  BY <1>6 DEF Referenced, vars
<1>. QED  BY <1>1, <1>2, <1>3, <1>4, <1>5, <1>6 DEF Next, HostStep, Takedown

\* What the steps do to the stores: only MakeObj adds to one, which is the store
\* of the context in whose engine the call runs.
LEMMA NextReleased ==
  ASSUME Base, Referenced, ValuesReleased, [Next]_vars
  PROVE  ValuesReleased'
<1>1. ASSUME NEW j \in Jc, NEW a \in Addr, NewContext(j, a) PROVE ValuesReleased'
  BY <1>1 DEF ValuesReleased, NewContext, Base, TypeOK
<1>2. ASSUME NEW j \in Jc, HostStep(j) PROVE ValuesReleased'
  BY <1>2 DEF ValuesReleased, HostStep, BeginCall, HandFunc, CallHandedFunc, EndCall, Drop
<1>3. ASSUME NEW j \in Jc, NEW o \in Obj, NEW p \in Ptr, MakeObj(j, o, p) PROVE ValuesReleased'
  <2>1. phase[j] = "live" /\ UNCHANGED <<phase, addr>>
    BY <1>3 DEF MakeObj, Base, Referenced, RefdLive
  <2>2. /\ DOMAIN stores' = DOMAIN stores \cup {addr[j]}
        /\ \A b \in DOMAIN stores : b # addr[j] => stores'[b] = stores[b]
    BY <1>3, MakeObjStores
  <2>. QED  BY <2>1, <2>2 DEF ValuesReleased
<1>4. ASSUME NEW j \in Jc, Takedown(j) PROVE ValuesReleased'
  <2>1. /\ \A k \in Jc : k # j => phase'[k] = phase[k]
        /\ UNCHANGED addr
        /\ DOMAIN stores' \subseteq DOMAIN stores
        /\ \A a \in DOMAIN stores' : stores'[a] = stores[a]
    BY <1>4, TakedownParts
  <2>2. phase[j] = "live" => addr[j] \notin DOMAIN stores'
    BY <1>4 DEF Takedown, DelPtrStore, FreeContext, FreeRuntime, UnmapContext, RuntimeFreed
  <2>. QED  BY <2>1, <2>2 DEF ValuesReleased
<1>5. ASSUME NEW o \in Obj, FinalizeObject(o) PROVE ValuesReleased'
  <2>1. PICK a, i : a = obj[o].addr /\ i = obj[o].id
    OBVIOUS
  <2>2. PICK s : s = remove(getPtrStore(a), i)
    OBVIOUS
  <2>3. /\ DOMAIN stores' = DOMAIN stores \cup {a} /\ stores'[a] = s
        /\ \A b \in DOMAIN stores : b # a => stores'[b] = stores[b]
        /\ UNCHANGED <<phase, addr>>
    BY <1>5, <2>1, <2>2 DEF FinalizeObject, PutStore
  <2>4. DOMAIN s.id2ptr \subseteq DOMAIN getPtrStore(a).id2ptr
    BY <2>2, RemoveShrinks
  <2>5. a \in DOMAIN stores => getPtrStore(a) = stores[a]
    BY DEF getPtrStore
  <2>6. a \notin DOMAIN stores => DOMAIN getPtrStore(a).id2ptr = {}
    BY DEF getPtrStore, newPtrStore, EmptyMap
  <2>. QED  BY <2>3, <2>4, <2>5, <2>6 DEF ValuesReleased
<1>6. ASSUME NEW o \in Obj, FinalizeFunc(o) PROVE ValuesReleased'
  BY <1>6 DEF ValuesReleased, FinalizeFunc
<1>7. CASE UNCHANGED vars
  BY <1>7 DEF ValuesReleased, vars
<1>. QED  BY <1>1, <1>2, <1>3, <1>4, <1>5, <1>6, <1>7 DEF Next, HostStep, Takedown

\* Whatever finalizers run late and whatever addresses malloc hands out again,
\* no Go value stays registered for a context that freeJsContext has torn down,
\* if the host keeps contexts in use reachable.
THEOREM TornDownReleased ==
  ASSUME KeepsAlive
  PROVE  Spec => []ValuesReleased
<1>1. Init => Base /\ Referenced /\ ValuesReleased
  BY InitBase DEF Init, Referenced, ValuesReleased, EmptyMap
<1>2. Base /\ Referenced /\ ValuesReleased /\ [Next]_vars => (Base /\ Referenced /\ ValuesReleased)'
  BY NextBase, NextReferenced, NextReleased
<1>. QED  BY <1>1, <1>2, PTL DEF Spec

-----------------------------------------------------------------------------
\* Objects and stores stay as they are, and so do the contexts that hold something.
LEMMA SameProxies ==
  ASSUME Base, Apart, AtHome, PtrsApart, ProxyResolves,
         UNCHANGED <<phase, addr, stores, obj>>
  PROVE  (Apart /\ AtHome /\ PtrsApart /\ ProxyResolves)'
<1>1. Carrying' = Carrying
  BY DEF Carrying
<1>. QED
  BY <1>1 DEF Apart, AtHome, PtrsApart, ProxyResolves, Holds

LEMMA NewContextProxies ==
  ASSUME ~ EarlyReuse, Inv, NEW j \in Jc, NEW a \in Addr, NewContext(j, a)
  PROVE  (Apart /\ AtHome /\ PtrsApart /\ ProxyResolves)'
<1>1. /\ phase[j] = "none" /\ phase'[j] = "live" /\ addr'[j] = a
      /\ \A k \in Jc : k # j => phase'[k] = phase[k] /\ addr'[k] = addr[k]
      /\ UNCHANGED <<stores, obj>>
  BY DEF NewContext, Inv, Base, TypeOK
<1>2. \A k \in Jc : Holds(k) => addr[k] # a
  BY DEF NewContext, Taken, Holds, Inv, Base, TypeOK, Phase
<1>3. Carrying' = Carrying
  BY <1>1 DEF Carrying
<1>4. \A o \in Carrying : obj[o].jc \in Jc /\ obj[o].jc # j
  BY <1>1, CarriedParts DEF Inv, Base, AtHome, Holds
<1>5. Apart'
  BY <1>1, <1>2 DEF Inv, Apart, Holds
<1>6. (AtHome /\ PtrsApart)'
  BY <1>1, <1>3, <1>4 DEF Inv, AtHome, PtrsApart, Holds
<1>7. ProxyResolves'
  BY <1>1, <1>3, <1>4 DEF Inv, ProxyResolves
<1>. QED  BY <1>5, <1>6, <1>7

LEMMA MakeObjProxies ==
  ASSUME Inv, NEW j \in Jc, NEW o \in Obj, NEW p \in Ptr, MakeObj(j, o, p)
  PROVE  (Apart /\ AtHome /\ PtrsApart /\ ProxyResolves)'
<1>0. phase[j] = "live"
  BY DEF MakeObj, Inv, Base, Referenced, RefdLive
<1>1. UNCHANGED <<phase, addr>> /\ obj[o] = None
  BY DEF MakeObj
<1>b. Base
  BY DEF Inv
<1>2. /\ obj'[o] \in Carried
      /\ obj'[o].jc = j /\ obj'[o].addr = addr[j] /\ obj'[o].ptr = p
      /\ \A q \in Obj : q # o => obj'[q] = obj[q]
  BY <1>b, MakeObjParts
<1>3. Carrying' \subseteq Carrying \cup {o} /\ o \notin Carrying /\ Carrying \subseteq Obj
  BY <1>1, <1>2 DEF Carrying
<1>4. \A q \in Carrying : obj'[q] = obj[q] /\ obj[q].ptr # p
  BY <1>2, <1>3 DEF MakeObj
<1>5. Apart'
  BY <1>1 DEF Inv, Apart, Holds
<1>6. AtHome'
  BY <1>0, <1>1, <1>2, <1>3, <1>4 DEF Inv, AtHome, Holds
<1>7. PtrsApart'
  BY <1>2, <1>3, <1>4 DEF Inv, PtrsApart
<1>8. ProxyResolves'
  <2> SUFFICES ASSUME NEW q \in Carrying', phase[obj'[q].jc] = "live"
               PROVE  /\ obj'[q].addr \in DOMAIN stores'
                      /\ lookup(stores'[obj'[q].addr], obj'[q].id, obj'[q].ptr)
    BY <1>1 DEF ProxyResolves
  <2>0. /\ DOMAIN stores' = DOMAIN stores \cup {addr[j]}
        /\ \A b \in DOMAIN stores : b # addr[j] => stores'[b] = stores[b]
        /\ lookup(stores'[addr[j]], obj'[o].id, p)
        /\ addr[j] \in DOMAIN stores =>
             \A i, r : lookup(stores[addr[j]], i, r) => lookup(stores'[addr[j]], i, r)
    <3>1. obj'[o].id = RegisteredId(getPtrStore(addr[j]), p)
      BY <1>b, MakeObjParts
    <3>. QED  BY <1>b, <3>1, MakeObjStores
  <2>1. CASE q = o
    BY <1>2, <2>0, <2>1
  <2>2. CASE q # o
    <3>1. q \in Carrying /\ obj'[q] = obj[q]
      BY <1>3, <1>4, <2>2
    <3>2. obj[q].addr \in DOMAIN stores /\ lookup(stores[obj[q].addr], obj[q].id, obj[q].ptr)
      BY <3>1 DEF Inv, ProxyResolves
    <3>. QED  BY <2>0, <3>1, <3>2
  <2>. QED  BY <2>1, <2>2
<1>. QED  BY <1>5, <1>6, <1>7, <1>8

LEMMA FinalizeProxies ==
  ASSUME Inv, NEW o \in Obj, FinalizeObject(o)
  PROVE  (Apart /\ AtHome /\ PtrsApart /\ ProxyResolves)'
<1>1. UNCHANGED <<phase, addr>>
  BY DEF FinalizeObject
<1>2. /\ o \in Carrying
      /\ obj'[o] = None /\ \A q \in Obj : q # o => obj'[q] = obj[q]
  BY FinalizeObjectParts DEF Inv, Base
<1>3. Carrying' \subseteq Carrying \ {o} /\ \A q \in Carrying' : obj'[q] = obj[q]
  BY <1>2 DEF Carrying
<1>4. (Apart /\ AtHome /\ PtrsApart)'
  BY <1>1, <1>3 DEF Inv, Apart, AtHome, PtrsApart, Holds
<1>5. ProxyResolves'
  <2> SUFFICES ASSUME NEW q \in Carrying', phase[obj'[q].jc] = "live"
               PROVE  /\ obj'[q].addr \in DOMAIN stores'
                      /\ lookup(stores'[obj'[q].addr], obj'[q].id, obj'[q].ptr)
    BY <1>1 DEF ProxyResolves
  <2>0. /\ DOMAIN stores' = DOMAIN stores \cup {obj[o].addr}
        /\ \A b \in DOMAIN stores : b # obj[o].addr => stores'[b] = stores[b]
        /\ obj[o].addr \in DOMAIN stores =>
             \A i, r : i # obj[o].id /\ lookup(stores[obj[o].addr], i, r)
                         => lookup(stores'[obj[o].addr], i, r)
    BY FinalizeObjectParts DEF Inv, Base
  <2>1. q \in Carrying /\ q # o /\ obj'[q] = obj[q]
    BY <1>3
  <2>2. obj[q].addr \in DOMAIN stores /\ lookup(stores[obj[q].addr], obj[q].id, obj[q].ptr)
    BY <2>1 DEF Inv, ProxyResolves
  <2>3. CASE obj[q].addr # obj[o].addr
    BY <2>0, <2>1, <2>2, <2>3
  <2>4. CASE obj[q].addr = obj[o].addr
    \* The two objects belong to one context: the ids of live ones differ.
    <3>1. obj[q].jc = obj[o].jc
      BY <1>2, <2>1, <2>4, CarriedParts DEF Inv, Base, AtHome, Apart
    <3>2. lookup(stores[obj[o].addr], obj[o].id, obj[o].ptr)
      BY <1>2, <2>1, <3>1 DEF Inv, ProxyResolves
    <3>3. obj[q].ptr # obj[o].ptr
      BY <1>2, <2>1 DEF Inv, PtrsApart
    <3>4. obj[q].id # obj[o].id
      BY <2>2, <2>4, <3>2, <3>3 DEF lookup
    <3>. QED  BY <2>0, <2>1, <2>2, <2>4, <3>4
  <2>. QED  BY <2>3, <2>4
<1>. QED  BY <1>4, <1>5

LEMMA FinalizeFuncProxies ==
  ASSUME Inv, NEW o \in Obj, FinalizeFunc(o)
  PROVE  (Apart /\ AtHome /\ PtrsApart /\ ProxyResolves)'
<1>1. UNCHANGED <<phase, addr, stores>>
  BY DEF FinalizeFunc
<1>2. Carrying' \subseteq Carrying /\ \A q \in Carrying' : obj'[q] = obj[q]
  BY DEF FinalizeFunc, Carrying, Inv, Base, TypeOK
<1>. QED
  BY <1>1, <1>2 DEF Inv, Apart, AtHome, PtrsApart, ProxyResolves, Holds

LEMMA TakedownProxies ==
  ASSUME Inv, NEW j \in Jc, Takedown(j)
  PROVE  (Apart /\ AtHome /\ PtrsApart /\ ProxyResolves)'
<1>1. /\ Holds(j) /\ phase'[j] \notin {"none", "live"}
      /\ \A k \in Jc : k # j => phase'[k] = phase[k]
      /\ phase'[j] = "gone" => ObjsOf(j) = {}
      /\ UNCHANGED <<addr, obj>>
  BY TakedownParts DEF Inv
<1>2. \A k \in Jc : Holds(k)' => Holds(k)
  BY <1>1 DEF Holds
<1>3. Carrying' = Carrying
  BY <1>1 DEF Carrying
<1>4. Apart'
  BY <1>1, <1>2 DEF Inv, Apart
<1>5. ASSUME NEW o \in Carrying PROVE Holds(obj[o].jc)'
  <2>1. CASE obj[o].jc = j
    BY <1>1, <2>1 DEF Holds, ObjsOf
  <2>2. CASE obj[o].jc # j
    BY <1>1, <2>2, CarriedParts DEF Inv, Base, AtHome, Holds
  <2>. QED  BY <2>1, <2>2
<1>6. (AtHome /\ PtrsApart)'
  BY <1>1, <1>3, <1>5 DEF Inv, AtHome, PtrsApart
<1>7. ProxyResolves'
  <2> SUFFICES ASSUME NEW o \in Carrying, phase'[obj[o].jc] = "live"
               PROVE  /\ obj[o].addr \in DOMAIN stores'
                      /\ lookup(stores'[obj[o].addr], obj[o].id, obj[o].ptr)
    BY <1>1, <1>3 DEF ProxyResolves
  <2>1. obj[o].jc \in Jc /\ obj[o].jc # j /\ phase[obj[o].jc] = "live"
    BY <1>1, CarriedParts DEF Inv, Base
  <2>2. obj[o].addr \in DOMAIN stores /\ lookup(stores[obj[o].addr], obj[o].id, obj[o].ptr)
    BY <2>1 DEF Inv, ProxyResolves
  \* The store that goes is not the one of o: o's context is another one.
  <2>3. obj[o].addr # addr[j]
    BY <1>1, <2>1 DEF Inv, AtHome, Apart
  <2>. QED  BY <2>2, <2>3, TakedownParts DEF Inv
<1>. QED  BY <1>4, <1>6, <1>7

LEMMA NextInv ==
  ASSUME KeepsAlive, ~ EarlyReuse, Inv, [Next]_vars
  PROVE  Inv'
<1>0. Base' /\ Referenced'
  BY NextBase, NextReferenced DEF Inv
<1>1. ASSUME NEW j \in Jc, NEW a \in Addr, NewContext(j, a) PROVE Inv'
  BY <1>0, <1>1, NewContextProxies DEF Inv
<1>2. ASSUME NEW j \in Jc, HostStep(j) PROVE Inv'
  <2>1. UNCHANGED <<phase, addr, stores, obj>>
    BY <1>2 DEF HostStep, BeginCall, HandFunc, CallHandedFunc, EndCall, Drop
  <2>. QED  BY <1>0, <2>1, SameProxies DEF Inv
<1>3. ASSUME NEW j \in Jc, NEW o \in Obj, NEW p \in Ptr, MakeObj(j, o, p) PROVE Inv'
  BY <1>0, <1>3, MakeObjProxies DEF Inv
<1>4. ASSUME NEW j \in Jc, Takedown(j) PROVE Inv'
  BY <1>0, <1>4, TakedownProxies DEF Inv
<1>5. ASSUME NEW o \in Obj, FinalizeObject(o) \/ FinalizeFunc(o) PROVE Inv'
  BY <1>0, <1>5, FinalizeProxies, FinalizeFuncProxies DEF Inv
<1>6. CASE UNCHANGED vars
  BY <1>0, <1>6, SameProxies DEF Inv, vars
<1>. QED  BY <1>1, <1>2, <1>3, <1>4, <1>5, <1>6 DEF Next, HostStep, Takedown

\* Every Go value that a script of a live context can reach is found, however
\* many contexts are torn down meanwhile and whichever of them had the same
\* address before, if the host keeps contexts in use reachable and malloc does
\* not hand out the address of a JSContext before JS_FreeRuntime has returned.
THEOREM ProxiesResolve ==
  ASSUME KeepsAlive, ~ EarlyReuse
  PROVE  Spec => []ProxyResolves
<1>1. Init => Inv
  <2> SUFFICES ASSUME Init PROVE Inv
    OBVIOUS
  <2>1. Base /\ Referenced /\ Carrying = {}
    BY InitBase DEF Init, Referenced, Carrying
  <2>2. Apart
    BY DEF Init, Apart, Holds
  <2>. QED  BY <2>1, <2>2 DEF Inv, AtHome, PtrsApart, ProxyResolves
<1>2. Inv /\ [Next]_vars => Inv'
  BY NextInv
<1>3. Inv => ProxyResolves
  BY DEF Inv
<1>. QED  BY <1>1, <1>2, <1>3, PTL DEF Spec

=============================================================================
