------------------------------ MODULE PtrStore ------------------------------
(***************************************************************************)
(* One ptrStore and the JavaScript values that hold its ids.  A holder is  *)
(* a GoObjHandler object (its goOpaque.idx), which gives the id back       *)
(* through goFreeId and remove when the engine finalizes it, or a function *)
(* made by wrapGoFunc (its func_data), which never does.  Each operation   *)
(* is one step because the code runs it under s.lock.                      *)
(*                                                                         *)
(* Holders may share a pointer: register counts references.  Its callers   *)
(* in this repository pass the address of a fresh variable (&v, &fnVar);   *)
(* Lifecycle is restricted to that use, this module is not.                *)
(***************************************************************************)
EXTENDS PtrStoreOps

CONSTANTS
  Holder,   \* the JavaScript values that may carry an id
  Func,     \* those that never give it back: functions of wrapGoFunc (and
            \* objects that makeGoObject registered and could not allocate)
  NoHandle  \* what a holder carries before register and after remove

ASSUME HolderAssumption ==
  /\ IsFiniteSet(Holder)
  /\ Cardinality(Holder) \in Nat
  /\ Cardinality(Holder) <= IdMod
  /\ Func \subseteq Holder

ASSUME NoHandleAssumption == NoHandle \notin [id : Id, ptr : Ptr]

VARIABLES
  store,  \* the ptrStore
  held    \* what each holder carries: the id, and the pointer it stands for

vars == <<store, held>>

Handle == [id : Id, ptr : Ptr]

Init ==
  /\ store = newPtrStore
  /\ held = [h \in Holder |-> NoHandle]

\* makeGoObject, wrapGoFunc: idx := ptr.register(&v), and idx goes to the holder.
Register(h, p) ==
  /\ held[h] = NoHandle
  /\ p \in DOMAIN store.ptr2id \/ HasFree(store)
  /\ store' = register(store, p)
  /\ held' = [held EXCEPT ![h] = [id |-> RegisteredId(store, p), ptr |-> p]]

\* A wrong finalizer: it forgets goFreeId.
RemoveForgotten(h) ==
  /\ h \notin Func
  /\ held[h] # NoHandle
  /\ held' = [held EXCEPT ![h] = NoHandle]
  /\ UNCHANGED store

\* goFreeId: ptr.remove(idx), called by the finalizer of a GoObjHandler object.
Remove(h) ==
  /\ h \notin Func
  /\ held[h] # NoHandle
  /\ store' = remove(store, held[h].id)
  /\ held' = [held EXCEPT ![h] = NoHandle]

Next ==
  \/ \E h \in Holder, p \in Ptr : Register(h, p)
  \/ \E h \in Holder : Remove(h)

Spec == Init /\ [][Next]_vars

-----------------------------------------------------------------------------
\* The holders that carry an id, and those that carry id i.
Holding == {h \in Holder : held[h] # NoHandle}
HoldersOf(i) == {h \in Holding : held[h].id = i}

\* Shape of the store and of what the holders carry.
TypeOK ==
  /\ IsPtrStore(store)
  /\ held \in [Holder -> Handle \cup {NoHandle}]

(***************************************************************************)
(* goFuncBridge and getTargetValue call lookup with an id that the script  *)
(* may have kept for any time.  They always find the pointer the id was    *)
(* issued for: no sequence of register and remove frees an id that is      *)
(* still carried or hands it to another pointer.                           *)
(***************************************************************************)
HandleResolves ==
  \A h \in Holding : lookup(store, held[h].id, held[h].ptr)

(***************************************************************************)
(* ref.count is exactly the number of holders of the id: an entry, and the *)
(* Go value it pins, stays as long as it is needed and no longer.          *)
(***************************************************************************)
CountExact ==
  \A i \in DOMAIN store.id2ptr :
    /\ store.id2ptr[i].count > 0
    /\ store.id2ptr[i].count = Cardinality(HoldersOf(i))

\* id2ptr and ptr2id are inverse to each other.
MapsInverse ==
  /\ \A i \in DOMAIN store.id2ptr :
       /\ store.id2ptr[i].ptr \in DOMAIN store.ptr2id
       /\ store.ptr2id[store.id2ptr[i].ptr] = i
  /\ \A p \in DOMAIN store.ptr2id :
       /\ store.ptr2id[p] \in DOMAIN store.id2ptr
       /\ store.id2ptr[store.ptr2id[p]].ptr = p

(***************************************************************************)
(* As long as fewer than IdMod values can be alive at a time, every id up  *)
(* to s.index is in use, so register hands out the smallest free id, the   *)
(* uint32 never wraps, and id 0, which getTargetIdx also returns for a     *)
(* value that is no GoObjHandler object, never names a Go value.           *)
(***************************************************************************)
CompactIds ==
  Cardinality(Holder) < IdMod =>
    /\ 1 .. store.index \subseteq DOMAIN store.id2ptr
    /\ 0 \notin DOMAIN store.id2ptr

(***************************************************************************)
(* register never spins: whenever a value is about to be wrapped some id   *)
(* is free, even with as many holders as there are uint32 values.  (The    *)
(* loop would otherwise run forever with s.lock held.)  It rests on every  *)
(* finalizer giving its id back.                                           *)
(***************************************************************************)
RegisterEnds ==
  Holding # Holder => HasFree(store)

-----------------------------------------------------------------------------
Registry == INSTANCE IdRegistry WITH names <- held, Value <- Ptr, Nothing <- NoHandle

(***************************************************************************)
(* The two maps, the counts and s.index of go-ptr-id.go implement the      *)
(* registry of IdRegistry: every step of register and remove, seen from    *)
(* the holders, issues a fitting id or releases one.                       *)
(***************************************************************************)
ImplementsRegistry == Registry!Spec

=============================================================================
