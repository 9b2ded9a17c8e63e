----------------------------- MODULE Lifecycle -----------------------------
(***************************************************************************)
(* From NewContext to the finalizers (context.go, go-ptr-id.go,            *)
(* go-proxy.c): JsContexts, the C addresses of their JSContexts, the       *)
(* ptrStores, which are found by that address, and the JavaScript values   *)
(* that carry ids of a store.                                              *)
(*                                                                         *)
(* A JsContext that Go no longer references is taken down in steps:        *)
(* freeJsContext deletes its store and gives up the JSContext, which stays *)
(* allocated while functions of the engine refer to it; freeJsRuntime,     *)
(* which runs later because a JsContext references its JsRuntime, frees    *)
(* the objects that are left.  Their finalizers call goFreeId with an      *)
(* address whose store has gone.  Some of them may even run when the       *)
(* JSContext has been freed and malloc has its address to give away.       *)
(***************************************************************************)
EXTENDS PtrStoreOps

CONSTANTS
  Jc,          \* JsContext objects
  Addr,        \* addresses of JSContexts
  Obj,         \* JavaScript values that carry an id
  Func,        \* those of Obj that are functions of wrapGoFunc (or objects that
               \* makeGoObject registered and could not allocate)
  None,        \* no address, no value
  KeepsAlive,  \* the host keeps a JsContext reachable until its calls return
               \* and while it calls functions that its scripts gave it
  EarlyReuse   \* malloc may reuse an address before JS_FreeRuntime returns

ASSUME LifecycleAssumption ==
  /\ Func \subseteq Obj
  /\ None \notin Addr
  /\ KeepsAlive \in BOOLEAN /\ EarlyReuse \in BOOLEAN

VARIABLES
  phase,   \* phase[j]: how far JsContext j has come
  addr,    \* addr[j]: the address of its JSContext
  refd,    \* the JsContexts that the host references
  calls,   \* the JsContexts in whose engine a call is running
  handed,  \* the JsContexts of which Go code has a function of fromJsFunc
  stores,  \* InitPtrStore's map from addresses to ptrStores
  obj      \* obj[o]: the context, the address and the id that o carries

vars == <<phase, addr, refd, calls, handed, stores, obj>>

\* "store": delPtrStore has run; "released": JS_FreeContext has; "freeing":
\* JS_FreeRuntime is running; "unmapped": and has freed the JSContext.
Phase == {"none", "live", "store", "released", "freeing", "unmapped", "gone"}

Init ==
  /\ phase = [j \in Jc |-> "none"]
  /\ addr = [j \in Jc |-> None]
  /\ refd = {}
  /\ calls = {}
  /\ handed = {}
  /\ stores = EmptyMap
  /\ obj = [o \in Obj |-> None]

Carrying == {o \in Obj : obj[o] # None}
ObjsOf(j) == {o \in Carrying : obj[o].jc = j}

-----------------------------------------------------------------------------
\* Addresses that malloc does not hand out.
Taken ==
  {addr[j] : j \in {k \in Jc : \/ phase[k] \in {"live", "store", "released", "freeing"}
                               \/ phase[k] = "unmapped" /\ ~ EarlyReuse}}

\* NewContext succeeds.  (When it fails it has freed what it had allocated.)
NewContext(j, a) ==
  /\ phase[j] = "none"
  /\ a \notin Taken
  /\ phase' = [phase EXCEPT ![j] = "live"]
  /\ addr' = [addr EXCEPT ![j] = a]
  /\ refd' = refd \cup {j}
  /\ UNCHANGED <<calls, handed, stores, obj>>

\* A method of j takes ctx.mu; the host has j at hand.
BeginCall(j) ==
  /\ j \in refd
  /\ j \notin calls
  /\ calls' = calls \cup {j}
  /\ UNCHANGED <<phase, addr, refd, handed, stores, obj>>

\* fromJsFunc: a script of j passes or returns a function to Go code.
HandFunc(j) ==
  /\ j \in calls
  /\ handed' = handed \cup {j}
  /\ UNCHANGED <<phase, addr, refd, calls, stores, obj>>

\* Go code calls such a function.  It has the address of the JSContext: it
\* neither takes ctx.mu nor references j.
CallHandedFunc(j) ==
  /\ j \in handed
  /\ KeepsAlive => j \in refd
  /\ j \notin calls
  /\ calls' = calls \cup {j}
  /\ UNCHANGED <<phase, addr, refd, handed, stores, obj>>

EndCall(j) ==
  /\ j \in calls
  /\ calls' = calls \ {j}
  /\ UNCHANGED <<phase, addr, refd, handed, stores, obj>>

\* The last reference to j goes.  A running method does not keep j alive: it
\* has read ctx.c, and its deferred Unlock refers to the mutex, not to j.
Drop(j) ==
  /\ j \in refd
  /\ KeepsAlive => j \notin calls
  /\ refd' = refd \ {j}
  /\ UNCHANGED <<phase, addr, calls, handed, stores, obj>>

\* getPtrStore: the store of an address, a new one if there is none.
getPtrStore(a) == IF a \in DOMAIN stores THEN stores[a] ELSE newPtrStore

PutStore(a, s) ==
  stores' = [b \in DOMAIN stores \cup {a} |-> IF b = a THEN s ELSE stores[b]]

\* makeGoObject and wrapGoFunc, in a call of j: a fresh variable is registered.
MakeObj(j, o, p) ==
  /\ j \in calls
  /\ obj[o] = None
  /\ \A q \in Carrying : obj[q].ptr # p
  /\ \A a \in DOMAIN stores : p \notin DOMAIN stores[a].ptr2id
  /\ HasFree(getPtrStore(addr[j]))
  /\ PutStore(addr[j], register(getPtrStore(addr[j]), p))
  /\ obj' = [obj EXCEPT ![o] = [jc |-> j, addr |-> addr[j], ptr |-> p,
                                id |-> RegisteredId(getPtrStore(addr[j]), p)]]
  /\ UNCHANGED <<phase, addr, refd, calls, handed>>

\* The engine frees values when it runs: in a call, or in JS_FreeRuntime.
EngineRuns(j) == j \in calls \/ phase[j] \in {"freeing", "unmapped"}

\* A wrong finalizer: the id goes back while the object is still there.
FinalizeObjectEarly(o) ==
  /\ obj[o] # None
  /\ o \notin Func
  /\ EngineRuns(obj[o].jc)
  /\ PutStore(obj[o].addr, remove(getPtrStore(obj[o].addr), obj[o].id))
  /\ UNCHANGED <<phase, addr, refd, calls, handed, obj>>

\* free_obj_id_opaque: goFreeId(o->ctx, o->idx) goes by the address.
FinalizeObject(o) ==
  /\ obj[o] # None
  /\ o \notin Func
  /\ EngineRuns(obj[o].jc)
  /\ PutStore(obj[o].addr, remove(getPtrStore(obj[o].addr), obj[o].id))
  /\ obj' = [obj EXCEPT ![o] = None]
  /\ UNCHANGED <<phase, addr, refd, calls, handed>>

\* A function of wrapGoFunc is freed: its id stays in the store.
FinalizeFunc(o) ==
  /\ obj[o] # None
  /\ o \in Func
  /\ EngineRuns(obj[o].jc)
  /\ obj' = [obj EXCEPT ![o] = None]
  /\ UNCHANGED <<phase, addr, refd, calls, handed, stores>>

-----------------------------------------------------------------------------
\* A wrong finalizer: the store is left to the finalizers of the objects.
DelPtrStoreNot(j) ==
  /\ phase[j] = "live"
  /\ j \notin refd
  /\ phase' = [phase EXCEPT ![j] = "store"]
  /\ UNCHANGED <<addr, refd, calls, handed, stores, obj>>

\* freeJsContext, first half: delPtrStore clears the store and forgets it.
\* The finalizer takes neither ctx.mu nor globalMu.
DelPtrStore(j) ==
  /\ phase[j] = "live"
  /\ j \notin refd
  /\ phase' = [phase EXCEPT ![j] = "store"]
  /\ stores' = [a \in DOMAIN stores \ {addr[j]} |-> stores[a]]
  /\ UNCHANGED <<addr, refd, calls, handed, obj>>

\* freeJsContext, second half: JS_FreeContext gives up one reference.
FreeContext(j) ==
  /\ phase[j] = "store"
  /\ phase' = [phase EXCEPT ![j] = "released"]
  /\ UNCHANGED <<addr, refd, calls, handed, stores, obj>>

\* freeJsRuntime: JS_FreeRuntime starts to free what is left.
FreeRuntime(j) ==
  /\ phase[j] = "released"
  /\ phase' = [phase EXCEPT ![j] = "freeing"]
  /\ UNCHANGED <<addr, refd, calls, handed, stores, obj>>

\* The last function that referred to the JSContext is freed, and it with it.
UnmapContext(j) ==
  /\ phase[j] = "freeing"
  /\ phase' = [phase EXCEPT ![j] = "unmapped"]
  /\ UNCHANGED <<addr, refd, calls, handed, stores, obj>>

\* JS_FreeRuntime returns when all the objects have been freed.
RuntimeFreed(j) ==
  /\ phase[j] = "unmapped"
  /\ ObjsOf(j) = {}
  /\ phase' = [phase EXCEPT ![j] = "gone"]
  /\ UNCHANGED <<addr, refd, calls, handed, stores, obj>>

Next ==
  \/ \E j \in Jc :
       \/ \E a \in Addr : NewContext(j, a)
       \/ BeginCall(j) \/ HandFunc(j) \/ CallHandedFunc(j) \/ EndCall(j) \/ Drop(j)
       \/ \E o \in Obj, p \in Ptr : MakeObj(j, o, p)
       \/ DelPtrStore(j) \/ FreeContext(j) \/ FreeRuntime(j)
       \/ UnmapContext(j) \/ RuntimeFreed(j)
  \/ \E o \in Obj : FinalizeObject(o) \/ FinalizeFunc(o)

Spec == Init /\ [][Next]_vars

-----------------------------------------------------------------------------
Carried == [jc : Jc, addr : Addr, id : Id, ptr : Ptr]

\* Shape of the state.
TypeOK ==
  /\ phase \in [Jc -> Phase]
  /\ addr \in [Jc -> Addr \cup {None}]
  /\ refd \in SUBSET Jc
  /\ calls \in SUBSET Jc
  /\ handed \in SUBSET Jc
  /\ DOMAIN stores \subseteq Addr
  /\ \A a \in DOMAIN stores : IsPtrStore(stores[a])
  /\ obj \in [Obj -> Carried \cup {None}]

(***************************************************************************)
(* A script only runs in a context that has not been torn down under it.   *)
(***************************************************************************)
CallOnLiveContext ==
  \A j \in calls : phase[j] = "live"

(***************************************************************************)
(* The stores hold no Go value for a context that has been torn down.      *)
(* Finalizers that run after delPtrStore make the store of their address   *)
(* anew (goFreeId, getPtrStore), but put nothing into it, and the ids that *)
(* functions of wrapGoFunc never give back go with the store.              *)
(***************************************************************************)
ValuesReleased ==
  \A a \in DOMAIN stores :
    DOMAIN stores[a].id2ptr # {} => \E j \in Jc : phase[j] = "live" /\ addr[j] = a

(***************************************************************************)
(* Every Go value that a script of a live context can reach is found in    *)
(* the store of that context, whatever other contexts are freed meanwhile, *)
(* and whatever contexts had the same address before.                      *)
(***************************************************************************)
ProxyResolves ==
  \A o \in Carrying :
    phase[obj[o].jc] = "live" =>
      /\ obj[o].addr \in DOMAIN stores
      /\ lookup(stores[obj[o].addr], obj[o].id, obj[o].ptr)

=============================================================================
