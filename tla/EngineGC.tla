------------------------------ MODULE EngineGC ------------------------------
(***************************************************************************)
(* The memory manager of the engine (quickjs.c): reference counts, the    *)
(* list of structures whose count is zero, the trial deletion that frees  *)
(* cycles, and the structures that weak references keep.  The finalizer   *)
(* of GoObjHandler objects (go-proxy.c) takes part in it.                 *)
(*                                                                         *)
(* The engine runs on one thread, so that an operation of a script and    *)
(* all that it frees is one action.  The heap is a record h and each C    *)
(* function an operator from heaps to heaps:                               *)
(*   ref, mark, weak   the fields ref_count, mark, weakref_count           *)
(*   mem               "none" (not allocated), "live", or "zombie": freed, *)
(*                     but the structure is kept                           *)
(*   kids              the references that the structure owns, in order    *)
(*   target, token     what a WeakRef or a registry watches, and the       *)
(*                     unregister token of a registry's entry              *)
(*   gc, tmp, zero     gc_obj_list, tmp_obj_list, gc_zero_ref_count_list   *)
(*   wlist             weakref_list                                        *)
(*   roots             references owned by the C stack                     *)
(*   jobs              finalization jobs, which own the arguments          *)
(*   phase             gc_phase                                            *)
(*   bad               assertions that failed and accesses to structures   *)
(*                     that are not allocated                              *)
(***************************************************************************)
EXTENDS Integers, FiniteSets, SequencesExt

CONSTANTS
    Plain,      \* structures that become ordinary objects
    VarRefs,    \* JSVarRef structures, which only objects own; detached: the
                \* function whose variables they are has returned
    WeakRefs,   \* objects of class WeakRef
    FinRecs,    \* FinalizationRegistry objects, with at most one entry
    GoObjs,     \* objects of class GoObjHandler
    Nothing,
    MaxKids,    \* bound: references that one object owns
    MaxRoots,   \* bound: references from the C stack to one object
    MaxJobs,    \* bound: finalization jobs that wait
    MaxLive     \* bound: structures allocated at a time

VARIABLES
    h,          \* the heap
    collected   \* whether JS_RunGC was the last operation

gcVars == <<h, collected>>

Objects == Plain \cup WeakRefs \cup FinRecs \cup GoObjs
Structs == Objects \cup VarRefs

-----------------------------------------------------------------------------
(* Lists and structures.                                                   *)

Without(s, o) == SelectSeq(s, LAMBDA e : e # o)

list_del(g, o) == [g EXCEPT !.gc = Without(@, o), !.tmp = Without(@, o),
                            !.zero = Without(@, o)]

Blame(g, cond, what) == IF cond THEN g ELSE [g EXCEPT !.bad = @ \cup {what}]

\* Reads or writes a field of o.
Touch(g, o) == Blame(g, g.mem[o] # "none", "use after free")

js_free_rt(g, o) == [g EXCEPT !.mem[o] = "none", !.ref[o] = 0, !.weak[o] = 0, !.mark[o] = 0]

\* A new structure, its reference owned by the caller.
add_gc_object(g, o) ==
    [g EXCEPT !.mem[o] = "live", !.ref[o] = 1, !.mark[o] = 0, !.weak[o] = 0,
              !.kids[o] = <<>>, !.target[o] = Nothing, !.token[o] = Nothing,
              !.gc = Append(@, o)]

-----------------------------------------------------------------------------
(* Giving up a reference.                                                  *)

\* __JS_FreeValueRT for objects, without the drain that follows in phase NONE.
Queue(g, o) ==
    IF g.phase = "REMOVE_CYCLES" THEN g
    ELSE LET d == list_del(g, o)
         IN  [d EXCEPT !.zero = <<o>> \o @, !.mark[o] = 1]

FreeObjectRef(g, o) ==
    LET d == [Touch(g, o) EXCEPT !.ref[o] = @ - 1]
    IN  IF d.ref[o] <= 0 THEN Queue(d, o) ELSE d

\* A captured variable goes at once, with the reference it owns.
free_var_ref(g, v) ==
    LET b == Blame(Touch(g, v), g.ref[v] > 0, "free_var_ref: ref_count > 0")
        d == [b EXCEPT !.ref[v] = @ - 1]
    IN  IF d.ref[v] # 0 THEN d
        ELSE js_free_rt(list_del(FoldLeft(FreeObjectRef, d, d.kids[v]), v), v)

FreeRef(g, c) == IF c \in VarRefs THEN free_var_ref(g, c) ELSE FreeObjectRef(g, c)

js_weakref_is_live(g, t) == t = Nothing \/ g.ref[t] # 0

js_weakref_freeKeep(g, t) ==
    IF t = Nothing THEN g ELSE [Touch(g, t) EXCEPT !.weak[t] = @ - 1]

js_weakref_free(g, t) ==
    IF t = Nothing THEN g
    ELSE LET b == Blame(Touch(g, t), g.weak[t] >= 1, "js_weakref_free: weakref_count >= 1")
             d == [b EXCEPT !.weak[t] = @ - 1]
         IN  IF d.weak[t] = 0 /\ d.ref[t] = 0 /\ d.mark[t] = 0
             THEN js_free_rt(d, t) ELSE d

\* The class finalizers.  The references of a registry (the held value of its
\* entry and the callback) are no properties: its finalizer gives them up.
js_weakref_finalizer(g, o) ==
    [js_weakref_free(g, g.target[o]) EXCEPT !.target[o] = Nothing,
                                            !.wlist = Without(@, o)]

js_finrec_finalizer(g, o) ==
    LET e == js_weakref_free(js_weakref_free(g, g.target[o]), g.token[o])
    IN  [FoldLeft(FreeRef, e, g.kids[o]) EXCEPT !.target[o] = Nothing, !.token[o] = Nothing,
                                                !.wlist = Without(@, o)]

\* The finalizer of GoObjHandler gives up a reference to the object itself.
free_obj_id_opaque(g, o) == FreeObjectRef(g, o)

Finalizer(g, o) ==
    CASE o \in WeakRefs -> js_weakref_finalizer(g, o)
      [] o \in FinRecs -> js_finrec_finalizer(g, o)
      [] o \in GoObjs -> free_obj_id_opaque(g, o)
      [] OTHER -> g

\* free_object gives up the properties, and calls the finalizer.
Emptied(g, o) ==
    LET k == IF o \in FinRecs THEN Touch(g, o) ELSE FoldLeft(FreeRef, Touch(g, o), g.kids[o])
    IN  list_del([Finalizer(k, o) EXCEPT !.kids[o] = <<>>], o)

free_objectEager(g, o) == js_free_rt(Emptied(g, o), o)

free_object(g, o) ==
    LET f == Emptied(g, o)
    IN  IF g.phase = "REMOVE_CYCLES"
        THEN IF f.ref[o] = 0 /\ f.weak[o] = 0
             THEN js_free_rt(f, o)
             ELSE [f EXCEPT !.zero = Append(@, o), !.mem[o] = "zombie"]
        ELSE IF f.weak[o] = 0
             THEN js_free_rt(f, o)
             ELSE [f EXCEPT !.mark[o] = 0, !.mem[o] = "zombie"]

\* Repeats a step of a C loop often enough for every structure of the heap.
Repeat(Step(_), g) == FoldLeft(LAMBDA d, i : Step(d), g, [i \in 1..Cardinality(Structs) |-> i])

free_zero_refcount(g) ==
    LET Step(d) == IF d.zero = <<>> THEN d
                   ELSE LET o == Head(d.zero)
                        IN  free_object(Blame(d, d.ref[o] = 0, "free_zero_refcount: ref_count == 0"), o)
    IN  [Repeat(Step, [g EXCEPT !.phase = "DECREF"]) EXCEPT !.phase = "NONE"]

JS_FreeValueRT(g, c) == free_zero_refcount(FreeRef(g, c))

-----------------------------------------------------------------------------
(* The collector.                                                          *)

weakref_delete_weakref(g, w) ==
    IF js_weakref_is_live(g, g.target[w]) THEN g
    ELSE [js_weakref_free(g, g.target[w]) EXCEPT !.target[w] = Nothing]

\* A token that is gone is forgotten.  An entry whose target is gone ends: the
\* callback and the held value are passed to a job, which owns them too.
finrec_delete_weakref(g, w) ==
    LET Forgotten(d) == IF js_weakref_is_live(d, d.token[w]) THEN d
                        ELSE [js_weakref_free(d, d.token[w]) EXCEPT !.token[w] = Nothing]
        f == Forgotten(g)
        held == g.kids[w][1]
        cb == g.kids[w][2]
        q == [f EXCEPT !.jobs = Append(@, [cb |-> cb, held |-> held])]
        e == [q EXCEPT !.ref = [q.ref EXCEPT ![cb] = @ + 1, ![held] = @ + 1]]
        u == js_weakref_free(js_weakref_free(e, g.target[w]), f.token[w])
    IN  IF js_weakref_is_live(g, g.target[w]) THEN f
        ELSE [FreeRef(u, held) EXCEPT !.target[w] = Nothing, !.token[w] = Nothing, !.kids[w] = <<cb>>]

gc_remove_weak_objects(g) ==
    LET Delete(d, w) == IF w \in FinRecs THEN finrec_delete_weakref(d, w)
                                         ELSE weakref_delete_weakref(d, w)
    IN  free_zero_refcount(FoldLeft(Delete, [g EXCEPT !.phase = "DECREF"], g.wlist))

\* Visits the references that p owns, each as often as p owns it.
mark_children(g, p) == g.kids[p]

ToTmp(g, p) == LET d == list_del(g, p) IN [d EXCEPT !.tmp = Append(@, p)]

gc_decref_childStay(g, p) ==
    LET b == Blame(Touch(g, p), g.ref[p] > 0, "gc_decref_child: ref_count > 0")
    IN  [b EXCEPT !.ref[p] = @ - 1]

gc_decref_child(g, p) ==
    LET b == Blame(Touch(g, p), g.ref[p] > 0, "gc_decref_child: ref_count > 0")
        d == [b EXCEPT !.ref[p] = @ - 1]
    IN  IF d.ref[p] = 0 /\ d.mark[p] = 1 THEN ToTmp(d, p) ELSE d

gc_decref(g) ==
    LET Visit(d, p) ==
            LET b == Blame(d, d.mark[p] = 0, "gc_decref: mark == 0")
                m == [FoldLeft(gc_decref_child, b, mark_children(b, p)) EXCEPT !.mark[p] = 1]
            IN  IF m.ref[p] = 0 THEN ToTmp(m, p) ELSE m
    IN  FoldLeft(Visit, [g EXCEPT !.tmp = <<>>], g.gc)

gc_scan_incref_child(g, p) ==
    LET d == [g EXCEPT !.ref[p] = @ + 1]
        l == list_del(d, p)
    IN  IF d.ref[p] = 1 THEN [l EXCEPT !.gc = Append(@, p), !.mark[p] = 0] ELSE d

gc_scan_incref_child2(g, p) == [g EXCEPT !.ref[p] = @ + 1]

\* Visits gc_obj_list while it grows; what is left in tmp_obj_list is garbage.
gc_scan(g) ==
    LET Visit(d, i) ==
            IF i > Len(d.gc) THEN d
            ELSE LET p == d.gc[i]
                     b == Blame(d, d.ref[p] > 0, "gc_scan: ref_count > 0")
                 IN  FoldLeft(gc_scan_incref_child, [b EXCEPT !.mark[p] = 0], mark_children(b, p))
        s == FoldLeft(Visit, g, [i \in 1..Cardinality(Structs) |-> i])
        Restore(d, p) == FoldLeft(gc_scan_incref_child2, d, mark_children(d, p))
    IN  FoldLeft(Restore, s, s.tmp)

gc_free_cycles(g) ==
    LET Step(d) ==
            IF d.tmp = <<>> THEN d
            ELSE LET p == Head(d.tmp)
                     l == list_del(d, p)
                 IN  IF p \in Objects THEN free_object(d, p)
                     ELSE [l EXCEPT !.zero = Append(@, p)]
        c == [Repeat(Step, [g EXCEPT !.phase = "REMOVE_CYCLES"]) EXCEPT !.phase = "NONE"]
        Release(d, p) ==
            LET b == Blame(d, p \in Objects, "gc_free_cycles: gc_obj_type")
            IN  IF b.weak[p] # 0 THEN [b EXCEPT !.mark[p] = 0] ELSE js_free_rt(b, p)
    IN  [FoldLeft(Release, c, c.zero) EXCEPT !.zero = <<>>]

JS_RunGCInternal(g) == gc_free_cycles(gc_scan(gc_decref(gc_remove_weak_objects(g))))

-----------------------------------------------------------------------------
(* What scripts do.                                                        *)

GCInit ==
    /\ h = [ref |-> [o \in Structs |-> 0], mark |-> [o \in Structs |-> 0],
            weak |-> [o \in Structs |-> 0], mem |-> [o \in Structs |-> "none"],
            kids |-> [o \in Structs |-> <<>>], target |-> [o \in Structs |-> Nothing],
            token |-> [o \in Structs |-> Nothing],
            gc |-> <<>>, tmp |-> <<>>, zero |-> <<>>, wlist |-> <<>>,
            roots |-> [o \in Structs |-> 0], jobs |-> <<>>,
            phase |-> "NONE", bad |-> {}]
    /\ collected = FALSE

Free(o) == h.mem[o] = "none" /\ Cardinality({p \in Structs : h.mem[p] # "none"}) < MaxLive

Rooted(o) == h.roots[o] > 0 /\ h.mem[o] = "live"

\* Evaluates to a new object, whose reference the stack owns.
JS_NewObject(o) ==
    /\ Free(o)
    /\ h' = [add_gc_object(h, o) EXCEPT !.roots[o] = 1]
    /\ collected' = FALSE

\* o gets a property whose value is c, or c as its prototype.  A Go object gets
\* one by Object.defineProperty or Object.setPrototypeOf only, because goObjSet
\* takes its assignments.
SetProperty(o, c) ==
    /\ Rooted(o) /\ Rooted(c) /\ Len(h.kids[o]) < MaxKids
    /\ h' = [h EXCEPT !.kids[o] = Append(@, c), !.ref[c] = @ + 1]
    /\ collected' = FALSE

\* delete o.p
DeleteProperty(o, i) ==
    /\ Rooted(o) /\ i \in DOMAIN h.kids[o]
    /\ h' = JS_FreeValueRT([h EXCEPT !.kids[o] = RemoveAt(@, i)], h.kids[o][i])
    /\ collected' = FALSE

\* The closure o captures a variable whose value is x (js_closure2), or shares
\* the variable v with another closure.
CaptureVariable(o, v, x) ==
    /\ Rooted(o) /\ Rooted(x) /\ Len(h.kids[o]) < MaxKids
    /\ \/ /\ Free(v)
          /\ h' = [add_gc_object(h, v) EXCEPT !.kids[o] = Append(@, v), !.kids[v] = <<x>>,
                                              !.ref[x] = @ + 1]
       \/ /\ h.mem[v] = "live" /\ h.kids[v] = <<x>>
          /\ h' = [h EXCEPT !.kids[o] = Append(@, v), !.ref[v] = @ + 1]
    /\ collected' = FALSE

\* A variable of the script goes out of scope.
JS_FreeValue(o) ==
    /\ Rooted(o)
    /\ h' = JS_FreeValueRT([h EXCEPT !.roots[o] = @ - 1], o)
    /\ collected' = FALSE

js_weakref_constructorUncounted(w, t) ==
    /\ Free(w) /\ Rooted(t)
    /\ h' = [add_gc_object(h, w) EXCEPT !.roots[w] = 1, !.target[w] = t, !.wlist = Append(@, w)]
    /\ collected' = FALSE

\* new WeakRef(t)
js_weakref_constructor(w, t) ==
    /\ Free(w) /\ Rooted(t)
    /\ h' = [add_gc_object(h, w) EXCEPT !.roots[w] = 1, !.target[w] = t, !.weak[t] = @ + 1,
                                        !.wlist = Append(@, w)]
    /\ collected' = FALSE

\* w.deref()
js_weakref_deref(w) ==
    /\ Rooted(w) /\ h.target[w] # Nothing
    /\ js_weakref_is_live(h, h.target[w])
    /\ h.roots[h.target[w]] < MaxRoots
    /\ h' = [Touch(h, h.target[w]) EXCEPT !.ref[h.target[w]] = @ + 1,
                                          !.roots[h.target[w]] = @ + 1]
    /\ collected' = FALSE

\* new FinalizationRegistry(cb) and register(t, x, tok), tok being Nothing if it
\* is not given.
js_finrec_register(w, cb, t, x, tok) ==
    /\ Free(w) /\ Rooted(cb) /\ Rooted(t) /\ Rooted(x) /\ t # x
    /\ tok # Nothing => Rooted(tok)
    /\ Len(h.jobs) < MaxJobs
    /\ LET g == add_gc_object(h, w)
           Counts(o) == Cardinality({i \in 1..2 : <<x, cb>>[i] = o})
           Watches(o) == Cardinality({i \in 1..2 : <<t, tok>>[i] = o})
       IN  h' = [g EXCEPT !.roots[w] = 1, !.target[w] = t, !.token[w] = tok, !.kids[w] = <<x, cb>>,
                          !.weak = [o \in Structs |-> g.weak[o] + Watches(o)],
                          !.ref = [o \in Structs |-> g.ref[o] + Counts(o)],
                          !.wlist = Append(@, w)]
    /\ collected' = FALSE

\* w.unregister(tok)
js_finrec_unregister(w, tok) ==
    /\ Rooted(w) /\ Rooted(tok) /\ h.token[w] = tok
    /\ LET e == js_weakref_free(js_weakref_free(h, h.target[w]), tok)
       IN  h' = JS_FreeValueRT([e EXCEPT !.target[w] = Nothing, !.token[w] = Nothing,
                                         !.kids[w] = Tail(@)], Head(h.kids[w]))
    /\ collected' = FALSE

\* js_finrec_job and the release of the arguments of the job.
RunJob ==
    /\ h.jobs # <<>>
    /\ LET j == Head(h.jobs)
       IN  h' = JS_FreeValueRT(JS_FreeValueRT([h EXCEPT !.jobs = Tail(@)], j.cb), j.held)
    /\ collected' = FALSE

JS_RunGC ==
    /\ h' = JS_RunGCInternal(h)
    /\ collected' = TRUE

GCNext ==
    \/ \E o \in Plain \cup GoObjs : JS_NewObject(o)
    \/ \E o \in Plain \cup GoObjs, c \in Objects : SetProperty(o, c)
    \/ \E o \in Plain \cup GoObjs, i \in 1..MaxKids : DeleteProperty(o, i)
    \/ \E o \in Plain, x \in Objects, v \in VarRefs : CaptureVariable(o, v, x)
    \/ \E o \in Objects : JS_FreeValue(o)
    \/ \E w \in WeakRefs, t \in Objects : js_weakref_constructor(w, t)
    \/ \E w \in WeakRefs : js_weakref_deref(w)
    \/ \E w \in FinRecs, t, x \in Objects, cb \in Plain, tok \in Plain \cup {Nothing} :
          js_finrec_register(w, cb, t, x, tok)
    \/ \E w \in FinRecs, tok \in Objects : js_finrec_unregister(w, tok)
    \/ RunJob
    \/ JS_RunGC

-----------------------------------------------------------------------------
(* Properties.                                                             *)

Live == {o \in Structs : h.mem[o] = "live"}

References(o) == {<<p, i>> \in Live \X (1..MaxKids + 1) :
                     i \in DOMAIN h.kids[p] /\ h.kids[p][i] = o}

JobRefs(o) == Cardinality({i \in DOMAIN h.jobs : h.jobs[i].held = o})
              + Cardinality({i \in DOMAIN h.jobs : h.jobs[i].cb = o})

Reachable ==
    LET Grow(S) == S \cup UNION {ToSet(h.kids[p]) : p \in S}
    IN  FoldLeft(LAMBDA S, i : Grow(S), {o \in Structs : h.roots[o] + JobRefs(o) > 0},
                 [i \in 1..Cardinality(Structs) |-> i])

GCTypeOK ==
    /\ h.mem \in [Structs -> {"none", "live", "zombie"}]
    /\ h.ref \in [Structs -> Int] /\ h.weak \in [Structs -> Nat]
    /\ h.mark \in [Structs -> {0, 1}]
    /\ h.kids \in [Structs -> Seq(Structs)]
    /\ h.target \in [Structs -> Objects \cup {Nothing}] /\ h.token \in [Structs -> Objects \cup {Nothing}]
    /\ h.phase \in {"NONE", "DECREF", "REMOVE_CYCLES"}
    /\ collected \in BOOLEAN

(* No assertion of the memory manager fails and no structure is read or    *)
(* written after js_free_rt (free_object keeps the structures that others  *)
(* of a dead cycle, or weak references, still point to).                   *)
NoUseAfterFree == h.bad = {}

(* Between two operations the count of every live structure is the number  *)
(* of references to it, although gc_decref takes all inner references off  *)
(* and gc_scan has to put every one of them back; what the script can      *)
(* reach is never freed; and after JS_RunGC nothing is left that it cannot *)
(* reach: counts free the trees, gc_free_cycles the cycles.                *)
HeapExact ==
    /\ \A o \in Live : h.ref[o] = h.roots[o] + JobRefs(o) + Cardinality(References(o))
    /\ Reachable \subseteq Live
    /\ collected => Live \subseteq Reachable

(* A freed structure is kept exactly as long as weak references point to   *)
(* it: js_weakref_free, free_object and gc_free_cycles agree on who calls  *)
(* js_free_rt.  deref() never hands out a structure that has been freed.   *)
ZombieReleased ==
    /\ \A o \in Objects :
          /\ \/ h.mem[o] = "none"
             \/ h.weak[o] = Cardinality({w \in Live : h.target[w] = o}) + Cardinality({w \in Live : h.token[w] = o})
          /\ h.mem[o] = "zombie" => h.weak[o] > 0
    /\ \A w \in Live \cap WeakRefs :
          h.target[w] # Nothing /\ js_weakref_is_live(h, h.target[w]) => h.mem[h.target[w]] = "live"
=============================================================================
