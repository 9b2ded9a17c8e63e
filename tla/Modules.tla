------------------------------ MODULE Modules -------------------------------
(***************************************************************************)
(* Linking and evaluation of modules, with top-level await (quickjs.c).    *)
(*                                                                         *)
(* Scripts and hosts import modules one after the other; each import links *)
(* the module and what it requests, and evaluates it.  The body of a       *)
(* module without top-level await runs in one go; that of one with it      *)
(* settles later, in a job.  The record ms holds JSModuleDef of every      *)
(* module, field by field, and                                             *)
(*   stack, index    the depth-first search that is under way              *)
(*   err             the module whose exception it returned, 0 if none     *)
(*   busy            the modules whose bodies wait                         *)
(*   ran             the bodies in the order in which they were started    *)
(*   early, bad      bodies that were started too early, assertions that   *)
(*                   failed (history)                                      *)
(*   late            modules that wait for one which is done (history)     *)
(***************************************************************************)
EXTENDS Integers, FiniteSets, SequencesExt

CONSTANT MaxModule      \* bound: modules are 1 .. MaxModule

VARIABLES graph, ms

moduleVars == <<graph, ms>>

Mods == 1..MaxModule

\* The program: what modules request, in which order, which of them use
\* top-level await, which one cannot be linked, and which one throws (0: none).
Requests(m) == SetToSortSeq(graph.req[m], <)
HasTla(m) == m \in graph.tla

NoRequests == [req |-> [m \in Mods |-> {}], tla |-> {}, unlinkable |-> 0, throws |-> 0]

ModulesInit ==
    /\ graph \in [req : {r \in [Mods -> SUBSET Mods] : \A m \in Mods : m \notin r[m]},
                  tla : SUBSET Mods, unlinkable : {0} \cup Mods, throws : {0} \cup Mods]
    /\ graph.unlinkable = 0 \/ graph.throws = 0
    /\ LET all(v) == [m \in Mods |-> v]
       IN  ms = [status |-> all("unlinked"), async |-> all(FALSE), pend |-> all(0), parents |-> all(<<>>),
                 root |-> all(0), exc |-> all(0), stamp |-> all(0), promise |-> all("none"),
                 dfs |-> all(0), anc |-> all(0), stack |-> <<>>, index |-> 0, err |-> 0, next |-> 1,
                 busy |-> {}, ran |-> <<>>, early |-> {}, bad |-> {}, late |-> {}]

Check(s, cond, where) == IF cond THEN s ELSE [s EXCEPT !.bad = @ \cup {where}]

\* Push m on the stack of the search, with the given status.
Visit(s, m, status) ==
    [s EXCEPT !.status[m] = status, !.dfs[m] = s.index, !.anc[m] = s.index,
              !.index = @ + 1, !.stack = <<m>> \o @]

Lower(s, m, d) == [s EXCEPT !.anc[m] = Min({@, s.anc[d]})]

\* The modules on the stack down to m: a strongly connected component.
Component(s, m) == ToSet(SubSeq(s.stack, 1, Cardinality({i \in DOMAIN s.stack : s.dfs[s.stack[i]] >= s.dfs[m]})))
Pop(s, m) == [s EXCEPT !.stack = SelectSeq(@, LAMBDA d : d \notin Component(s, m))]

-----------------------------------------------------------------------------
(* Linking.                                                                *)

RECURSIVE js_inner_module_linking(_, _)
\* Every module is linked on its own, without its cycle.
js_inner_module_linkingEager(s, m) ==
    LET Request(a, d) == IF a.err # 0 THEN a ELSE js_inner_module_linking(a, d)
        r == FoldLeft(Request, Visit(s, m, "linking"), Requests(m))
    IN  IF s.status[m] # "unlinked" THEN s
        ELSE IF r.err # 0 THEN r
        ELSE IF m = graph.unlinkable THEN [r EXCEPT !.err = m]
        ELSE [r EXCEPT !.status[m] = "linked", !.stack = Remove(@, m)]

js_inner_module_linking(s, m) ==
    LET Request(a, d) ==
            IF a.err # 0 THEN a
            ELSE LET b == js_inner_module_linking(a, d)
                 IN  IF b.err = 0 /\ b.status[d] = "linking" THEN Lower(b, m, d) ELSE b
        r == FoldLeft(Request, Visit(s, m, "linking"), Requests(m))
        done == Component(r, m)
    IN  IF s.status[m] # "unlinked" THEN s
        ELSE IF r.err # 0 THEN r
        ELSE IF m = graph.unlinkable THEN [r EXCEPT !.err = m]
        ELSE IF r.dfs[m] # r.anc[m] THEN r
        ELSE [Pop(r, m) EXCEPT !.status = [d \in Mods |-> IF d \in done THEN "linked" ELSE @[d]]]

\* A failure unlinks what is on the stack again.
js_link_module(s, m) ==
    LET r == js_inner_module_linking([s EXCEPT !.index = 0], m)
    IN  IF r.err = 0 THEN r
        ELSE [r EXCEPT !.stack = <<>>,
                       !.status = [d \in Mods |-> IF d \in ToSet(r.stack) THEN "unlinked" ELSE @[d]]]

-----------------------------------------------------------------------------
(* Evaluation.                                                             *)

RECURSIVE Reaches(_, _, _)
Reaches(d, m, seen) == d = m \/ \E e \in graph.req[d] \ seen : Reaches(e, m, seen \cup {e})
Reach(d, m) == \E e \in graph.req[d] : Reaches(e, m, {e})
Completed(s, d) == d \in ToSet(s.ran) /\ d \notin s.busy /\ s.exc[d] = 0

\* The body of m is started; what m requests, other than through a cycle, must
\* be complete.
Start(s, m) ==
    [s EXCEPT !.ran = Append(@, m), !.busy = IF HasTla(m) THEN @ \cup {m} ELSE @,
              !.early = IF \A d \in graph.req[m] : Completed(s, d) \/ Reach(d, m) THEN @ ELSE @ \cup {m}]

SettlePromise(s, m, how) == IF s.promise[m] = "pending" THEN [s EXCEPT !.promise[m] = how] ELSE s

js_set_module_evaluated(s, m) ==
    LET a == Check(s, s.promise[m] = "none" \/ s.root[m] = m, "js_set_module_evaluated: cycle_root")
    IN  SettlePromise([a EXCEPT !.status[m] = "evaluated"], m, "fulfilled")

\* Two requests count as one.
AwaitRequestUncounted(s, m, d) ==
    IF s.async[d] THEN [s EXCEPT !.pend[m] = 1, !.parents[d] = Append(@, m)] ELSE s

\* m has to wait for d, a request or the root of the cycle of a request.
AwaitRequest(s, m, d) ==
    IF s.async[d] THEN [s EXCEPT !.pend[m] = @ + 1, !.parents[d] = Append(@, m),
                                 !.late = IF s.status[d] = "evaluated" THEN @ \cup {m} ELSE @]
    ELSE s

Postpone(s, m) ==
    [Check(s, ~ s.async[m], "js_inner_module_evaluation: async_evaluation")
        EXCEPT !.async[m] = TRUE, !.stamp[m] = s.next, !.next = @ + 1]

RECURSIVE js_inner_module_evaluation(_, _)
js_inner_module_evaluation(s, m) ==
    LET Request(a, d) ==
            LET b == js_inner_module_evaluation(a, d)
                r == b.root[d]
                seen == Check(b, b.status[d] \in {"async", "evaluated"} /\ r # 0 /\ b.status[r] \in {"async", "evaluated"},
                              "js_inner_module_evaluation: status of a request")
            IN  CASE a.err # 0 -> a
                  [] a.err = 0 /\ b.err # 0 -> b
                  [] a.err = 0 /\ b.err = 0 /\ b.status[d] = "evaluating" -> AwaitRequest(Lower(b, m, d), m, d)
                  [] OTHER -> IF b.exc[r] # 0 THEN [seen EXCEPT !.err = b.exc[r]] ELSE AwaitRequest(seen, m, r)
        q == FoldLeft(Request, [Visit(s, m, "evaluating") EXCEPT !.pend[m] = 0], Requests(m))
        e == IF q.pend[m] > 0 THEN Postpone(q, m)
             ELSE IF HasTla(m) THEN Start(Postpone(q, m), m)
             ELSE [Start(q, m) EXCEPT !.err = IF m = graph.throws THEN m ELSE 0]
        done == Component(e, m)
    IN  IF s.status[m] \in {"async", "evaluated"} THEN [s EXCEPT !.err = s.exc[m]]
        ELSE IF s.status[m] = "evaluating" THEN s
        ELSE IF q.err # 0 THEN q
        ELSE IF e.err # 0 \/ e.dfs[m] # e.anc[m] THEN e
        ELSE [Pop(e, m) EXCEPT !.root = [d \in Mods |-> IF d \in done THEN m ELSE @[d]],
                               !.status = [d \in Mods |-> IF d \notin done THEN @[d]
                                                          ELSE IF e.async[d] THEN "async" ELSE "evaluated"]]

Root(s, m) == IF s.status[m] \in {"async", "evaluated"} THEN s.root[m] ELSE m

\* The promise is fulfilled although bodies wait.
js_evaluate_moduleEager(s, m) ==
    LET r == Root(s, m)
        e == js_inner_module_evaluation([s EXCEPT !.promise[r] = "pending", !.index = 0], r)
        failed == ToSet(e.stack)
        f == [e EXCEPT !.stack = <<>>, !.err = 0,
                       !.status = [d \in Mods |-> IF d \in failed THEN "evaluated" ELSE @[d]],
                       !.exc = [d \in Mods |-> IF d \in failed THEN e.err ELSE @[d]],
                       !.root = [d \in Mods |-> IF d \in failed THEN r ELSE @[d]]]
    IN  IF s.promise[r] # "none" THEN s
        ELSE IF e.err # 0
             THEN SettlePromise(Check(f, f.status[r] = "evaluated" /\ f.exc[r] # 0, "js_evaluate_module: exception"),
                         r, "rejected")
        ELSE SettlePromise(e, r, "fulfilled")

js_evaluate_module(s, m) ==
    LET r == Root(s, m)
        e == js_inner_module_evaluation([s EXCEPT !.promise[r] = "pending", !.index = 0], r)
        failed == ToSet(e.stack)
        f == [e EXCEPT !.stack = <<>>, !.err = 0,
                       !.status = [d \in Mods |-> IF d \in failed THEN "evaluated" ELSE @[d]],
                       !.exc = [d \in Mods |-> IF d \in failed THEN e.err ELSE @[d]],
                       !.root = [d \in Mods |-> IF d \in failed THEN r ELSE @[d]]]
    IN  IF s.promise[r] # "none" THEN s
        ELSE IF e.err # 0
             THEN SettlePromise(Check(f, f.status[r] = "evaluated" /\ f.exc[r] # 0, "js_evaluate_module: exception"),
                         r, "rejected")
        ELSE IF e.async[r] THEN [Check(e, e.stack = <<>>, "js_evaluate_module: stack_top")
                                     EXCEPT !.late = IF e.status[r] = "evaluated" THEN @ \cup {r} ELSE @]
        ELSE SettlePromise(Check(e, e.status[r] = "evaluated", "js_evaluate_module: status"), r, "fulfilled")

-----------------------------------------------------------------------------
(* The end of a body with top-level await.                                 *)

RECURSIVE js_async_module_execution_rejected(_, _, _)
js_async_module_execution_rejected(s, m, err) ==
    LET a == Check(s, s.status[m] = "async" /\ s.async[m], "js_async_module_execution_rejected: status")
        b == [a EXCEPT !.exc[m] = err, !.status[m] = "evaluated"]
        Parent(d, p) == js_async_module_execution_rejected(d, p, err)
        c == FoldLeft(Parent, b, s.parents[m])
    IN  IF s.status[m] = "evaluated"
        THEN Check(s, s.exc[m] # 0, "js_async_module_execution_rejected: eval_has_exception")
        ELSE SettlePromise(Check(c, c.promise[m] = "none" \/ c.root[m] = m, "js_async_module_execution_rejected: cycle_root"),
                           m, "rejected")

\* The modules that waited for m alone, and for those which m lets run at once.
\* g holds the modules as s, and list.
RECURSIVE gather_available_ancestors(_, _)
gather_available_ancestors(g, m) ==
    LET Parent(a, p) ==
            LET ok == a.s.status[p] = "async" /\ a.s.exc[p] = 0 /\ a.s.async[p] /\ a.s.pend[p] > 0
                b == [a EXCEPT !.s = [Check(@, ok, "gather_available_ancestors") EXCEPT !.pend[p] = @ - 1]]
                c == [b EXCEPT !.list = Append(@, p)]
            IN  IF p \in ToSet(a.list) \/ a.s.exc[a.s.root[p]] # 0 THEN a
                ELSE IF b.s.pend[p] # 0 THEN b
                ELSE IF HasTla(p) THEN c ELSE gather_available_ancestors(c, p)
    IN  FoldLeft(Parent, g, g.s.parents[m])

\* The modules of the list, in the order of their time stamps.
ExecuteList(s, list) ==
    LET Execute(a, m) ==
            LET b == Start(a, m)
            IN  IF a.status[m] = "evaluated" THEN Check(a, a.exc[m] # 0, "js_async_module_execution_fulfilled")
                ELSE IF HasTla(m) THEN b
                ELSE IF m = graph.throws THEN js_async_module_execution_rejected(b, m, m)
                ELSE js_set_module_evaluated(b, m)
    IN  FoldLeft(Execute, s, SetToSortSeq(ToSet(list), LAMBDA x, y : s.stamp[x] < s.stamp[y]))

\* Without the list: only the parents themselves are run.
js_async_module_execution_fulfilledFlat(s, m) ==
    LET b == js_set_module_evaluated([s EXCEPT !.async[m] = FALSE], m)
        ready == {p \in ToSet(b.parents[m]) : b.pend[p] = 1 /\ b.exc[b.root[p]] = 0}
        c == [b EXCEPT !.pend = [p \in Mods |-> IF p \in ToSet(b.parents[m]) THEN @[p] - 1 ELSE @[p]]]
    IN  IF s.status[m] = "evaluated" THEN s ELSE ExecuteList(c, SetToSeq(ready))

js_async_module_execution_fulfilled(s, m) ==
    LET a == Check(s, s.status[m] = "async" /\ s.async[m], "js_async_module_execution_fulfilled: status")
        b == js_set_module_evaluated([a EXCEPT !.async[m] = FALSE], m)
        g == gather_available_ancestors([s |-> b, list |-> <<>>], m)
    IN  IF s.status[m] = "evaluated"
        THEN Check(s, s.exc[m] # 0, "js_async_module_execution_fulfilled: eval_has_exception")
        ELSE ExecuteList(g.s, g.list)

-----------------------------------------------------------------------------
(* Steps: imports, and ends of bodies that wait.  The first import of a     *)
(* module settles the matter, a further one returns the same promise.       *)

Import(m) ==
    LET l == js_link_module(ms, m)
    IN  /\ ms.promise[Root(ms, m)] = "none"
        /\ ms' = IF l.err # 0 THEN [l EXCEPT !.err = 0] ELSE js_evaluate_module(l, m)
        /\ UNCHANGED graph

BodySettles(m) ==
    LET s == [ms EXCEPT !.busy = @ \ {m}]
    IN  /\ m \in ms.busy
        /\ ms' = IF m = graph.throws THEN js_async_module_execution_rejected(s, m, m)
                 ELSE js_async_module_execution_fulfilled(s, m)
        /\ UNCHANGED graph

ModulesNext == \E m \in Mods : Import(m) \/ BodySettles(m)

\* Bodies that wait settle: BodySettles(m) is enabled exactly while m is busy
\* and ends that, so this is its weak fairness, stated without the action.
BodiesSettle == \A m \in Mods : []<>(m \notin ms.busy)

-----------------------------------------------------------------------------
(* Properties                                                              *)

ModulesTypeOK ==
    /\ ms.status \in [Mods -> {"unlinked", "linked", "async", "evaluated"}]
    /\ ms.promise \in [Mods -> {"none", "pending", "fulfilled", "rejected"}]
    /\ ms.stack = <<>> /\ ms.err = 0
    /\ \A m \in Mods : ms.pend[m] \in Nat /\ ms.exc[m] \in {0} \cup Mods

\* A body is started at most once, and only after everything that it requests
\* is complete, cycles apart, although siblings that wait may end in any order;
\* and none of the assertions of the evaluation fails on the way.
RequestsFirst ==
    /\ ms.early = {} /\ ms.bad = {}
    /\ \A i, k \in DOMAIN ms.ran : ms.ran[i] = ms.ran[k] => i = k

\* The promise of an import is fulfilled only when every module that it reaches
\* is complete, and rejected only with what a module that it reaches has thrown.
ImportOutcome ==
    \A m \in Mods :
        /\ ms.promise[m] = "fulfilled" => \A d \in Mods : d = m \/ Reach(m, d) => Completed(ms, d)
        /\ ms.promise[m] = "rejected" =>
              /\ ms.exc[m] = graph.throws /\ graph.throws \in ToSet(ms.ran)
              /\ m = graph.throws \/ Reach(m, graph.throws)

\* What a linked module requests is linked, also after a link that failed.
LinkedClosed ==
    \A m \in Mods : ms.status[m] # "unlinked" => \A d \in graph.req[m] : ms.status[d] # "unlinked"

\* The promise of an import gets settled, unless it needs a module that waits
\* for one which is done: a module without top-level await that had to wait
\* keeps async_evaluation when it is evaluated.
ImportsSettleUnlessLate ==
    \A m \in Mods : (ms.promise[m] = "pending") ~>
        (ms.promise[m] # "pending" \/ \E d \in ms.late : d = m \/ Reach(m, d))

\* "Run the <eval> function of the module and of all its requested modules.
\* Return a promise": when the bodies settle, so does the promise.
ImportsSettle == \A m \in Mods : (ms.promise[m] = "pending") ~> (ms.promise[m] # "pending")
=============================================================================
