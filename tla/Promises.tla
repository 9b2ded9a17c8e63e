------------------------------ MODULE Promises ------------------------------
(***************************************************************************)
(* Promises and the job queue of the engine: resolving functions,          *)
(* reactions, thenables, then, Promise.all, allSettled and any, and one    *)
(* async function with await (quickjs.c).                                  *)
(*                                                                         *)
(* A script is a nondeterministic caller: while one runs it may create     *)
(* promises, call any function it holds, with any value, register          *)
(* reactions, and return or throw.  The engine's functions are operators   *)
(* on the record st:                                                       *)
(*   prom   the promises, JSPromiseData: state, result, the two lists of   *)
(*          reactions; to: what the promise was resolved with (history)    *)
(*   pair   the pairs of resolving functions: promise, already_resolved    *)
(*   aggr   the environments of Promise.all and its like                   *)
(*   jobs   rt->job_list                                                   *)
(*   fns    the functions that scripts hold (scripts hold all promises)    *)
(*   regs   the promise of each registered reaction, log the reactions     *)
(*          that ran, again the promises settled twice (history)           *)
(* Values and functions are triples: <<"val", n, 0>>, <<"prom", p, 0>>,    *)
(* <<"thenable", 0, 0>> (an object with a then of its own), <<"throwing",  *)
(* 0, 0>> (whose then is a getter that throws), <<"resolve", pair, 0>>,    *)
(* <<"reject", pair, 0>>, <<"fulfilled", aggr, index>>, <<"rejected", aggr,*)
(* index>>, <<"script", 0, 0>>, <<"resume", 0, 0>>, <<"none", 0, 0>>.      *)
(***************************************************************************)
EXTENDS Integers, FiniteSets, SequencesExt

CONSTANTS
    MaxPromises,    \* bound: promises of one behaviour
    MaxOps,         \* bound: operations of scripts (one call of a combinator among them)
    Kinds,          \* the combinators that scripts call
    Returned        \* bound: the kinds of objects ("prom", "throwing", "thenable") that scripts return

ASSUME PromisesAssumption ==
    MaxPromises \in Nat /\ MaxOps \in Nat /\ Kinds \subseteq {"all", "allSettled", "any"}

VARIABLES st, run, ops

promisesVars == <<st, run, ops>>

Undefined == <<"val", 0, 0>>
Thrown == <<"val", 9, 0>>   \* a TypeError, or what a getter throws
NoHandler == <<"none", 0, 0>>
Script == <<"script", 0, 0>>
Resume == <<"resume", 0, 0>>
Foreign == <<"thenable", 0, 0>>
Settled(p) == st.prom[p].state # "pending"

-----------------------------------------------------------------------------
(* Jobs and reactions.                                                     *)

JS_EnqueueJob(s, job) == [s EXCEPT !.jobs = Append(@, job)]

Reaction(r, rej, arg) == [kind |-> "reaction", id |-> r.id, pair |-> r.pair,
                          handler |-> r.handler, rej |-> rej, arg |-> arg]

\* The jobs of a list of reactions.
Enqueued(list, rej, v) == [k \in DOMAIN list |-> Reaction(list[k], rej, v)]

Settle(d, v, rej) == [d EXCEPT !.state = IF rej THEN "rejected" ELSE "fulfilled",
                               !.result = v, !.reactions = <<<<>>, <<>>>>]

\* A wrong settling: the reactions are taken from the end of the list.
fulfill_or_reject_promiseHead(s, p, v, rej) ==
    LET d == s.prom[p]
        list == d.reactions[IF rej THEN 2 ELSE 1]
    IN  IF d.state # "pending" THEN [s EXCEPT !.again = @ \cup {p}]
        ELSE [s EXCEPT !.prom[p] = Settle(d, v, rej), !.jobs = @ \o Enqueued(Reverse(list), rej, v)]

\* The reactions of the state that was reached become jobs; the others are
\* dropped.
fulfill_or_reject_promise(s, p, v, rej) ==
    LET d == s.prom[p]
        list == d.reactions[IF rej THEN 2 ELSE 1]
    IN  IF d.state # "pending" THEN [s EXCEPT !.again = @ \cup {p}]
        ELSE [s EXCEPT !.prom[p] = Settle(d, v, rej), !.jobs = @ \o Enqueued(list, rej, v)]

NewPromise(s) == [s EXCEPT !.prom = Append(@, [state |-> "pending", result |-> Undefined,
                                               reactions |-> <<<<>>, <<>>>>, to |-> NoHandler])]

\* The pair shares one flag.
js_create_resolving_functions(s, p) == [s EXCEPT !.pair = Append(@, [p |-> p, done |-> FALSE])]

\* A promise and the pair that settles it; both are the last of their kind.
js_new_promise_capability(s) ==
    LET n == NewPromise(s) IN js_create_resolving_functions(n, Len(n.prom))

perform_promise_then(s, p, onF, onR, pair) ==
    LET r(h) == [id |-> Len(s.regs) + 1, pair |-> pair, handler |-> h]
        reg == [s EXCEPT !.regs = Append(@, p)]
        rej == s.prom[p].state = "rejected"
    IN  IF s.prom[p].state = "pending"
        THEN [reg EXCEPT !.prom[p].reactions = <<Append(@[1], r(onF)), Append(@[2], r(onR))>>]
        ELSE JS_EnqueueJob(reg, Reaction(r(IF rej THEN onR ELSE onF), rej, s.prom[p].result))

\* then makes a promise for the result of the handlers.  Where its caller drops
\* that promise at once (the combinators, thenables) nobody can see it, and
\* pair 0 stands for its functions.
js_promise_then(s, p, onF, onR) ==
    LET c == js_new_promise_capability(s)
    IN  perform_promise_then(c, p, onF, onR, Len(c.pair))

js_promise_resolve_function_callFlat(s, i, v, rej) ==
    LET d == s.pair[i]
        s1 == [s EXCEPT !.pair[i].done = TRUE, !.prom[d.p].to = IF rej \/ @[1] = "prom" THEN @ ELSE v]
    IN  IF d.done THEN s
        ELSE IF ~ rej /\ v[1] = "throwing"
             THEN fulfill_or_reject_promise(s1, d.p, Thrown, TRUE)
             ELSE fulfill_or_reject_promise(s1, d.p, v, rej)

js_promise_resolve_function_call(s, i, v, rej) ==
    LET d == s.pair[i]
        s1 == [s EXCEPT !.pair[i].done = TRUE, !.prom[d.p].to = IF rej \/ @[1] = "prom" THEN @ ELSE v]
    IN  IF d.done THEN s
        ELSE IF rej \/ v[1] = "val" THEN fulfill_or_reject_promise(s1, d.p, v, rej)
        ELSE IF v = <<"prom", d.p, 0>> \/ v[1] = "throwing"
             THEN fulfill_or_reject_promise(s1, d.p, Thrown, TRUE)
        ELSE JS_EnqueueJob(s1, [kind |-> "thenable", p |-> d.p, v |-> v])

-----------------------------------------------------------------------------
(* Promise.all, allSettled and any.  aggr[a]: the kind, the pair of the     *)
(* result, what is left to do, and the remaining count.  called holds the   *)
(* element functions that were called: each has an alreadyCalled of its own.*)

js_promise_all_resolve_elementAgain(s, f, v) ==
    LET a == f[2]
        s1 == [s EXCEPT !.aggr[a].called = @ \cup {f}, !.aggr[a].remaining = @ - 1]
        any == s.aggr[a].kind = "any"
    IN  IF s1.aggr[a].remaining # 0 THEN s1
        ELSE js_promise_resolve_function_call(s1, s.aggr[a].pair, Undefined, any)

js_promise_all_resolve_element(s, f, v) ==
    LET a == f[2]
        s1 == [s EXCEPT !.aggr[a].called = @ \cup {f}, !.aggr[a].remaining = @ - 1]
        any == s.aggr[a].kind = "any"
    IN  IF f \in s.aggr[a].called THEN s
        ELSE IF s1.aggr[a].remaining # 0 THEN s1
        ELSE js_promise_resolve_function_call(s1, s.aggr[a].pair, Undefined, any)

\* A call of a function of the engine.
Call(s, f, v) ==
    CASE f[1] = "resolve" -> js_promise_resolve_function_call(s, f[2], v, FALSE)
      [] f[1] = "reject"  -> js_promise_resolve_function_call(s, f[2], v, TRUE)
      [] OTHER            -> js_promise_all_resolve_element(s, f, v)

\* The two functions that Promise.all passes to the then of element i.
ElementFunctions(s, a, i) ==
    LET kind == s.aggr[a].kind
    IN  <<IF kind = "any" THEN <<"resolve", s.aggr[a].pair, 0>> ELSE <<"fulfilled", a, i>>,
          IF kind = "all" THEN <<"reject", s.aggr[a].pair, 0>> ELSE <<"rejected", a, i>>>>

\* The end of the loop gives up the count that the loop itself held.
EndOfLoop(s, a) ==
    LET s1 == [s EXCEPT !.aggr[a].remaining = @ - 1]
    IN  IF s1.aggr[a].remaining # 0 THEN s1
        ELSE js_promise_resolve_function_call(s1, s.aggr[a].pair, Undefined, s.aggr[a].kind = "any")

\* One element; if its then is a script, that script gets the functions.
NextElement(s, a) ==
    LET items == s.aggr[a].items
        i == s.aggr[a].index + 1
        s1 == [s EXCEPT !.aggr[a].index = i, !.aggr[a].remaining = @ + 1]
        f == ElementFunctions(s, a, i)
    IN  IF items[i] = Foreign THEN [s1 EXCEPT !.fns = @ \cup {f[1], f[2]}]
        ELSE perform_promise_then(s1, items[i][2], f[1], f[2], 0)

\* One round of the loop, unless it has ended or has called a script.
LoopRound(r, a) ==
    LET g == r.s.aggr[a]
    IN  IF r.left THEN r
        ELSE IF g.index = Len(g.items) THEN [s |-> EndOfLoop(r.s, a), calls |-> FALSE, left |-> TRUE]
        ELSE LET foreign == g.items[g.index + 1] = Foreign
             IN  [s |-> NextElement(r.s, a), calls |-> foreign, left |-> foreign]

\* js_promise_all up to a then that is a script, or to its end: two elements
\* and the round that finds no other.
js_promise_all(s, a) ==
    LET begin == [s |-> s, calls |-> FALSE, left |-> FALSE]
    IN  LoopRound(LoopRound(LoopRound(begin, a), a), a)

-----------------------------------------------------------------------------
(* Scripts.  run is the stack of scripts under way, the running one first;  *)
(* ops counts what they did.                                                *)

Frame(kind, arg) == [kind |-> kind, arg |-> arg]

\* The async function begins, and has made a promise.
PromisesInit ==
    /\ LET s == [prom |-> <<>>, pair |-> <<>>, aggr |-> <<>>, jobs |-> <<>>, regs |-> <<>>, log |-> <<>>,
                again |-> {}, fns |-> {<<"resolve", 2, 0>>, <<"reject", 2, 0>>}]
       IN  st = js_new_promise_capability(js_new_promise_capability(s))
    /\ run = <<Frame("async", 1)>>
    /\ ops = 0

Step == run # <<>> /\ ops < MaxOps /\ ops' = ops + 1
Room == Len(st.prom) < MaxPromises
One == <<"val", 1, 0>>
Promised == {<<"prom", p, 0>> : p \in DOMAIN st.prom}

\* new Promise and Promise.withResolvers; an executor that throws is a script
\* that calls the second function.
js_promise_withResolvers ==
    /\ Step /\ Room
    /\ LET s == js_new_promise_capability(st)
           i == Len(s.pair)
       IN  st' = [s EXCEPT !.fns = @ \cup {<<"resolve", i, 0>>, <<"reject", i, 0>>}]
    /\ UNCHANGED run

Object == {Foreign, <<"throwing", 0, 0>>} \cup Promised

\* What a function does with an object matters for resolve alone.
Arguments(f) == IF f[1] = "resolve" THEN {One} \cup Object ELSE {One}

CallFunction(f, v) == Step /\ st' = Call(st, f, v) /\ UNCHANGED run

Then(p, onF, onR) == Step /\ Room /\ st' = js_promise_then(st, p, onF, onR) /\ UNCHANGED run

Combine(kind, items) ==
    /\ Step /\ Room /\ st.aggr = <<>>
    /\ LET s == js_new_promise_capability(st)
           g == [kind |-> kind, pair |-> Len(s.pair), items |-> items, index |-> 0,
                 remaining |-> 1, called |-> {}]
           a == Len(s.aggr) + 1
           r == js_promise_all([s EXCEPT !.aggr = Append(@, g)], a)
       IN  /\ st' = r.s
           /\ run' = IF r.calls THEN <<Frame("element", a)>> \o run ELSE run

\* The async function stops at an await, js_async_function_resume.
Await(p) ==
    /\ Step /\ Len(run) = 1 /\ run[1].kind = "async"
    /\ st' = perform_promise_then(st, p, Resume, Resume, 0)
    /\ run' = <<>>

Finish(s, pair, v, rej) == IF pair = 0 THEN s ELSE js_promise_resolve_function_call(s, pair, v, rej)

\* A script returns v, or throws it.  A promise or thenable that
\* is returned gets adopted; it counts as an operation of the script.
Return(v, rej) ==
    /\ run # <<>>
    /\ LET f == run[1]
           r == js_promise_all(st, f.arg)
           fails == js_promise_resolve_function_call(st, st.aggr[f.arg].pair, v, TRUE)
       IN  CASE f.kind \in {"async", "handler"} ->
                    st' = Finish(st, f.arg, v, rej) /\ run' = Tail(run)
             [] f.kind = "then" ->
                    /\ st' = IF rej THEN Finish(st, f.arg, v, TRUE) ELSE st
                    /\ run' = Tail(run)
             [] f.kind = "element" ->
                    IF rej THEN st' = fails /\ run' = Tail(run)
                    ELSE st' = r.s /\ run' = IF r.calls THEN run ELSE Tail(run)

Returns == (Return(One, FALSE) \/ Return(One, TRUE)) /\ UNCHANGED ops

ReturnsObject(v) ==
    /\ Step /\ run[1].kind \in {"async", "handler"} /\ v[1] \in Returned
    /\ Return(v, FALSE)

\* The first job; the handlers of scripts run on their own.
promise_reaction_job(s, j) ==
    /\ j.kind = "reaction"
    /\ LET logged == [s EXCEPT !.log = Append(@, j.id)]
       IN  CASE j.handler = Script -> st' = logged /\ run' = <<Frame("handler", j.pair)>>
             [] j.handler = Resume -> st' = logged /\ run' = <<Frame("async", 1)>>
             [] j.handler = NoHandler   -> st' = Finish(logged, j.pair, j.arg, j.rej) /\ run' = run
             [] OTHER -> st' = Finish(Call(logged, j.handler, j.arg), j.pair, Undefined, FALSE) /\ run' = run

js_promise_resolve_thenable_jobReused(s, j) ==
    /\ j.kind = "thenable"
    /\ LET i == CHOOSE k \in DOMAIN s.pair : s.pair[k].p = j.p
           f == <<"resolve", i, 0>>
           g == <<"reject", i, 0>>
       IN  IF j.v = Foreign
           THEN st' = [s EXCEPT !.fns = @ \cup {f, g}] /\ run' = <<Frame("then", i)>>
           ELSE st' = perform_promise_then(s, j.v[2], f, g, 0) /\ run' = run

\* The promise gets a fresh pair, because the one that was used is spent.
js_promise_resolve_thenable_job(s, j) ==
    /\ j.kind = "thenable"
    /\ LET s1 == js_create_resolving_functions(s, j.p)
           i == Len(s1.pair)
           f == <<"resolve", i, 0>>
           g == <<"reject", i, 0>>
       IN  IF j.v = Foreign
           THEN st' = [s1 EXCEPT !.fns = @ \cup {f, g}] /\ run' = <<Frame("then", i)>>
           ELSE st' = perform_promise_then(s1, j.v[2], f, g, 0) /\ run' = run

JS_ExecutePendingJob ==
    /\ run = <<>> /\ st.jobs # <<>>
    /\ LET s == [st EXCEPT !.jobs = Tail(@)]
           j == Head(st.jobs)
       IN  promise_reaction_job(s, j) \/ js_promise_resolve_thenable_job(s, j)
    /\ UNCHANGED ops

PromisesNext ==
    \/ js_promise_withResolvers
    \/ \E f \in st.fns : \E v \in Arguments(f) : CallFunction(f, v)
    \/ \E p \in DOMAIN st.prom, onF \in {NoHandler, Script}, onR \in {NoHandler, Script} : Then(p, onF, onR)
    \/ \E kind \in Kinds, x, y \in {Foreign} \cup Promised : Combine(kind, <<x, y>>)
    \/ \E p \in DOMAIN st.prom : Await(p)
    \/ Returns
    \/ \E v \in Object : ReturnsObject(v)
    \/ JS_ExecutePendingJob

PromisesSpec == PromisesInit /\ [][PromisesNext]_promisesVars

-----------------------------------------------------------------------------
(* Properties                                                              *)

States == {"pending", "fulfilled", "rejected"}
Triples == {"val", "prom", "thenable", "throwing", "none", "script", "resume", "resolve", "reject",
            "fulfilled", "rejected"} \X Nat \X Nat

JSPromiseReactionData == [id : Nat, pair : Nat, handler : Triples]
JSPromiseData ==
    [state : States, result : Triples, to : Triples,
     reactions : Seq(JSPromiseReactionData) \X Seq(JSPromiseReactionData)]
JSPromiseFunctionDataResolved == [p : Nat, done : BOOLEAN]
Aggregate == [kind : Kinds, pair : Nat, items : Seq(Triples), index : Nat, remaining : Int,
              called : SUBSET Triples]
ReactionJob == [kind : {"reaction"}, id : Nat, pair : Nat, handler : Triples, rej : BOOLEAN,
                arg : Triples]
ThenableJob == [kind : {"thenable"}, p : Nat, v : Triples]
PromiseJob == ReactionJob \cup ThenableJob

PromiseState ==
    [prom : Seq(JSPromiseData), pair : Seq(JSPromiseFunctionDataResolved), aggr : Seq(Aggregate),
     jobs : Seq(PromiseJob), fns : SUBSET Triples, regs : Seq(Nat),
     log : Seq(Nat), again : SUBSET Nat]

\* Shape of the state.
PromisesTypeOK ==
    /\ st \in PromiseState
    /\ \A i \in DOMAIN st.pair : st.pair[i].p \in DOMAIN st.prom
    /\ \A i \in DOMAIN st.regs : st.regs[i] \in DOMAIN st.prom
    /\ run \in Seq([kind : {"async", "handler", "then", "element"}, arg : Nat])
    /\ ops \in 0..MaxOps

InList(id, p, i) == \E r \in ToSet(st.prom[p].reactions[i]) : r.id = id
Copies(id) == Cardinality({k \in DOMAIN st.jobs : st.jobs[k].kind = "reaction" /\ st.jobs[k].id = id})
              + Cardinality({k \in DOMAIN st.log : st.log[k] = id})

\* A promise is settled once, however often scripts call the functions they
\* were given: one pair acts once, and a promise has one pair that is still to
\* act, so that fulfill_or_reject_promise never meets the case that its comment
\* calls "should never happen".  A reaction waits in both lists of its promise,
\* or is one job, or ran once: whichever of perform_promise_then and
\* fulfill_or_reject_promise comes first, none is lost or repeated.  The
\* reactions of one promise run in the order of the calls of then.
ReactionsOnce ==
    /\ st.again = {}
    /\ \A p \in DOMAIN st.prom :
          Cardinality({i \in DOMAIN st.pair : st.pair[i].p = p /\ ~ st.pair[i].done}) <= 1
    /\ \A id \in DOMAIN st.regs :
          LET p == st.regs[id]
          IN  IF Settled(p) THEN Copies(id) = 1 /\ ~ InList(id, p, 1) /\ ~ InList(id, p, 2)
              ELSE Copies(id) = 0 /\ InList(id, p, 1) /\ InList(id, p, 2)
    /\ \A i, k \in DOMAIN st.log : i < k /\ st.regs[st.log[i]] = st.regs[st.log[k]] => st.log[i] < st.log[k]

\* A promise that was resolved with another one ends as that one did, and never
\* before; a promise is never fulfilled with something that has a then.
Adoption ==
    \A p \in DOMAIN st.prom : Settled(p) =>
        LET d == st.prom[p]
        IN  /\ d.state = "fulfilled" => d.result[1] = "val"
            /\ d.to[1] = "prom" /\ d.to[2] # p =>
                  LET q == st.prom[d.to[2]] IN q.state = d.state /\ q.result = d.result
            /\ d.to = <<"prom", p, 0>> => d.state = "rejected"

\* The element functions of a pair count as one element, except that those of
\* allSettled have separate alreadyCalled flags and may both be called by a
\* foreign then.
CalledTwice(g, a) == \E i \in DOMAIN g.items : {<<"fulfilled", a, i>>, <<"rejected", a, i>>} \subseteq g.called
ByCount(g) == IF g.kind = "any" THEN "rejected" ELSE "fulfilled"

\* Promise.all and allSettled fulfil, and any rejects, after every element has
\* reported, and not while the loop is still handing out functions; the count
\* is exact until then.
AllReported ==
    \A a \in DOMAIN st.aggr :
        LET g == st.aggr[a]
            p == st.pair[g.pair].p
            looping == \E k \in DOMAIN run : run[k] = Frame("element", a)
        IN  /\ st.prom[p].state = ByCount(g) /\ st.prom[p].result = Undefined =>
                  \/ g.index = Len(g.items) /\ Cardinality(g.called) = Len(g.items)
                  \/ CalledTwice(g, a)
            /\ looping => g.remaining = 1 + g.index - Cardinality(g.called)

Adopting(p) ==
    /\ p \in DOMAIN st.prom /\ ~ Settled(p)
    /\ st.prom[p].to[1] = "prom" /\ Settled(st.prom[p].to[2])

\* A promise that was resolved with a promise which is settled by now gets
\* settled too, because the jobs in between are all run: unless the promise of
\* the async function (promise 1) is settled before, when js_std_await, which
\* waits for that one, stops running jobs.
AdoptedSettles == \A p \in 1..MaxPromises : Adopting(p) ~> (~ Adopting(p) \/ Settled(1))
=============================================================================
