-------------------------- MODULE AsyncGenerators ---------------------------
(***************************************************************************)
(* One object of class AsyncGenerator and its queue of requests            *)
(* (quickjs.c).  Scripts call next, return and throw at any time, also     *)
(* from the body of the generator; the body yields, awaits, returns or     *)
(* throws as it likes.  The record gen holds                               *)
(*   state    JSAsyncGeneratorData.state                                   *)
(*   queue    the requests: an id in order of arrival, and the kind        *)
(*   body     the body runs, inside js_async_generator_resume_next         *)
(*   serves   the request for which the body was resumed, 0 if none        *)
(*   waits    the pairs of reactions that were registered: <<"body", id>>  *)
(*            for an await, <<"return", id>> for the operand of a return   *)
(*   answers  the requests that were answered, in that order               *)
(*   bad      assertions that failed, answers given to another request     *)
(*            (history)                                                    *)
(* An object result with a then of its own, inherited from a prototype     *)
(* that a script changed, is left out: settling a request runs no script.  *)
(***************************************************************************)
EXTENDS Integers, FiniteSets, SequencesExt

CONSTANTS
    MaxRequests,    \* bound: calls of next, return and throw
    MaxAwaits       \* bound: awaits and yields of the body

ASSUME GeneratorAssumption == MaxRequests \in Nat /\ MaxAwaits \in Nat

VARIABLES gen, steps

generatorVars == <<gen, steps>>

RequestId == 1..MaxRequests
RequestKind == {"next", "return", "throw"}

\* js_async_generator_function_call: the body has run up to its initial yield.
GeneratorInit ==
    /\ gen = [state |-> "start", queue |-> <<>>, body |-> FALSE, serves |-> 0, waits |-> {},
              answers |-> <<>>, bad |-> {}, requests |-> 0]
    /\ steps = 0

Expect(a, cond, what) == IF cond THEN a ELSE [a EXCEPT !.bad = @ \cup {what}]

-----------------------------------------------------------------------------
(* Answers.                                                                *)

\* The first request is settled; it should be the one that is being served.
js_async_generator_resolve_or_reject(a, served) ==
    LET b == Expect(a, a.queue # <<>> /\ Head(a.queue).id = served, "answer")
    IN  [b EXCEPT !.answers = Append(@, Head(a.queue).id), !.queue = Tail(@), !.serves = 0]

js_async_generator_complete(a) == [a EXCEPT !.state = "completed"]

\* The operand of return is awaited.
js_async_generator_completed_return(a, id) == [a EXCEPT !.waits = @ \cup {<<"return", id>>}]

\* Serves requests until the body runs (then BodyStops goes on), or nothing can
\* be done.  A return or throw that comes first completes the generator, which
\* the loop then meets in that state.  A generator that is completed serves one
\* request and leaves.
js_async_generator_resume_next(a) ==
    LET r == Head(a.queue)
        b == IF a.state = "start" /\ r.kind # "next" THEN js_async_generator_complete(a) ELSE a
    IN  CASE a.queue = <<>> \/ a.state = "awaiting_return" -> a
          [] a.queue # <<>> /\ b.state \in {"start", "executing", "yield", "yield_star"} ->
                 [a EXCEPT !.state = "executing", !.body = TRUE, !.serves = r.id]
          [] a.queue # <<>> /\ b.state = "completed" ->
                 IF r.kind = "return"
                 THEN js_async_generator_completed_return([b EXCEPT !.state = "awaiting_return"], r.id)
                 ELSE js_async_generator_resolve_or_reject(b, r.id)

-----------------------------------------------------------------------------
(* Steps.                                                                  *)

\* A wrong call: the generator goes on although it executes.
js_async_generator_nextAlways(kind) ==
    /\ gen.requests < MaxRequests
    /\ LET id == gen.requests + 1
           a == [gen EXCEPT !.requests = id, !.queue = Append(@, [id |-> id, kind |-> kind])]
       IN  gen' = js_async_generator_resume_next(a)
    /\ UNCHANGED steps

\* next, return or throw, from the body or from elsewhere.
js_async_generator_next(kind) ==
    /\ gen.requests < MaxRequests
    /\ LET id == gen.requests + 1
           a == [gen EXCEPT !.requests = id, !.queue = Append(@, [id |-> id, kind |-> kind])]
       IN  gen' = IF a.state = "executing" THEN a ELSE js_async_generator_resume_next(a)
    /\ UNCHANGED steps

\* A wrong end of a run: the loop does not go on.
BodyStopsOnce(how) ==
    /\ gen.body
    /\ LET a == [gen EXCEPT !.body = FALSE]
       IN  gen' = CASE how = "await" -> [a EXCEPT !.waits = @ \cup {<<"body", a.serves>>}]
                    [] how \in {"yield", "yield_star"} ->
                           js_async_generator_resolve_or_reject([a EXCEPT !.state = how], a.serves)
                    [] how = "end" ->
                           js_async_generator_resolve_or_reject(js_async_generator_complete(a), a.serves)
    /\ how = "end" \/ steps < MaxAwaits
    /\ steps' = IF how = "end" THEN steps ELSE steps + 1

\* async_func_resume is back: the body stands at a yield or an await, or has
\* ended, with a value or an exception.  The loop of resume_next goes on.
BodyStops(how) ==
    /\ gen.body
    /\ LET a == [gen EXCEPT !.body = FALSE]
       IN  gen' = CASE how = "await" -> [a EXCEPT !.waits = @ \cup {<<"body", a.serves>>}]
                    [] how \in {"yield", "yield_star"} ->
                           js_async_generator_resume_next(
                               js_async_generator_resolve_or_reject([a EXCEPT !.state = how], a.serves))
                    [] how = "end" ->
                           js_async_generator_resume_next(
                               js_async_generator_resolve_or_reject(js_async_generator_complete(a), a.serves))
    /\ how = "end" \/ steps < MaxAwaits
    /\ steps' = IF how = "end" THEN steps ELSE steps + 1

\* A promise that was awaited is settled, and its reaction runs, in a job.
js_async_generator_resolve_function(w) ==
    /\ w \in gen.waits /\ ~ gen.body
    /\ LET a == [gen EXCEPT !.waits = @ \ {w}]
           b == Expect(a, a.state \in {"awaiting_return", "completed"}, "return_state")
           c == Expect(a, a.state = "executing", "not_executing")
       IN  gen' = IF w[1] = "return"
                  THEN js_async_generator_resolve_or_reject([b EXCEPT !.state = "completed"], w[2])
                  ELSE js_async_generator_resume_next(c)
    /\ UNCHANGED steps

GeneratorGoesOn ==
    \/ \E how \in {"await", "yield", "yield_star", "end"} : BodyStops(how)
    \/ \E w \in {"body", "return"} \X RequestId : js_async_generator_resolve_function(w)

GeneratorNext ==
    \/ \E kind \in RequestKind : js_async_generator_next(kind)
    \/ GeneratorGoesOn

GeneratorSpec == GeneratorInit /\ [][GeneratorNext]_generatorVars

-----------------------------------------------------------------------------
(* Properties                                                              *)

JSAsyncGeneratorRequest == [id : RequestId, kind : RequestKind]

JSAsyncGeneratorData ==
    [state : {"start", "yield", "yield_star", "executing", "awaiting_return", "completed"},
     queue : Seq(JSAsyncGeneratorRequest), body : BOOLEAN,
     serves : RequestId \cup {0}, waits : SUBSET ({"body", "return"} \X RequestId),
     answers : Seq(RequestId), bad : SUBSET STRING, requests : RequestId \cup {0}]

\* Shape of the state.
GeneratorTypeOK == gen \in JSAsyncGeneratorData /\ steps \in 0..MaxAwaits

\* The result of a run of the body, or of the operand of a return, goes to the
\* request that started it, though others arrive while the body or the operand
\* is awaited: exactly one thing is to go on with a generator that executes or
\* awaits, and the assertions of js_async_generator_resolve_function hold.
RightRequest ==
    LET conts == Cardinality(gen.waits) + IF gen.body THEN 1 ELSE 0
    IN  /\ gen.bad = {}
        /\ conts = IF gen.state \in {"executing", "awaiting_return"} THEN 1 ELSE 0

Unanswered(id) == id <= gen.requests /\ id \notin ToSet(gen.answers)

\* A request is answered, unless the generator is completed by then: the loop
\* of resume_next leaves after one request in that state, and the end of a
\* return does not call it.
AnsweredUnlessCompleted ==
    \A id \in RequestId : Unanswered(id) ~> (~ Unanswered(id) \/ gen.state = "completed")
=============================================================================
