----------------------- MODULE AsyncGeneratorsProofs ------------------------
(***************************************************************************)
(* Proofs about AsyncGenerators for every number of requests and awaits.   *)
(*                                                                         *)
(* RightRequest says that what a run of the body, or the operand of a      *)
(* return, produces goes to the request it was started for.  The code only *)
(* ever settles the first request of the queue, so the invariant has to    *)
(* tell that the run was started for that one and that nothing removes it  *)
(* from the front meanwhile (Serving).  Requests are numbered as they      *)
(* arrive; InOrder is what makes the queue a queue.                        *)
(***************************************************************************)
EXTENDS AsyncGenerators, FiniteSetTheorems, TLAPS

\* Requests are answered in the order in which they arrived.
InOrder(a) ==
  /\ a.requests = Len(a.answers) + Len(a.queue)
  /\ \A i \in 1 .. Len(a.answers) : a.answers[i] = i
  /\ \A i \in 1 .. Len(a.queue) : a.queue[i].id = Len(a.answers) + i

\* Nothing is to go on.
Idle(a) == ~ a.body /\ a.waits = {}

\* The body runs or awaits for the first request.
Executing(a) ==
  /\ a.queue # <<>> /\ a.serves = a.queue[1].id
  /\ a.waits = IF a.body THEN {} ELSE {<<"body", a.queue[1].id>>}

\* The operand of the first request, a return, is awaited.
Returning(a) ==
  /\ a.queue # <<>> /\ ~ a.body
  /\ a.waits = {<<"return", a.queue[1].id>>}

Serving(a) ==
  /\ a.state = "executing" => Executing(a)
  /\ a.state = "awaiting_return" => Returning(a)
  /\ a.state \notin {"executing", "awaiting_return"} => Idle(a)

Good(a) == a \in JSAsyncGeneratorData /\ a.bad = {} /\ InOrder(a)

Inv == Good(gen) /\ Serving(gen) /\ steps \in 0 .. MaxAwaits

-----------------------------------------------------------------------------
\* One more answer and one request less, and one request more.
LEMMA Moved ==
  /\ \A m, n \in Nat : n # 0 => m + n = (m + 1) + (n - 1)
  /\ \A m, n \in Nat : m + (n + 1) = (m + 1) + n
  /\ \A m, n \in Nat : (m + n) + 1 = m + (n + 1)
OBVIOUS

\* The first request of a queue.
LEMMA FirstRequest ==
  ASSUME NEW a, a \in JSAsyncGeneratorData, a.queue # <<>>
  PROVE  /\ Head(a.queue) = a.queue[1]
         /\ a.queue[1] \in JSAsyncGeneratorRequest
         /\ a.queue[1].id \in RequestId /\ a.queue[1].kind \in RequestKind
         /\ Len(a.queue) \in Nat \ {0}
<1>1. a.queue \in Seq(JSAsyncGeneratorRequest)
  BY DEF JSAsyncGeneratorData
<1>2. Head(a.queue) = a.queue[1] /\ Len(a.queue) \in Nat \ {0}
  BY <1>1
<1>3. a.queue[1] \in JSAsyncGeneratorRequest
  BY <1>1, <1>2
<1>. QED  BY <1>2, <1>3 DEF JSAsyncGeneratorRequest

\* The first request is settled.
LEMMA AnswerFirst ==
  ASSUME NEW a, Good(a), a.queue # <<>>,
         NEW b, b = js_async_generator_resolve_or_reject(a, a.queue[1].id)
  PROVE  Good(b) /\ b.state = a.state /\ b.body = a.body /\ b.waits = a.waits
<1> DEFINE id == a.queue[1].id
<1>1. a \in JSAsyncGeneratorData /\ a.bad = {} /\ InOrder(a)
  BY DEF Good
<1>2. Head(a.queue) = a.queue[1] /\ id \in RequestId /\ Len(a.queue) \in Nat \ {0}
  BY <1>1, FirstRequest
<1>3. b = [a EXCEPT !.answers = Append(a.answers, id), !.queue = Tail(a.queue), !.serves = 0]
  BY <1>2 DEF js_async_generator_resolve_or_reject, Expect
<1>4. /\ a.queue \in Seq(JSAsyncGeneratorRequest)
      /\ a.answers \in Seq(RequestId)
  BY <1>1 DEF JSAsyncGeneratorData
<1>5. /\ Tail(a.queue) \in Seq(JSAsyncGeneratorRequest)
      /\ Append(a.answers, id) \in Seq(RequestId)
  BY <1>2, <1>4
<1> HIDE DEF id
<1>6. /\ b \in JSAsyncGeneratorData
      /\ b.answers = Append(a.answers, id) /\ b.queue = Tail(a.queue)
      /\ b.state = a.state /\ b.body = a.body /\ b.waits = a.waits /\ b.bad = a.bad
      /\ b.requests = a.requests
  BY <1>1, <1>3, <1>5 DEF JSAsyncGeneratorData
<1>7. id = Len(a.answers) + 1
  BY <1>1, <1>2, <1>4 DEF InOrder, id
<1>8. InOrder(b)
  <2>1. Len(b.answers) = Len(a.answers) + 1 /\ Len(b.queue) = Len(a.queue) - 1
    BY <1>2, <1>4, <1>6
  <2>2. \A i \in 1 .. Len(b.answers) : b.answers[i] = i
    BY <1>1, <1>2, <1>4, <1>6, <1>7, <2>1 DEF InOrder
  <2>3. \A i \in 1 .. Len(b.queue) : b.queue[i] = a.queue[i + 1]
    BY <1>2, <1>4, <1>6, <2>1
  <2>4. ASSUME NEW i \in 1 .. Len(b.queue) PROVE b.queue[i].id = Len(b.answers) + i
    <3>1. i + 1 \in 1 .. Len(a.queue) /\ i \in Nat /\ Len(a.answers) \in Nat
      BY <1>2, <1>4, <2>1
    <3>2. a.queue[i + 1].id = Len(a.answers) + (i + 1)
      BY <1>1, <3>1 DEF InOrder
    <3>3. b.queue[i].id = Len(a.answers) + (i + 1)
      BY <2>3, <3>2
    <3>4. Len(a.answers) + (i + 1) = (Len(a.answers) + 1) + i
      BY ONLY <3>1, Moved, Zenon
    <3>. QED  BY ONLY <2>1, <3>3, <3>4, Zenon
  <2>5. b.requests = Len(b.answers) + Len(b.queue)
    <3>1. a.requests = Len(a.answers) + Len(a.queue) /\ Len(a.answers) \in Nat
      BY <1>1, <1>4 DEF InOrder
    <3>2. b.requests = a.requests /\ Len(a.queue) \in Nat /\ Len(a.queue) # 0
      BY <1>2, <1>6
    <3>3. Len(a.answers) + Len(a.queue) = (Len(a.answers) + 1) + (Len(a.queue) - 1)
      BY ONLY <3>1, <3>2, Moved, Zenon
    <3>. QED  BY ONLY <2>1, <3>1, <3>2, <3>3, Zenon
  <2>. QED  BY <2>2, <2>4, <2>5 DEF InOrder
<1>. QED  BY <1>1, <1>6, <1>8 DEF Good

\* resume_next, called when nothing is to go on: it serves the first request, if
\* there is one, and leaves one thing to go on, or nothing.
LEMMA ResumeServes ==
  ASSUME NEW a, Good(a), Idle(a), a.state # "awaiting_return",
         a.state = "executing" => a.queue # <<>>,
         NEW b, b = js_async_generator_resume_next(a)
  PROVE  Good(b) /\ Serving(b)
<1> DEFINE r == a.queue[1]
<1>1. a \in JSAsyncGeneratorData /\ a.bad = {} /\ InOrder(a)
  BY DEF Good
<1>2. CASE a.queue = <<>>
  <2>1. b = a
    BY <1>2 DEF js_async_generator_resume_next
  <2>. QED  BY <1>2, <2>1 DEF Serving
<1>3. CASE a.queue # <<>>
  <2>1. Head(a.queue) = r /\ r.id \in RequestId /\ r.kind \in RequestKind
    BY <1>1, <1>3, FirstRequest
  <2>2. CASE a.state \in {"executing", "yield", "yield_star"} \/ (a.state = "start" /\ r.kind = "next")
    <3>1. b = [a EXCEPT !.state = "executing", !.body = TRUE, !.serves = r.id]
      BY <1>3, <2>1, <2>2 DEF js_async_generator_resume_next
    <3>2. /\ b \in JSAsyncGeneratorData
          /\ b.state = "executing" /\ b.body /\ b.serves = r.id
          /\ b.queue = a.queue /\ b.waits = a.waits /\ b.answers = a.answers /\ b.bad = a.bad
          /\ b.requests = a.requests
      BY <1>1, <2>1, <3>1 DEF JSAsyncGeneratorData
    <3>3. Good(b)
      BY <1>1, <3>2 DEF Good, InOrder
    <3>4. Serving(b)
      BY <1>3, <3>2 DEF Serving, Executing, Idle
    <3>. QED  BY <3>3, <3>4
  <2>3. CASE a.state = "completed" \/ (a.state = "start" /\ r.kind # "next")
    <3> DEFINE c == IF a.state = "start" THEN js_async_generator_complete(a) ELSE a
    <3>1. /\ c \in JSAsyncGeneratorData /\ c.state = "completed"
          /\ c.body = a.body /\ c.serves = a.serves /\ c.queue = a.queue /\ c.waits = a.waits
          /\ c.answers = a.answers /\ c.bad = a.bad /\ c.requests = a.requests
      BY <1>1, <2>3 DEF js_async_generator_complete, JSAsyncGeneratorData
    <3>2. b = IF r.kind = "return"
              THEN js_async_generator_completed_return([c EXCEPT !.state = "awaiting_return"], r.id)
              ELSE js_async_generator_resolve_or_reject(c, r.id)
      <4>1. CASE a.state = "start"
        BY <1>3, <2>1, <2>3, <3>1, <4>1 DEF js_async_generator_resume_next
      <4>2. CASE a.state = "completed"
        BY <1>3, <2>1, <4>2 DEF js_async_generator_resume_next
      <4>. QED  BY <2>3, <4>1, <4>2
    <3> HIDE DEF c
    <3>3. Good(c)
      BY <1>1, <3>1 DEF Good, InOrder
    <3>4. CASE r.kind = "return"
      <4>1. PICK d : d = [c EXCEPT !.state = "awaiting_return"]
        OBVIOUS
      <4>2. /\ d \in JSAsyncGeneratorData /\ d.state = "awaiting_return"
            /\ d.body = a.body /\ d.serves = a.serves /\ d.queue = a.queue /\ d.waits = a.waits
            /\ d.answers = a.answers /\ d.bad = a.bad /\ d.requests = a.requests
        BY <3>1, <4>1 DEF JSAsyncGeneratorData
      <4>3. b = [d EXCEPT !.waits = d.waits \cup {<<"return", r.id>>}]
        BY <3>2, <3>4, <4>1 DEF js_async_generator_completed_return
      <4>4. d.waits \cup {<<"return", r.id>>} \in SUBSET ({"body", "return"} \X RequestId)
        BY <2>1, <4>2 DEF Idle
      <4>5. /\ b \in JSAsyncGeneratorData /\ b.state = "awaiting_return"
            /\ b.body = a.body /\ b.queue = a.queue
            /\ b.waits = a.waits \cup {<<"return", r.id>>}
            /\ b.answers = a.answers /\ b.bad = a.bad /\ b.requests = a.requests
        BY <4>2, <4>3, <4>4 DEF JSAsyncGeneratorData
      <4>6. Good(b)
        BY <1>1, <4>5 DEF Good, InOrder
      <4>7. Serving(b)
        BY <1>3, <4>5 DEF Serving, Returning, Idle
      <4>. QED  BY <4>6, <4>7
    <3>5. CASE r.kind # "return"
      <4>1. b = js_async_generator_resolve_or_reject(c, c.queue[1].id)
        BY <3>1, <3>2, <3>5
      <4>2. Good(b) /\ b.state = c.state /\ b.body = c.body /\ b.waits = c.waits
        BY <1>3, <3>1, <3>3, <4>1, AnswerFirst
      <4>3. Serving(b)
        BY <3>1, <4>2 DEF Serving, Idle
      <4>. QED  BY <4>2, <4>3
    <3>. QED  BY <3>4, <3>5
  <2>4. a.state \in {"start", "yield", "yield_star", "executing", "awaiting_return", "completed"}
    BY <1>1 DEF JSAsyncGeneratorData
  <2>. QED  BY <2>2, <2>3, <2>4
<1>. QED  BY <1>2, <1>3

-----------------------------------------------------------------------------
\* A request joins the queue behind the others.
LEMMA CallInv ==
  ASSUME Inv, NEW kind \in RequestKind, js_async_generator_next(kind)
  PROVE  Inv'
<1> DEFINE id == gen.requests + 1
           q == Append(gen.queue, [id |-> id, kind |-> kind])
           a == [gen EXCEPT !.requests = id, !.queue = q]
<1>1. gen \in JSAsyncGeneratorData /\ gen.bad = {} /\ InOrder(gen) /\ Serving(gen)
  BY DEF Inv, Good
<1>2. gen.requests \in Nat /\ id \in RequestId
  <2>1. gen.requests \in RequestId \cup {0}
    BY <1>1 DEF JSAsyncGeneratorData
  <2>2. gen.requests < MaxRequests
    BY DEF js_async_generator_next
  <2>. QED  BY <2>1, <2>2, GeneratorAssumption DEF RequestId
<1>3. [id |-> id, kind |-> kind] \in JSAsyncGeneratorRequest
  BY <1>2 DEF JSAsyncGeneratorRequest
<1>4. /\ gen.queue \in Seq(JSAsyncGeneratorRequest)
      /\ gen.answers \in Seq(RequestId)
  BY <1>1 DEF JSAsyncGeneratorData
<1>5. q \in Seq(JSAsyncGeneratorRequest)
  BY <1>3, <1>4
<1>6. gen' = IF a.state = "executing" THEN a ELSE js_async_generator_resume_next(a)
  BY DEF js_async_generator_next
<1>7. /\ Len(q) = Len(gen.queue) + 1 /\ Len(gen.queue) \in Nat /\ Len(gen.answers) \in Nat
      /\ \A i \in 1 .. Len(gen.queue) : q[i] = gen.queue[i]
      /\ q[Len(q)].id = id /\ q # <<>>
  BY <1>3, <1>4
<1> HIDE DEF q
<1>8. /\ a \in JSAsyncGeneratorData
      /\ a.requests = id /\ a.queue = q
      /\ a.state = gen.state /\ a.body = gen.body /\ a.serves = gen.serves
      /\ a.waits = gen.waits /\ a.answers = gen.answers /\ a.bad = gen.bad
  BY <1>1, <1>2, <1>5 DEF JSAsyncGeneratorData
<1> HIDE DEF a
<1>9. InOrder(a)
  <2>1. gen.requests = Len(gen.answers) + Len(gen.queue)
    BY <1>1 DEF InOrder
  <2>2. a.requests = Len(a.answers) + Len(a.queue)
    <3>1. /\ a.requests = gen.requests + 1 /\ a.answers = gen.answers
          /\ Len(a.queue) = Len(gen.queue) + 1
      BY <1>7, <1>8
    <3>2. Len(gen.queue) \in Nat /\ Len(gen.answers) \in Nat
      BY <1>7
    <3>3. (Len(gen.answers) + Len(gen.queue)) + 1 = Len(gen.answers) + (Len(gen.queue) + 1)
      BY ONLY <3>2, Moved, Zenon
    <3>. QED  BY ONLY <2>1, <3>1, <3>3, Zenon
  <2>3. \A i \in 1 .. Len(a.answers) : a.answers[i] = i
    BY <1>1, <1>8 DEF InOrder
  <2>4. ASSUME NEW i \in 1 .. Len(a.queue) PROVE a.queue[i].id = Len(a.answers) + i
    <3>1. CASE i \in 1 .. Len(gen.queue)
      <4>1. gen.queue[i].id = Len(gen.answers) + i
        BY <1>1, <3>1 DEF InOrder
      <4>. QED  BY <1>7, <1>8, <3>1, <4>1
    <3>2. CASE i = Len(gen.queue) + 1
      <4>1. a.queue[i].id = gen.requests + 1 /\ a.answers = gen.answers
        BY <1>7, <1>8, <3>2
      <4>2. Len(gen.queue) \in Nat /\ Len(gen.answers) \in Nat
        BY <1>7
      <4>3. (Len(gen.answers) + Len(gen.queue)) + 1 = Len(gen.answers) + (Len(gen.queue) + 1)
        BY ONLY <4>2, Moved, Zenon
      <4>. QED  BY ONLY <2>1, <3>2, <4>1, <4>3, Zenon
    <3>. QED  BY <1>7, <1>8, <3>1, <3>2
  <2>. QED  BY <2>2, <2>3, <2>4 DEF InOrder
<1>10. Good(a)
  BY <1>1, <1>8, <1>9 DEF Good
<1>11. gen.queue # <<>> => a.queue[1] = gen.queue[1]
  BY <1>4, <1>7, <1>8
<1>12. Good(gen') /\ Serving(gen')
  <2>1. CASE gen.state = "executing"
    <3>1. gen' = a
      BY <1>6, <1>8, <2>1
    <3>2. Serving(a)
      BY <1>1, <1>7, <1>8, <1>11, <2>1 DEF Serving, Executing
    <3>. QED  BY <1>10, <3>1, <3>2
  <2>2. CASE gen.state = "awaiting_return"
    <3>1. gen' = a
      BY <1>6, <1>8, <2>2 DEF js_async_generator_resume_next
    <3>2. Serving(a)
      BY <1>1, <1>7, <1>8, <1>11, <2>2 DEF Serving, Returning
    <3>. QED  BY <1>10, <3>1, <3>2
  <2>3. CASE gen.state \notin {"executing", "awaiting_return"}
    <3>1. Idle(a) /\ gen' = js_async_generator_resume_next(a)
      BY <1>1, <1>6, <1>8, <2>3 DEF Serving, Idle
    <3>. QED  BY <1>8, <1>10, <2>3, <3>1, ResumeServes
  <2>. QED  BY <2>1, <2>2, <2>3
<1>13. (Good(gen) /\ Serving(gen))'
  BY <1>12 DEF Good, Serving, InOrder, Executing, Returning, Idle
<1>14. steps' = steps
  BY DEF js_async_generator_next
<1>. QED  BY <1>13, <1>14 DEF Inv

\* The body stands at a yield or an await, or has ended: only the first request
\* is settled, and the body was resumed for it.
LEMMA BodyInv ==
  ASSUME Inv, NEW how \in {"await", "yield", "yield_star", "end"}, BodyStops(how)
  PROVE  Inv'
<1> DEFINE r == gen.queue[1]
           a == [gen EXCEPT !.body = FALSE]
<1>1. gen \in JSAsyncGeneratorData /\ gen.bad = {} /\ InOrder(gen) /\ Serving(gen)
  BY DEF Inv, Good
<1>2. gen.body /\ gen.state = "executing" /\ Executing(gen)
  BY <1>1 DEF BodyStops, Serving, Returning, Idle, JSAsyncGeneratorData
<1>3. gen.queue # <<>> /\ gen.serves = r.id /\ gen.waits = {}
  BY <1>2 DEF Executing
<1>4. r.id \in RequestId
  BY <1>1, <1>3, FirstRequest
<1>5. /\ a \in JSAsyncGeneratorData /\ a.body = FALSE /\ a.serves = r.id
      /\ a.state = gen.state /\ a.queue = gen.queue /\ a.waits = gen.waits
      /\ a.answers = gen.answers /\ a.bad = gen.bad /\ a.requests = gen.requests
  BY <1>1, <1>3 DEF JSAsyncGeneratorData
<1>6. Good(gen') /\ Serving(gen')
  <2>1. CASE how = "await"
    <3>1. gen' = [a EXCEPT !.waits = a.waits \cup {<<"body", a.serves>>}]
      BY <2>1 DEF BodyStops
    <3>2. <<"body", r.id>> \in {"body", "return"} \X RequestId
      BY <1>4
    <3> HIDE DEF a
    <3>3. /\ gen' \in JSAsyncGeneratorData /\ gen'.waits = {<<"body", r.id>>}
          /\ gen'.body = FALSE /\ gen'.serves = r.id
          /\ gen'.state = gen.state /\ gen'.queue = gen.queue
          /\ gen'.answers = gen.answers /\ gen'.bad = gen.bad /\ gen'.requests = gen.requests
      BY <1>3, <1>5, <3>1, <3>2 DEF JSAsyncGeneratorData
    <3>4. Good(gen')
      BY <1>1, <3>3 DEF Good, InOrder
    <3>5. Serving(gen')
      BY <1>2, <1>3, <3>3 DEF Serving, Executing
    <3>. QED  BY <3>4, <3>5
  <2>2. CASE how # "await"
    <3> DEFINE s == IF how = "end" THEN "completed" ELSE how
               c == [a EXCEPT !.state = s]
               b == js_async_generator_resolve_or_reject(c, r.id)
    <3>1. gen' = js_async_generator_resume_next(js_async_generator_resolve_or_reject(c, a.serves))
      BY <2>2 DEF BodyStops, js_async_generator_complete
    <3> HIDE DEF a
    <3>2. /\ c \in JSAsyncGeneratorData /\ c.state = s /\ c.body = FALSE
          /\ c.queue = gen.queue /\ c.waits = gen.waits
          /\ c.answers = gen.answers /\ c.bad = gen.bad /\ c.requests = gen.requests
      BY <1>5, <2>2 DEF JSAsyncGeneratorData
    <3> HIDE DEF c
    <3>3. Good(c)
      BY <1>1, <3>2 DEF Good, InOrder
    <3>4. b = js_async_generator_resolve_or_reject(c, c.queue[1].id)
      BY <3>2
    <3>5. Good(b) /\ b.state = s /\ b.body = FALSE /\ b.waits = {}
      BY <1>3, <3>2, <3>3, <3>4, AnswerFirst
    <3>6. gen' = js_async_generator_resume_next(b)
      BY <1>5, <3>1
    <3> HIDE DEF b
    <3>7. Idle(b) /\ b.state \notin {"executing", "awaiting_return"}
      BY <2>2, <3>5 DEF Idle
    <3>. QED  BY <3>5, <3>6, <3>7, ResumeServes
  <2>. QED  BY <2>1, <2>2
<1>7. (Good(gen) /\ Serving(gen))'
  BY <1>6 DEF Good, Serving, InOrder, Executing, Returning, Idle
<1>8. steps' \in 0 .. MaxAwaits
  <2>1. steps' = steps \/ (steps < MaxAwaits /\ steps' = steps + 1)
    BY DEF BodyStops
  <2>2. steps \in 0 .. MaxAwaits
    BY DEF Inv
  <2>. QED  BY <2>1, <2>2, GeneratorAssumption
<1>. QED  BY <1>7, <1>8 DEF Inv

\* What was awaited is settled.
LEMMA ReactionInv ==
  ASSUME Inv, NEW w \in {"body", "return"} \X RequestId, js_async_generator_resolve_function(w)
  PROVE  Inv'
<1> DEFINE r == gen.queue[1]
           a == [gen EXCEPT !.waits = gen.waits \ {w}]
<1>1. gen \in JSAsyncGeneratorData /\ gen.bad = {} /\ InOrder(gen) /\ Serving(gen)
  BY DEF Inv, Good
<1>2. w \in gen.waits /\ ~ gen.body
  BY DEF js_async_generator_resolve_function
<1>3. /\ gen.queue # <<>> /\ gen.waits = {w} /\ w[2] = r.id
      /\ \/ w[1] = "body" /\ gen.state = "executing"
         \/ w[1] = "return" /\ gen.state = "awaiting_return"
  <2>1. CASE gen.state = "executing"
    BY <1>1, <1>2, <2>1 DEF Serving, Executing
  <2>2. CASE gen.state = "awaiting_return"
    BY <1>1, <1>2, <2>2 DEF Serving, Returning
  <2>. QED  BY <1>1, <1>2, <2>1, <2>2 DEF Serving, Idle
<1>4. /\ a \in JSAsyncGeneratorData /\ a.waits = {} /\ a.body = gen.body
      /\ a.state = gen.state /\ a.queue = gen.queue
      /\ a.answers = gen.answers /\ a.bad = gen.bad /\ a.requests = gen.requests
  BY <1>1, <1>3 DEF JSAsyncGeneratorData
<1>5. Good(a)
  BY <1>1, <1>4 DEF Good, InOrder
<1>6. Good(gen') /\ Serving(gen')
  <2>1. CASE w[1] = "body"
    <3>1. a.state = "executing"
      BY <1>3, <1>4, <2>1
    <3>2. gen' = js_async_generator_resume_next(a)
      BY <2>1, <3>1 DEF js_async_generator_resolve_function, Expect
    <3> HIDE DEF a
    <3>3. Idle(a) /\ a.queue # <<>>
      BY <1>2, <1>3, <1>4 DEF Idle
    <3>. QED  BY <1>5, <3>1, <3>2, <3>3, ResumeServes
  <2>2. CASE w[1] = "return"
    <3> DEFINE c == [a EXCEPT !.state = "completed"]
    <3>1. a.state = "awaiting_return"
      BY <1>3, <1>4, <2>2
    <3>2. gen' = js_async_generator_resolve_or_reject(c, w[2])
      BY <2>2, <3>1 DEF js_async_generator_resolve_function, Expect
    <3> HIDE DEF a
    <3>3. /\ c \in JSAsyncGeneratorData /\ c.state = "completed" /\ c.waits = {} /\ c.body = gen.body
          /\ c.queue = gen.queue /\ c.answers = gen.answers /\ c.bad = gen.bad
          /\ c.requests = gen.requests
      BY <1>4 DEF JSAsyncGeneratorData
    <3> HIDE DEF c
    <3>4. Good(c)
      BY <1>1, <3>3 DEF Good, InOrder
    <3>5. gen' = js_async_generator_resolve_or_reject(c, c.queue[1].id)
      BY <1>3, <3>2, <3>3
    <3>6. Good(gen') /\ gen'.state = c.state /\ gen'.body = c.body /\ gen'.waits = c.waits
      BY <1>3, <3>3, <3>4, <3>5, AnswerFirst
    <3>7. Serving(gen')
      BY <1>2, <3>3, <3>6 DEF Serving, Idle
    <3>. QED  BY <3>6, <3>7
  <2>. QED  BY <1>3, <2>1, <2>2
<1>7. (Good(gen) /\ Serving(gen))'
  BY <1>6 DEF Good, Serving, InOrder, Executing, Returning, Idle
<1>8. steps' = steps
  BY DEF js_async_generator_resolve_function
<1>. QED  BY <1>7, <1>8 DEF Inv

-----------------------------------------------------------------------------
LEMMA InitInv == GeneratorInit => Inv
<1> SUFFICES ASSUME GeneratorInit PROVE Inv
  OBVIOUS
<1> USE GeneratorAssumption DEF GeneratorInit
<1>1. gen \in JSAsyncGeneratorData
  BY DEF JSAsyncGeneratorData, RequestId
<1>2. InOrder(gen) /\ Serving(gen) /\ gen.bad = {}
  BY DEF InOrder, Serving, Idle
<1>. QED  BY <1>1, <1>2 DEF Inv, Good

LEMMA NextInv == Inv /\ [GeneratorNext]_generatorVars => Inv'
<1> SUFFICES ASSUME Inv, [GeneratorNext]_generatorVars PROVE Inv'
  OBVIOUS
<1>1. CASE UNCHANGED generatorVars
  BY <1>1 DEF generatorVars, Inv, Good, Serving, InOrder, Executing, Returning, Idle
<1>. QED  BY <1>1, CallInv, BodyInv, ReactionInv DEF GeneratorNext, GeneratorGoesOn

\* The inductive invariant holds.
THEOREM InvHolds == GeneratorSpec => []Inv
BY InitInv, NextInv, PTL DEF GeneratorSpec

\* The state of an async generator keeps its shape.
THEOREM GeneratorTypeCorrect == GeneratorSpec => []GeneratorTypeOK
<1>1. Inv => GeneratorTypeOK
  BY DEF Inv, Good, GeneratorTypeOK
<1>. QED  BY InvHolds, <1>1, PTL

\* However many requests arrive while the body runs or awaits, and whatever the
\* body does, one thing is to go on with a generator that executes or awaits the
\* operand of a return, its result goes to the request for which it was begun,
\* and no assertion of js_async_generator_resolve_function fails.
THEOREM RightRequests == GeneratorSpec => []RightRequest
<1>1. Inv => RightRequest
  <2> SUFFICES ASSUME Inv PROVE RightRequest
    OBVIOUS
  <2>1. gen.bad = {} /\ Serving(gen) /\ gen.body \in BOOLEAN
    BY DEF Inv, Good, JSAsyncGeneratorData
  <2>2. \A x : Cardinality({x}) = 1
    BY FS_Singleton
  <2>3. Cardinality({}) = 0
    BY FS_EmptySet
  <2>4. CASE gen.state = "executing"
    <3>1. gen.waits = IF gen.body THEN {} ELSE {<<"body", gen.queue[1].id>>}
      BY <2>1, <2>4 DEF Serving, Executing
    <3>2. Cardinality(gen.waits) = IF gen.body THEN 0 ELSE 1
      BY <2>2, <2>3, <3>1, Zenon
    <3>. QED  BY <2>1, <2>4, <3>2 DEF RightRequest
  <2>5. CASE gen.state = "awaiting_return"
    <3>1. ~ gen.body /\ gen.waits = {<<"return", gen.queue[1].id>>}
      BY <2>1, <2>5 DEF Serving, Returning
    <3>2. Cardinality(gen.waits) = 1
      BY <2>2, <3>1, Zenon
    <3>. QED  BY <2>1, <2>5, <3>1, <3>2 DEF RightRequest
  <2>6. CASE gen.state \notin {"executing", "awaiting_return"}
    BY <2>1, <2>3, <2>6 DEF RightRequest, Serving, Idle
  <2>. QED  BY <2>4, <2>5, <2>6
<1>. QED  BY InvHolds, <1>1, PTL

\* Requests are answered in the order in which scripts made them, each once.
AnswersInOrder == \A i \in DOMAIN gen.answers : gen.answers[i] = i

\* The queue of js_async_generator_next is first come, first served: no answer
\* overtakes another, and no request is answered twice.
THEOREM FirstComeFirstServed == GeneratorSpec => []AnswersInOrder
<1>1. Inv => AnswersInOrder
  <2> SUFFICES ASSUME Inv PROVE AnswersInOrder
    OBVIOUS
  <2>1. gen.answers \in Seq(RequestId) /\ InOrder(gen)
    BY DEF Inv, Good, JSAsyncGeneratorData
  <2>2. DOMAIN gen.answers = 1 .. Len(gen.answers)
    BY <2>1
  <2>. QED  BY <2>1, <2>2 DEF InOrder, AnswersInOrder
<1>. QED  BY InvHolds, <1>1, PTL

=============================================================================
