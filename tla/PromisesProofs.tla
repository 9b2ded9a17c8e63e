--------------------------- MODULE PromisesProofs ---------------------------
(***************************************************************************)
(* Proofs about Promises for every number of promises and operations.      *)
(*                                                                         *)
(* ReactionsOnce is about a promise and all the functions that can settle  *)
(* it.  It rests on Once: a pending promise has one pair that is still to  *)
(* act, or one job that will make it a fresh pair, and not both.  That a   *)
(* reaction waits, or is one job, or ran once, is the conjunction Order of *)
(* facts about the lists, the job queue and the log, each increasing in    *)
(* the order of the calls of then.                                         *)
(*                                                                         *)
(* Adoption needs to know who can call the fresh pair that a promise got   *)
(* when it was resolved with another promise (Internal): nobody but the    *)
(* reaction that js_promise_resolve_thenable_job registered (Owned).       *)
(*                                                                         *)
(* AllReported is about the one promise of an aggregate and all the ways   *)
(* that lead to it.  The second half of the file shows that the count      *)
(* (Tally) is exact, that it is zero only after all have reported (a       *)
(* pigeonhole argument), and that nobody else can fulfil that promise, or  *)
(* reject one with what the count rejects with (Given).                    *)
(***************************************************************************)
EXTENDS Promises, FiniteSetTheorems, TLAPS

Proms(s) == 1 .. Len(s.prom)
Pairs(s) == 1 .. Len(s.pair)
Aggrs(s) == 1 .. Len(s.aggr)
Jobs(s) == 1 .. Len(s.jobs)
Regs(s) == 1 .. Len(s.regs)
Logged(s) == 1 .. Len(s.log)
List(s, p, x) == 1 .. Len(s.prom[p].reactions[x])

Pending(s, p) == s.prom[p].state = "pending"
IsReaction(s, k) == s.jobs[k].kind = "reaction"
IsThenable(s, k) == s.jobs[k].kind = "thenable"
\* The promise of the reaction that job k runs.
PromiseOf(s, k) == s.regs[s.jobs[k].id]

\* Functions, handlers and values that refer to what exists.
Func(s, f) ==
  /\ f \in Triples
  /\ \/ f[1] \in {"resolve", "reject"} /\ f[2] \in Pairs(s)
     \/ f[1] \in {"fulfilled", "rejected"} /\ f[2] \in Aggrs(s)
Handler(s, h) == h \in {NoHandler, Script, Resume} \/ Func(s, h)
Thenable(s, v) == v = Foreign \/ (v \in Triples /\ v[1] = "prom" /\ v[2] \in Proms(s))

Refs(s) ==
  /\ \A i \in Pairs(s) : s.pair[i].p \in Proms(s)
  /\ \A f \in s.fns : Func(s, f)
  /\ \A a \in Aggrs(s) :
        /\ s.aggr[a].pair \in Pairs(s)
        /\ s.aggr[a].index \in 0 .. Len(s.aggr[a].items)
        /\ \A i \in 1 .. Len(s.aggr[a].items) : Thenable(s, s.aggr[a].items[i])
  /\ \A p \in Proms(s), x \in {1, 2} : \A k \in List(s, p, x) :
        /\ Handler(s, s.prom[p].reactions[x][k].handler)
        /\ s.prom[p].reactions[x][k].pair \in {0} \cup Pairs(s)
  /\ \A k \in Jobs(s) : IsReaction(s, k) =>
        Handler(s, s.jobs[k].handler) /\ s.jobs[k].pair \in {0} \cup Pairs(s)
  /\ \A k \in Jobs(s) : IsThenable(s, k) => s.jobs[k].p \in Proms(s) /\ Thenable(s, s.jobs[k].v)
  /\ \A i \in Regs(s) : s.regs[i] \in Proms(s)
  /\ \A p \in Proms(s) : s.prom[p].to[1] = "prom" => s.prom[p].to[2] \in Proms(s)

\* Promises are settled with values that have no then.
Plain(s) ==
  /\ \A p \in Proms(s) : s.prom[p].result[1] = "val"
  /\ \A k \in Jobs(s) : IsReaction(s, k) => s.jobs[k].arg[1] = "val"

\* One pair or one job is to settle a promise.
Once(s) ==
  /\ s.again = {}
  /\ \A i, k \in Pairs(s) :
        ~ s.pair[i].done /\ ~ s.pair[k].done /\ s.pair[i].p = s.pair[k].p => i = k
  /\ \A i \in Pairs(s) : ~ s.pair[i].done => Pending(s, s.pair[i].p)
  /\ \A k \in Jobs(s) : IsThenable(s, k) =>
        /\ Pending(s, s.jobs[k].p) /\ s.prom[s.jobs[k].p].to = s.jobs[k].v
        /\ \A i \in Pairs(s) : s.pair[i].p = s.jobs[k].p => s.pair[i].done
  /\ \A k, l \in Jobs(s) :
        IsThenable(s, k) /\ IsThenable(s, l) /\ s.jobs[k].p = s.jobs[l].p => k = l

\* The jobs and the log: reactions of settled promises, in order.
Queue(s) ==
  /\ \A k \in Jobs(s) : IsReaction(s, k) =>
        s.jobs[k].id \in Regs(s) /\ ~ Pending(s, PromiseOf(s, k))
  /\ \A k \in Logged(s) : s.log[k] \in Regs(s) /\ ~ Pending(s, s.regs[s.log[k]])
  /\ \A k, l \in Jobs(s) : k < l /\ IsReaction(s, k) /\ IsReaction(s, l)
                             /\ PromiseOf(s, k) = PromiseOf(s, l)
                           => s.jobs[k].id < s.jobs[l].id
  /\ \A k \in Logged(s), l \in Jobs(s) :
        IsReaction(s, l) /\ s.regs[s.log[k]] = PromiseOf(s, l) => s.log[k] < s.jobs[l].id
  /\ \A k, l \in Logged(s) : k < l /\ s.regs[s.log[k]] = s.regs[s.log[l]] => s.log[k] < s.log[l]
  /\ \A id \in Regs(s) : ~ Pending(s, s.regs[id]) =>
        \/ \E k \in Jobs(s) : IsReaction(s, k) /\ s.jobs[k].id = id
        \/ \E k \in Logged(s) : s.log[k] = id

\* The lists: the reactions of pending promises, in order.
Lists(s) ==
  /\ \A p \in Proms(s), x \in {1, 2} : ~ Pending(s, p) => s.prom[p].reactions[x] = <<>>
  /\ \A p \in Proms(s), x \in {1, 2} : \A k \in List(s, p, x) :
        /\ s.prom[p].reactions[x][k].id \in Regs(s)
        /\ s.regs[s.prom[p].reactions[x][k].id] = p
  /\ \A p \in Proms(s), x \in {1, 2} : \A k, l \in List(s, p, x) :
        k < l => s.prom[p].reactions[x][k].id < s.prom[p].reactions[x][l].id
  /\ \A id \in Regs(s), x \in {1, 2} : Pending(s, s.regs[id]) =>
        \E k \in List(s, s.regs[id], x) : s.prom[s.regs[id]].reactions[x][k].id = id

\* Pair i was made for a promise that was resolved with the promise Source(s, i).
Internal(s, i) ==
  i \in Pairs(s) /\ ~ s.pair[i].done /\ s.prom[s.pair[i].p].to[1] = "prom"
Source(s, i) == s.prom[s.pair[i].p].to[2]
Uses(f, i) == f[1] \in {"resolve", "reject"} /\ f[2] = i
Outcome(rej) == IF rej THEN "rejected" ELSE "fulfilled"

\* Functions of an internal pair are the handlers of one reaction of the source.
Owned(s) ==
  \A i \in Pairs(s) : Internal(s, i) =>
    /\ i # 1
    /\ \A f \in s.fns : ~ Uses(f, i)
    /\ \A a \in Aggrs(s) : s.aggr[a].pair # i
    /\ \A p \in Proms(s), x \in {1, 2} : \A k \in List(s, p, x) :
          /\ s.prom[p].reactions[x][k].pair # i
          /\ Uses(s.prom[p].reactions[x][k].handler, i) =>
                /\ p = Source(s, i)
                /\ s.prom[p].reactions[x][k].handler[1] = IF x = 1 THEN "resolve" ELSE "reject"
    /\ \A k \in Jobs(s) : IsReaction(s, k) =>
          /\ s.jobs[k].pair # i
          /\ Uses(s.jobs[k].handler, i) =>
                /\ s.prom[Source(s, i)].state = Outcome(s.jobs[k].handler[1] = "reject")
                /\ s.prom[Source(s, i)].result = s.jobs[k].arg

\* What Adoption says.
Adopted(s) ==
  \A p \in Proms(s) : ~ Pending(s, p) =>
    /\ s.prom[p].to[1] = "prom" /\ s.prom[p].to[2] # p =>
          /\ s.prom[s.prom[p].to[2]].state = s.prom[p].state
          /\ s.prom[s.prom[p].to[2]].result = s.prom[p].result
    /\ s.prom[p].to = <<"prom", p, 0>> => s.prom[p].state = "rejected"

Good(s) ==
  /\ s \in PromiseState /\ Refs(s) /\ Plain(s) /\ Once(s)
  /\ Queue(s) /\ Lists(s) /\ Owned(s) /\ Adopted(s)
  /\ Len(s.pair) > 0

\* The frames of the scripts under way.
FrameKind == {"async", "handler", "then", "element"}
FrameOK(s, f) ==
  /\ f \in [kind : FrameKind, arg : Nat]
  /\ f.kind = "element" => f.arg \in Aggrs(s)
  /\ f.kind # "element" => f.arg \in {0} \cup Pairs(s) /\ ~ Internal(s, f.arg)

Frames(s, r) ==
  /\ r \in Seq([kind : FrameKind, arg : Nat])
  /\ \A k \in 1 .. Len(r) : FrameOK(s, r[k])

Inv == Good(st) /\ Frames(st, run) /\ ops \in 0 .. MaxOps
-----------------------------------------------------------------------------
(* The state grows: promises, pairs and aggregates stay, and no old pair    *)
(* becomes an internal one.                                                 *)

Grows(s, n) ==
  /\ Proms(s) \subseteq Proms(n) /\ Pairs(s) \subseteq Pairs(n) /\ Aggrs(s) \subseteq Aggrs(n)
  /\ \A i \in Pairs(s) : Internal(n, i) => Internal(s, i)

LEMMA GrowsTransitive ==
  ASSUME NEW s, NEW n, NEW m, Grows(s, n), Grows(n, m)
  PROVE  Grows(s, m)
BY DEF Grows

LEMMA FramesGrow ==
  ASSUME NEW s, NEW n, NEW r, Frames(s, r), Grows(s, n), s \in PromiseState
  PROVE  Frames(n, r)
<1>1. Len(s.pair) \in Nat
  BY DEF PromiseState
<1>2. ~ Internal(n, 0)
  BY DEF Internal, Pairs
<1>3. ASSUME NEW f, FrameOK(s, f) PROVE FrameOK(n, f)
  BY <1>2, <1>3 DEF FrameOK, Grows
<1>. QED  BY <1>3 DEF Frames

\* References stay good.
LEMMA RefsGrow ==
  ASSUME NEW s, NEW n, Grows(s, n)
  PROVE  /\ \A f : Func(s, f) => Func(n, f)
         /\ \A h : Handler(s, h) => Handler(n, h)
         /\ \A v : Thenable(s, v) => Thenable(n, v)
BY DEF Grows, Func, Handler, Thenable

\* Sequences: elements, concatenation, one element more, and one less.
LEMMA SeqParts ==
  ASSUME NEW S, NEW q, q \in Seq(S)
  PROVE  Len(q) \in Nat /\ DOMAIN q = 1 .. Len(q) /\ \A k \in 1 .. Len(q) : q[k] \in S
OBVIOUS

LEMMA ConcatParts ==
  ASSUME NEW S, NEW q, q \in Seq(S), NEW r, r \in Seq(S)
  PROVE  /\ q \o r \in Seq(S) /\ Len(q \o r) = Len(q) + Len(r)
         /\ \A k \in 1 .. Len(q) : (q \o r)[k] = q[k]
         /\ \A k \in 1 .. Len(r) : (q \o r)[Len(q) + k] = r[k]
OBVIOUS

LEMMA AppendParts ==
  ASSUME NEW S, NEW q, q \in Seq(S), NEW e \in S
  PROVE  /\ Append(q, e) \in Seq(S) /\ Len(Append(q, e)) = Len(q) + 1
         /\ \A k \in 1 .. Len(q) : Append(q, e)[k] = q[k]
         /\ Append(q, e)[Len(q) + 1] = e
OBVIOUS

LEMMA TailParts ==
  ASSUME NEW S, NEW q, q \in Seq(S), q # <<>>
  PROVE  /\ Head(q) = q[1] /\ q[1] \in S /\ Len(q) >= 1
         /\ Tail(q) \in Seq(S) /\ Len(Tail(q)) = Len(q) - 1
         /\ \A k \in 1 .. Len(Tail(q)) : Tail(q)[k] = q[k + 1]
<1>1. Head(q) = q[1] /\ q[1] \in S /\ Len(q) >= 1
  OBVIOUS
<1>2. Tail(q) \in Seq(S) /\ Len(Tail(q)) = Len(q) - 1
  OBVIOUS
<1>3. \A k \in 1 .. Len(Tail(q)) : Tail(q)[k] = q[k + 1]
  OBVIOUS
<1>. QED  BY <1>1, <1>2, <1>3

\* The positions of a sequence of length N, made of one of length L and one of
\* length M.
Split(L, M, N) ==
  /\ \A k \in 1 .. L : k \in 1 .. N
  /\ \A k \in 1 .. M : L + k \in 1 .. N
  /\ \A k \in 1 .. N : k \in 1 .. L \/ \E m \in 1 .. M : k = L + m

LEMMA Ranges ==
  ASSUME NEW L \in Nat, NEW M \in Nat
  PROVE  Split(L, M, L + M)
<1>1. ASSUME NEW k \in 1 .. L + M, k \notin 1 .. L PROVE \E m \in 1 .. M : k = L + m
  <2>1. k - L \in 1 .. M /\ k = L + (k - L)
    BY <1>1
  <2>. QED  BY <2>1
<1>. QED  BY <1>1 DEF Split

LEMMA StateParts ==
  ASSUME NEW s, s \in PromiseState
  PROVE  /\ s.prom \in Seq(JSPromiseData) /\ s.pair \in Seq(JSPromiseFunctionDataResolved)
         /\ s.aggr \in Seq(Aggregate) /\ s.jobs \in Seq(PromiseJob)
         /\ s.fns \in SUBSET Triples /\ s.regs \in Seq(Nat) /\ s.log \in Seq(Nat)
         /\ s.again \in SUBSET Nat
         /\ Len(s.prom) \in Nat /\ Len(s.pair) \in Nat /\ Len(s.aggr) \in Nat
         /\ Len(s.jobs) \in Nat /\ Len(s.regs) \in Nat /\ Len(s.log) \in Nat
         /\ \A p \in Proms(s) : s.prom[p] \in JSPromiseData
         /\ \A i \in Pairs(s) : s.pair[i] \in JSPromiseFunctionDataResolved
         /\ \A a \in Aggrs(s) : s.aggr[a] \in Aggregate
         /\ \A k \in Jobs(s) : s.jobs[k] \in PromiseJob
         /\ \A i \in Regs(s) : s.regs[i] \in Nat
         /\ \A i \in Logged(s) : s.log[i] \in Nat
<1>1. /\ s.prom \in Seq(JSPromiseData) /\ s.pair \in Seq(JSPromiseFunctionDataResolved)
      /\ s.aggr \in Seq(Aggregate) /\ s.jobs \in Seq(PromiseJob)
      /\ s.fns \in SUBSET Triples /\ s.regs \in Seq(Nat) /\ s.log \in Seq(Nat)
      /\ s.again \in SUBSET Nat
  BY DEF PromiseState
<1>2. Len(s.prom) \in Nat /\ \A p \in Proms(s) : s.prom[p] \in JSPromiseData
  BY <1>1, SeqParts DEF Proms
<1>3. Len(s.pair) \in Nat /\ \A i \in Pairs(s) : s.pair[i] \in JSPromiseFunctionDataResolved
  BY <1>1, SeqParts DEF Pairs
<1>4. Len(s.aggr) \in Nat /\ \A a \in Aggrs(s) : s.aggr[a] \in Aggregate
  BY <1>1, SeqParts DEF Aggrs
<1>5. Len(s.jobs) \in Nat /\ \A k \in Jobs(s) : s.jobs[k] \in PromiseJob
  BY <1>1, SeqParts DEF Jobs
<1>6. Len(s.regs) \in Nat /\ \A i \in Regs(s) : s.regs[i] \in Nat
  BY <1>1, SeqParts DEF Regs
<1>7. Len(s.log) \in Nat /\ \A i \in Logged(s) : s.log[i] \in Nat
  BY <1>1, SeqParts DEF Logged
<1>. QED  BY <1>1, <1>2, <1>3, <1>4, <1>5, <1>6, <1>7

\* The reactions of a promise.
LEMMA ListParts ==
  ASSUME NEW s, s \in PromiseState, NEW p \in Proms(s), NEW x \in {1, 2}
  PROVE  /\ s.prom[p].reactions[x] \in Seq(JSPromiseReactionData)
         /\ Len(s.prom[p].reactions[x]) \in Nat
         /\ \A k \in List(s, p, x) : s.prom[p].reactions[x][k] \in JSPromiseReactionData
<1>1. s.prom[p] \in JSPromiseData
  BY StateParts
<1>2. s.prom[p].reactions \in Seq(JSPromiseReactionData) \X Seq(JSPromiseReactionData)
  BY <1>1 DEF JSPromiseData
<1>3. s.prom[p].reactions[x] \in Seq(JSPromiseReactionData)
  BY <1>2
<1>. QED  BY <1>3, SeqParts DEF List

-----------------------------------------------------------------------------
(* A promise is settled.                                                   *)

\* The fields of a state in which p was settled.
SettlesTo(s, n, p, v, rej, x) ==
  /\ n \in PromiseState
  /\ n.pair = s.pair /\ n.aggr = s.aggr /\ n.fns = s.fns /\ n.regs = s.regs
  /\ n.log = s.log /\ n.again = s.again
  /\ Len(n.prom) = Len(s.prom)
  /\ \A q \in Proms(s) : q # p => n.prom[q] = s.prom[q]
  /\ n.prom[p].state = Outcome(rej) /\ n.prom[p].result = v
  /\ n.prom[p].reactions[1] = <<>> /\ n.prom[p].reactions[2] = <<>>
  /\ n.prom[p].to = s.prom[p].to
  /\ Len(n.jobs) = Len(s.jobs) + Len(s.prom[p].reactions[x])
  /\ \A k \in Jobs(s) : n.jobs[k] = s.jobs[k]
  /\ \A k \in List(s, p, x) :
        n.jobs[Len(s.jobs) + k] = Reaction(s.prom[p].reactions[x][k], rej, v)

\* Settling p: the jobs of one list, in its order, are added; the lists go.
LEMMA SettleParts ==
  ASSUME NEW s, s \in PromiseState, NEW p \in Proms(s), Pending(s, p), NEW v \in Triples,
         NEW rej \in BOOLEAN, NEW n, n = fulfill_or_reject_promise(s, p, v, rej),
         NEW x, x = IF rej THEN 2 ELSE 1
  PROVE  SettlesTo(s, n, p, v, rej, x)
<1> DEFINE d == s.prom[p]
           list == d.reactions[x]
           E == Enqueued(list, rej, v)
           e == Settle(d, v, rej)
<1>1. /\ s.prom \in Seq(JSPromiseData) /\ s.jobs \in Seq(PromiseJob)
      /\ d \in JSPromiseData /\ Len(s.jobs) \in Nat
  BY StateParts
<1>2. /\ list \in Seq(JSPromiseReactionData) /\ Len(list) \in Nat
      /\ \A k \in 1 .. Len(list) : list[k] \in JSPromiseReactionData
  BY ListParts DEF List
<1>3. n = [s EXCEPT !.prom[p] = e, !.jobs = s.jobs \o E]
  BY DEF fulfill_or_reject_promise, Pending
<1>4. ASSUME NEW k \in 1 .. Len(list) PROVE Reaction(list[k], rej, v) \in PromiseJob
  BY <1>2 DEF Reaction, ReactionJob, PromiseJob, JSPromiseReactionData
<1>5. DOMAIN E = 1 .. Len(list) /\ \A k \in 1 .. Len(list) : E[k] = Reaction(list[k], rej, v)
  BY <1>2 DEF Enqueued
<1>6. E \in Seq(PromiseJob) /\ Len(E) = Len(list)
  <2>1. E = [k \in 1 .. Len(list) |-> Reaction(list[k], rej, v)]
    BY <1>2 DEF Enqueued
  <2> HIDE DEF E, list
  <2>. QED  BY <1>2, <1>4, <2>1
<1>7. <<>> \in Seq(JSPromiseReactionData)
  OBVIOUS
<1>8. /\ e \in JSPromiseData /\ e.state = Outcome(rej) /\ e.result = v
      /\ e.reactions = <<<<>>, <<>>>> /\ e.to = d.to
  BY <1>1, <1>7 DEF Settle, JSPromiseData, Outcome, States
<1> HIDE DEF E, e, list, d
<1>9. s.jobs \o E \in Seq(PromiseJob)
  BY <1>1, <1>6
<1>10. [s.prom EXCEPT ![p] = e] \in Seq(JSPromiseData) /\ Len([s.prom EXCEPT ![p] = e]) = Len(s.prom)
  BY <1>1, <1>8 DEF Proms
<1>11. /\ n \in PromiseState
       /\ n.pair = s.pair /\ n.aggr = s.aggr /\ n.fns = s.fns /\ n.regs = s.regs
       /\ n.log = s.log /\ n.again = s.again
       /\ n.prom = [s.prom EXCEPT ![p] = e] /\ n.jobs = s.jobs \o E
  BY <1>3, <1>9, <1>10 DEF PromiseState
<1>12. /\ Len(n.prom) = Len(s.prom) /\ n.prom[p] = e
       /\ \A q \in Proms(s) : q # p => n.prom[q] = s.prom[q]
  BY <1>1, <1>10, <1>11 DEF Proms
<1>13. /\ Len(n.jobs) = Len(s.jobs) + Len(list)
       /\ \A k \in Jobs(s) : n.jobs[k] = s.jobs[k]
       /\ \A k \in 1 .. Len(list) : n.jobs[Len(s.jobs) + k] = E[k]
  <2>1. PICK q : q = s.jobs
    OBVIOUS
  <2>2. PICK r : r = E
    OBVIOUS
  <2>3. q \in Seq(PromiseJob) /\ r \in Seq(PromiseJob)
    BY <1>1, <1>6, <2>1, <2>2
  <2>4. /\ Len(q \o r) = Len(q) + Len(r)
        /\ \A k \in 1 .. Len(q) : (q \o r)[k] = q[k]
        /\ \A k \in 1 .. Len(r) : (q \o r)[Len(q) + k] = r[k]
    BY ONLY <2>3, ConcatParts
  <2>. QED  BY <1>6, <1>11, <2>1, <2>2, <2>4 DEF Jobs
<1>14. \A k \in List(s, p, x) : n.jobs[Len(s.jobs) + k] = Reaction(d.reactions[x][k], rej, v)
  BY <1>5, <1>13 DEF List, d, list
<1>15. n.prom[p].reactions[1] = <<>> /\ n.prom[p].reactions[2] = <<>>
  BY <1>8, <1>12
<1>16. Len(n.jobs) = Len(s.jobs) + Len(s.prom[p].reactions[x])
  BY <1>13 DEF d, list
<1>. QED  BY <1>8, <1>11, <1>12, <1>13, <1>14, <1>15, <1>16 DEF d, SettlesTo

\* What it takes to settle p with v: nothing else is to settle it, and if it
\* was resolved with another promise, that one ended in the same way.
MaySettle(s, p, v, rej) ==
  /\ p \in Proms(s) /\ Pending(s, p) /\ v \in Triples /\ v[1] = "val" /\ rej \in BOOLEAN
  /\ \A i \in Pairs(s) : s.pair[i].p = p => s.pair[i].done
  /\ \A k \in Jobs(s) : IsThenable(s, k) => s.jobs[k].p # p
  /\ s.prom[p].to[1] = "prom" /\ s.prom[p].to[2] # p =>
        s.prom[s.prom[p].to[2]].state = Outcome(rej) /\ s.prom[s.prom[p].to[2]].result = v
  /\ s.prom[p].to = <<"prom", p, 0>> => rej

\* The effect of settling p.
Settling(s, n, p, v, rej, x) ==
  /\ n \in PromiseState /\ x = (IF rej THEN 2 ELSE 1)
  /\ n.pair = s.pair /\ n.aggr = s.aggr /\ n.fns = s.fns /\ n.regs = s.regs
  /\ n.log = s.log /\ n.again = s.again
  /\ Proms(n) = Proms(s) /\ Pairs(n) = Pairs(s) /\ Aggrs(n) = Aggrs(s)
  /\ Regs(n) = Regs(s) /\ Logged(n) = Logged(s)
  /\ \A q \in Proms(s) : q # p => n.prom[q] = s.prom[q]
  /\ n.prom[p].state = Outcome(rej) /\ n.prom[p].result = v
  /\ n.prom[p].reactions[1] = <<>> /\ n.prom[p].reactions[2] = <<>>
  /\ \A q \in Proms(s) : n.prom[q].to = s.prom[q].to
  /\ \A q \in Proms(s) : ~ Pending(n, q) => q = p \/ ~ Pending(s, q)
  /\ ~ Pending(n, p)
  /\ \A k \in Jobs(s) : k \in Jobs(n) /\ n.jobs[k] = s.jobs[k]
  /\ \A k \in List(s, p, x) :
        /\ Len(s.jobs) + k \in Jobs(n) /\ IsReaction(n, Len(s.jobs) + k)
        /\ n.jobs[Len(s.jobs) + k].id = s.prom[p].reactions[x][k].id
        /\ n.jobs[Len(s.jobs) + k].pair = s.prom[p].reactions[x][k].pair
        /\ n.jobs[Len(s.jobs) + k].handler = s.prom[p].reactions[x][k].handler
        /\ n.jobs[Len(s.jobs) + k].arg = v /\ n.jobs[Len(s.jobs) + k].rej = rej
  /\ \A k \in Jobs(n) : k \in Jobs(s) \/ \E m \in List(s, p, x) : k = Len(s.jobs) + m
  /\ Len(s.jobs) \in Nat /\ Grows(s, n)

LEMMA SettleEffect ==
  ASSUME NEW s, Good(s), NEW p, NEW v, NEW rej, MaySettle(s, p, v, rej),
         NEW n, n = fulfill_or_reject_promise(s, p, v, rej)
  PROVE  Settling(s, n, p, v, rej, IF rej THEN 2 ELSE 1)
<1>0. PICK x : x = IF rej THEN 2 ELSE 1
  OBVIOUS
<1>1. s \in PromiseState /\ p \in Proms(s) /\ Pending(s, p) /\ v \in Triples /\ rej \in BOOLEAN
  BY DEF Good, MaySettle
<1>2. /\ n \in PromiseState
      /\ n.pair = s.pair /\ n.aggr = s.aggr /\ n.fns = s.fns /\ n.regs = s.regs
      /\ n.log = s.log /\ n.again = s.again
      /\ Len(n.prom) = Len(s.prom)
      /\ \A q \in Proms(s) : q # p => n.prom[q] = s.prom[q]
      /\ n.prom[p].state = Outcome(rej) /\ n.prom[p].result = v
      /\ n.prom[p].reactions[1] = <<>> /\ n.prom[p].reactions[2] = <<>>
      /\ n.prom[p].to = s.prom[p].to
      /\ Len(n.jobs) = Len(s.jobs) + Len(s.prom[p].reactions[x])
      /\ \A k \in Jobs(s) : n.jobs[k] = s.jobs[k]
      /\ \A k \in List(s, p, x) :
            n.jobs[Len(s.jobs) + k] = Reaction(s.prom[p].reactions[x][k], rej, v)
  <2>1. SettlesTo(s, n, p, v, rej, x)
    BY <1>0, <1>1, SettleParts
  <2>. QED  BY <2>1 DEF SettlesTo
<1>3. Len(s.jobs) \in Nat /\ Len(s.prom[p].reactions[x]) \in Nat
  BY <1>0, <1>1, StateParts, ListParts
<1>4. /\ Proms(n) = Proms(s) /\ Pairs(n) = Pairs(s) /\ Aggrs(n) = Aggrs(s)
      /\ Regs(n) = Regs(s) /\ Logged(n) = Logged(s)
  BY <1>2 DEF Proms, Pairs, Aggrs, Regs, Logged
<1>5. \A q \in Proms(s) : n.prom[q].to = s.prom[q].to
  BY <1>2
<1>6. \A i \in Pairs(s) : Internal(n, i) => Internal(s, i)
  <2>1. \A i \in Pairs(s) : s.pair[i].p \in Proms(s)
    BY DEF Good, Refs
  <2>. QED  BY <1>2, <1>4, <1>5, <2>1 DEF Internal
<1>7. ~ Pending(n, p)
  BY <1>2 DEF Pending, Outcome
<1>8. \A q \in Proms(s) : ~ Pending(n, q) => q = p \/ ~ Pending(s, q)
  BY <1>2 DEF Pending
<1>9. /\ \A k \in Jobs(s) : k \in Jobs(n)
      /\ \A k \in List(s, p, x) : Len(s.jobs) + k \in Jobs(n)
      /\ \A k \in Jobs(n) : k \in Jobs(s) \/ \E m \in List(s, p, x) : k = Len(s.jobs) + m
  <2>1. Len(n.jobs) = Len(s.jobs) + Len(s.prom[p].reactions[x])
    BY <1>2
  <2>2. Split(Len(s.jobs), Len(s.prom[p].reactions[x]), Len(n.jobs))
    BY <1>3, <2>1, Ranges
  <2>. QED  BY ONLY <2>2, Zenon DEF Split, Jobs, List
<1>12. Grows(s, n)
  BY <1>4, <1>6 DEF Grows
<1>13. \A k \in List(s, p, x) :
        /\ IsReaction(n, Len(s.jobs) + k)
        /\ n.jobs[Len(s.jobs) + k].id = s.prom[p].reactions[x][k].id
        /\ n.jobs[Len(s.jobs) + k].pair = s.prom[p].reactions[x][k].pair
        /\ n.jobs[Len(s.jobs) + k].handler = s.prom[p].reactions[x][k].handler
        /\ n.jobs[Len(s.jobs) + k].arg = v /\ n.jobs[Len(s.jobs) + k].rej = rej
  <2>1. ASSUME NEW k, NEW r, NEW j, n.jobs[k] = j, j = Reaction(r, rej, v)
        PROVE  /\ IsReaction(n, k) /\ n.jobs[k].id = r.id /\ n.jobs[k].pair = r.pair
               /\ n.jobs[k].handler = r.handler /\ n.jobs[k].arg = v /\ n.jobs[k].rej = rej
    BY <2>1 DEF Reaction, IsReaction
  <2>2. \A k \in List(s, p, x) :
            n.jobs[Len(s.jobs) + k] = Reaction(s.prom[p].reactions[x][k], rej, v)
    BY <1>2
  <2>. QED  BY ONLY <2>1, <2>2, Zenon
<1>. QED
  BY <1>0, <1>2, <1>3, <1>4, <1>5, <1>7, <1>8, <1>9, <1>12, <1>13, SMTT(60) DEF Settling

LEMMA SettleRefs ==
  ASSUME NEW s, Good(s), NEW p, NEW v, NEW rej, MaySettle(s, p, v, rej),
         NEW n, NEW x, Settling(s, n, p, v, rej, x)
  PROVE  Refs(n) /\ Plain(n)
<1>1. Refs(s) /\ Plain(s) /\ p \in Proms(s) /\ x \in {1, 2} /\ v[1] = "val" /\ Grows(s, n)
  BY DEF Good, Settling, MaySettle
<1>2. \A q \in Proms(n), y \in {1, 2} : \A k \in List(n, q, y) :
         q # p /\ k \in List(s, q, y) /\ n.prom[q] = s.prom[q]
  BY <1>1 DEF Settling, List
<1>3. \A k \in Jobs(n) :
        \/ k \in Jobs(s) /\ n.jobs[k] = s.jobs[k]
        \/ /\ IsReaction(n, k) /\ n.jobs[k].arg = v
           /\ \E m \in List(s, p, x) : /\ n.jobs[k].pair = s.prom[p].reactions[x][m].pair
                                        /\ n.jobs[k].handler = s.prom[p].reactions[x][m].handler
  BY DEF Settling
<1>4. /\ \A f : Func(s, f) => Func(n, f)
      /\ \A h : Handler(s, h) => Handler(n, h)
      /\ \A w : Thenable(s, w) => Thenable(n, w)
  BY <1>1, RefsGrow
<1>5. /\ \A i \in Pairs(n) : n.pair[i].p \in Proms(n)
      /\ \A f \in n.fns : Func(n, f)
      /\ \A i \in Regs(n) : n.regs[i] \in Proms(n)
      /\ \A q \in Proms(n) : n.prom[q].to[1] = "prom" => n.prom[q].to[2] \in Proms(n)
  BY <1>1, <1>4 DEF Settling, Refs
<1>6. \A a \in Aggrs(n) :
        /\ n.aggr[a].pair \in Pairs(n)
        /\ n.aggr[a].index \in 0 .. Len(n.aggr[a].items)
        /\ \A i \in 1 .. Len(n.aggr[a].items) : Thenable(n, n.aggr[a].items[i])
  BY <1>1, <1>4 DEF Settling, Refs
<1>7. \A q \in Proms(n), y \in {1, 2} : \A k \in List(n, q, y) :
        /\ Handler(n, n.prom[q].reactions[y][k].handler)
        /\ n.prom[q].reactions[y][k].pair \in {0} \cup Pairs(n)
  BY <1>1, <1>2, <1>4 DEF Settling, Refs
<1>8. \A k \in Jobs(n) : IsReaction(n, k) =>
        Handler(n, n.jobs[k].handler) /\ n.jobs[k].pair \in {0} \cup Pairs(n)
  BY <1>1, <1>3, <1>4, SMTT(60) DEF Settling, Refs, IsReaction
<1>9. \A k \in Jobs(n) : IsThenable(n, k) => n.jobs[k].p \in Proms(n) /\ Thenable(n, n.jobs[k].v)
  BY <1>1, <1>3, <1>4 DEF Settling, Refs, IsReaction, IsThenable
<1>10. Plain(n)
  BY <1>1, <1>3 DEF Settling, Plain, IsReaction
<1>. QED  BY <1>5, <1>6, <1>7, <1>8, <1>9, <1>10 DEF Refs

LEMMA SettleOnce ==
  ASSUME NEW s, Good(s), NEW p, NEW v, NEW rej, MaySettle(s, p, v, rej),
         NEW n, NEW x, Settling(s, n, p, v, rej, x)
  PROVE  Once(n)
<1>1. Refs(s) /\ Once(s) /\ p \in Proms(s)
  BY DEF Good, MaySettle
<1>2. \A k \in Jobs(n) : IsThenable(n, k) =>
        k \in Jobs(s) /\ n.jobs[k] = s.jobs[k] /\ IsThenable(s, k) /\ s.jobs[k].p # p
  BY DEF Settling, MaySettle, IsThenable, IsReaction
<1>3. \A q \in Proms(s) : q # p => (Pending(n, q) <=> Pending(s, q))
  BY DEF Settling, Pending
<1>4. \A i \in Pairs(n) : ~ n.pair[i].done => Pending(n, n.pair[i].p)
  BY <1>1, <1>3 DEF Once, Refs, Settling, MaySettle
<1>5. \A k \in Jobs(n) : IsThenable(n, k) =>
        /\ Pending(n, n.jobs[k].p) /\ n.prom[n.jobs[k].p].to = n.jobs[k].v
        /\ \A i \in Pairs(n) : n.pair[i].p = n.jobs[k].p => n.pair[i].done
  BY <1>1, <1>2, <1>3, SMTT(60) DEF Once, Refs, Settling
<1>6. \A k, l \in Jobs(n) :
        IsThenable(n, k) /\ IsThenable(n, l) /\ n.jobs[k].p = n.jobs[l].p => k = l
  BY <1>1, <1>2 DEF Once
<1>7. /\ n.again = {}
      /\ \A i, k \in Pairs(n) :
            ~ n.pair[i].done /\ ~ n.pair[k].done /\ n.pair[i].p = n.pair[k].p => i = k
  BY <1>1 DEF Once, Settling
<1>. QED  BY <1>4, <1>5, <1>6, <1>7 DEF Once

LEMMA SettleQueue ==
  ASSUME NEW s, Good(s), NEW p, NEW v, NEW rej, MaySettle(s, p, v, rej),
         NEW n, NEW x, Settling(s, n, p, v, rej, x)
  PROVE  Queue(n)
<1>1. Refs(s) /\ Queue(s) /\ Lists(s) /\ p \in Proms(s) /\ x \in {1, 2} /\ Pending(s, p)
  BY DEF Good, MaySettle, Settling
<1>2. \A k \in Jobs(n) :
        \/ k \in Jobs(s) /\ n.jobs[k] = s.jobs[k]
        \/ \E m \in List(s, p, x) : k = Len(s.jobs) + m /\ n.jobs[k].id = s.prom[p].reactions[x][m].id
  BY DEF Settling
<1>3. \A q \in Proms(s) : q # p => (Pending(n, q) <=> Pending(s, q))
  BY DEF Settling, Pending
<1>4. ~ Pending(n, p)
  BY DEF Settling
<1>5. \A k \in Jobs(n) : IsReaction(n, k) =>
        \/ k \in Jobs(s) /\ IsReaction(s, k) /\ n.jobs[k] = s.jobs[k] /\ PromiseOf(s, k) # p
           /\ PromiseOf(n, k) = PromiseOf(s, k) /\ PromiseOf(s, k) \in Proms(s) /\ ~ Pending(s, PromiseOf(s, k))
           /\ s.jobs[k].id \in Regs(s)
        \/ k \notin Jobs(s) /\ PromiseOf(n, k) = p /\ n.jobs[k].id \in Regs(s)
  <2>1. TAKE k \in Jobs(n)
  <2>2. HAVE IsReaction(n, k)
  <2>3. CASE k \in Jobs(s)
    <3>1. IsReaction(s, k) /\ n.jobs[k] = s.jobs[k]
      BY <2>2, <2>3 DEF Settling, IsReaction
    <3>. QED  BY <1>1, <2>3, <3>1 DEF Settling, Queue, Refs, PromiseOf
  <2>4. CASE k \notin Jobs(s)
    <3>1. PICK m \in List(s, p, x) : n.jobs[k].id = s.prom[p].reactions[x][m].id
      BY <1>2, <2>4
    <3>2. s.regs[n.jobs[k].id] = p /\ n.jobs[k].id \in Regs(s)
      BY <1>1, <3>1, SMTT(60) DEF Lists
    <3>. QED  BY <2>4, <3>2 DEF PromiseOf, Settling
  <2>. QED  BY <2>3, <2>4
<1>6. \A k \in Jobs(n) : IsReaction(n, k) => n.jobs[k].id \in Regs(n) /\ ~ Pending(n, PromiseOf(n, k))
  <2>1. Regs(n) = Regs(s)
    BY DEF Settling
  <2>. QED  BY <1>3, <1>4, <1>5, <2>1
<1>7. \A k \in Logged(n) : /\ n.log[k] \in Regs(n) /\ ~ Pending(n, n.regs[n.log[k]])
                           /\ n.regs[n.log[k]] # p
  BY <1>1, <1>3 DEF Settling, Queue, Refs
<1>8. ASSUME NEW k \in Jobs(n), NEW l \in Jobs(n), k < l, IsReaction(n, k), IsReaction(n, l),
             PromiseOf(n, k) = PromiseOf(n, l)
      PROVE  n.jobs[k].id < n.jobs[l].id
  <2>1. CASE k \in Jobs(s) /\ l \in Jobs(s)
    BY <1>1, <1>5, <1>8, <2>1 DEF Queue, Jobs
  <2>2. CASE k \notin Jobs(s) /\ l \notin Jobs(s)
    <3>1. PICK i \in List(s, p, x) : k = Len(s.jobs) + i /\ n.jobs[k].id = s.prom[p].reactions[x][i].id
      BY <1>2, <2>2
    <3>2. PICK j \in List(s, p, x) : l = Len(s.jobs) + j /\ n.jobs[l].id = s.prom[p].reactions[x][j].id
      BY <1>2, <2>2
    <3>3. Len(s.jobs) \in Nat /\ Len(s.prom[p].reactions[x]) \in Nat
      <4>1. s \in PromiseState
        BY DEF Good
      <4>. QED  BY <1>1, <4>1, StateParts, ListParts
    <3>4. i < j
      <4>1. PICK L \in Nat, M \in Nat : L = Len(s.jobs) /\ M = Len(s.prom[p].reactions[x])
        BY <3>3
      <4>2. L + i < L + j /\ i \in 1 .. M /\ j \in 1 .. M
        BY <1>8, <3>1, <3>2, <4>1, Zenon DEF List
      <4>. QED  BY ONLY <4>2, L \in Nat, M \in Nat
    <3>. QED  BY <1>1, <3>1, <3>2, <3>4, SMTT(60) DEF Lists
  <2>3. CASE k \in Jobs(s) /\ l \notin Jobs(s)
    BY <1>5, <1>8, <2>3
  <2>4. CASE k \notin Jobs(s) /\ l \in Jobs(s)
    BY <1>5, <1>8, <2>4
  <2>. QED  BY <2>1, <2>2, <2>3, <2>4
<1>9. ASSUME NEW k \in Logged(n), NEW l \in Jobs(n), IsReaction(n, l),
             n.regs[n.log[k]] = PromiseOf(n, l)
      PROVE  n.log[k] < n.jobs[l].id
  <2>1. l \in Jobs(s) /\ IsReaction(s, l) /\ n.jobs[l] = s.jobs[l] /\ PromiseOf(n, l) = PromiseOf(s, l)
    BY <1>5, <1>7, <1>9
  <2>. QED  BY <1>1, <1>9, <2>1 DEF Queue, Settling
<1>10. \A k, l \in Logged(n) : k < l /\ n.regs[n.log[k]] = n.regs[n.log[l]] => n.log[k] < n.log[l]
  BY <1>1 DEF Queue, Settling
<1>11. ASSUME NEW id \in Regs(n), ~ Pending(n, n.regs[id])
       PROVE  \/ \E k \in Jobs(n) : IsReaction(n, k) /\ n.jobs[k].id = id
              \/ \E k \in Logged(n) : n.log[k] = id
  <2>1. id \in Regs(s) /\ n.regs = s.regs /\ s.regs[id] \in Proms(s)
    BY <1>1 DEF Settling, Refs
  <2>2. CASE s.regs[id] = p
    <3>1. PICK m \in List(s, p, x) : s.prom[p].reactions[x][m].id = id
      BY <1>1, <2>1, <2>2, SMTT(60) DEF Lists
    <3>. QED  BY <3>1 DEF Settling
  <2>3. CASE s.regs[id] # p
    <3>1. ~ Pending(s, s.regs[id])
      BY <1>3, <1>11, <2>1, <2>3
    <3>2. \/ \E k \in Jobs(s) : IsReaction(s, k) /\ s.jobs[k].id = id
          \/ \E k \in Logged(s) : s.log[k] = id
      BY <1>1, <2>1, <3>1 DEF Queue
    <3>. QED  BY <3>2 DEF Settling, IsReaction
  <2>. QED  BY <2>2, <2>3
<1>. QED  BY <1>6, <1>7, <1>8, <1>9, <1>10, <1>11 DEF Queue

LEMMA SettleLists ==
  ASSUME NEW s, Good(s), NEW p, NEW v, NEW rej, MaySettle(s, p, v, rej),
         NEW n, NEW x, Settling(s, n, p, v, rej, x)
  PROVE  Lists(n)
<1>1. Refs(s) /\ Lists(s) /\ p \in Proms(s)
  BY DEF Good, MaySettle
<1>2. \A q \in Proms(n), y \in {1, 2} : \A k \in List(n, q, y) :
         q # p /\ q \in Proms(s) /\ k \in List(s, q, y) /\ n.prom[q] = s.prom[q]
  BY <1>1 DEF Settling, List
<1>3. \A q \in Proms(n), y \in {1, 2} : ~ Pending(n, q) => n.prom[q].reactions[y] = <<>>
  BY <1>1, SMTT(60) DEF Settling, Lists
<1>4. \A q \in Proms(n), y \in {1, 2} : \A k \in List(n, q, y) :
        /\ n.prom[q].reactions[y][k].id \in Regs(n)
        /\ n.regs[n.prom[q].reactions[y][k].id] = q
  BY <1>1, <1>2, SMTT(60) DEF Settling, Lists
<1>5. \A q \in Proms(n), y \in {1, 2} : \A k, l \in List(n, q, y) :
        k < l => n.prom[q].reactions[y][k].id < n.prom[q].reactions[y][l].id
  BY <1>1, <1>2 DEF Lists
<1>6. ASSUME NEW id \in Regs(n), NEW y \in {1, 2}, Pending(n, n.regs[id])
      PROVE  \E k \in List(n, n.regs[id], y) : n.prom[n.regs[id]].reactions[y][k].id = id
  <2>1. id \in Regs(s) /\ n.regs = s.regs /\ s.regs[id] \in Proms(s)
    BY <1>1 DEF Settling, Refs
  <2>2. s.regs[id] # p /\ n.prom[s.regs[id]] = s.prom[s.regs[id]]
    BY <1>6, <2>1 DEF Settling
  <2>3. Pending(s, s.regs[id])
    <3>1. n.regs[id] = s.regs[id]
      BY <2>1
    <3>. QED  BY <1>6, <2>2, <3>1, Zenon DEF Pending
  <2>4. PICK k \in List(s, s.regs[id], y) : s.prom[s.regs[id]].reactions[y][k].id = id
    BY <1>1, <2>1, <2>3 DEF Lists
  <2>5. n.regs[id] = s.regs[id]
    BY <2>1
  <2>. QED  BY ONLY <2>2, <2>4, <2>5, Zenon DEF List
<1>. QED  BY <1>3, <1>4, <1>5, <1>6 DEF Lists

LEMMA SettleAdopted ==
  ASSUME NEW s, Good(s), NEW p, NEW v, NEW rej, MaySettle(s, p, v, rej),
         NEW n, NEW x, Settling(s, n, p, v, rej, x)
  PROVE  Owned(n) /\ Adopted(n)
<1>1. /\ Refs(s) /\ Owned(s) /\ Adopted(s) /\ p \in Proms(s) /\ x \in {1, 2} /\ Pending(s, p)
      /\ rej \in BOOLEAN /\ x = IF rej THEN 2 ELSE 1
  BY DEF Good, MaySettle, Settling
<1>2. \A q \in Proms(n), y \in {1, 2} : \A k \in List(n, q, y) :
         q # p /\ q \in Proms(s) /\ k \in List(s, q, y) /\ n.prom[q] = s.prom[q]
  BY <1>1 DEF Settling, List
<1>3. ASSUME NEW i \in Pairs(n), Internal(n, i)
      PROVE  i \in Pairs(s) /\ Internal(s, i) /\ Source(n, i) = Source(s, i) /\ Source(s, i) \in Proms(s)
  BY <1>1, <1>3, SMTT(60) DEF Settling, Grows, Refs, Internal, Source
<1>4. ASSUME NEW i \in Pairs(n), Internal(n, i), NEW k \in Jobs(n), IsReaction(n, k)
      PROVE  /\ n.jobs[k].pair # i
             /\ Uses(n.jobs[k].handler, i) =>
                   /\ n.prom[Source(n, i)].state = Outcome(n.jobs[k].handler[1] = "reject")
                   /\ n.prom[Source(n, i)].result = n.jobs[k].arg
  <2>1. CASE k \in Jobs(s)
    <3>1. n.jobs[k] = s.jobs[k] /\ IsReaction(s, k)
      BY <1>4, <2>1 DEF Settling, IsReaction
    <3>2. /\ s.jobs[k].pair # i
          /\ Uses(s.jobs[k].handler, i) =>
                /\ s.prom[Source(s, i)].state = Outcome(s.jobs[k].handler[1] = "reject")
                /\ s.prom[Source(s, i)].result = s.jobs[k].arg
      BY <1>1, <1>3, <1>4, <2>1, <3>1 DEF Owned
    <3>3. Uses(s.jobs[k].handler, i) => Source(s, i) # p
      BY <1>1, <3>2 DEF Pending, Outcome
    <3>. QED  BY <1>3, <1>4, <3>1, <3>2, <3>3 DEF Settling
  <2>2. CASE k \notin Jobs(s)
    <3>1. PICK m \in List(s, p, x) : k = Len(s.jobs) + m
      BY <2>2 DEF Settling
    <3>2. /\ n.jobs[k].pair = s.prom[p].reactions[x][m].pair
          /\ n.jobs[k].handler = s.prom[p].reactions[x][m].handler
          /\ n.jobs[k].arg = v
      BY <3>1 DEF Settling
    <3>3. /\ s.prom[p].reactions[x][m].pair # i
          /\ Uses(s.prom[p].reactions[x][m].handler, i) =>
                /\ p = Source(s, i)
                /\ s.prom[p].reactions[x][m].handler[1] = IF x = 1 THEN "resolve" ELSE "reject"
      BY <1>1, <1>3, <1>4 DEF Owned
    <3>4. (x = 1 <=> ~ rej)
      BY <1>1
    <3>. QED  BY <1>1, <1>3, <1>4, <3>2, <3>3, <3>4 DEF Settling, Outcome
  <2>. QED  BY <2>1, <2>2
<1>5. ASSUME NEW i \in Pairs(n), Internal(n, i)
      PROVE  /\ i # 1
             /\ \A f \in n.fns : ~ Uses(f, i)
             /\ \A a \in Aggrs(n) : n.aggr[a].pair # i
             /\ \A q \in Proms(n), y \in {1, 2} : \A k \in List(n, q, y) :
                   /\ n.prom[q].reactions[y][k].pair # i
                   /\ Uses(n.prom[q].reactions[y][k].handler, i) =>
                         /\ q = Source(n, i)
                         /\ n.prom[q].reactions[y][k].handler[1] = IF y = 1 THEN "resolve" ELSE "reject"
  <2>1. i \in Pairs(s) /\ Internal(s, i) /\ Source(n, i) = Source(s, i)
    BY <1>3, <1>5
  <2>2. /\ i # 1
        /\ \A f \in n.fns : ~ Uses(f, i)
        /\ \A a \in Aggrs(n) : n.aggr[a].pair # i
    BY <1>1, <2>1 DEF Owned, Settling
  <2>3. \A q \in Proms(n), y \in {1, 2} : \A k \in List(n, q, y) :
                   /\ n.prom[q].reactions[y][k].pair # i
                   /\ Uses(n.prom[q].reactions[y][k].handler, i) =>
                         /\ q = Source(n, i)
                         /\ n.prom[q].reactions[y][k].handler[1] = IF y = 1 THEN "resolve" ELSE "reject"
    BY <1>1, <1>2, <2>1 DEF Owned
  <2>. QED  BY <2>2, <2>3
<1>6. Owned(n)
  BY <1>4, <1>5 DEF Owned
<1>7. ASSUME NEW q \in Proms(n), ~ Pending(n, q)
      PROVE  /\ n.prom[q].to[1] = "prom" /\ n.prom[q].to[2] # q =>
                   /\ n.prom[n.prom[q].to[2]].state = n.prom[q].state
                   /\ n.prom[n.prom[q].to[2]].result = n.prom[q].result
             /\ n.prom[q].to = <<"prom", q, 0>> => n.prom[q].state = "rejected"
  <2>1. q \in Proms(s) /\ n.prom[q].to = s.prom[q].to
    BY DEF Settling
  <2>2. s.prom[q].to[1] = "prom" => s.prom[q].to[2] \in Proms(s)
    BY <1>1, <2>1 DEF Refs
  <2>3. CASE q = p
    BY <1>1, <2>1, <2>2, <2>3 DEF Settling, MaySettle, Outcome
  <2>4. CASE q # p
    <3>1. ~ Pending(s, q) /\ n.prom[q] = s.prom[q]
      BY <1>7, <2>1, <2>4 DEF Settling
    <3>2. s.prom[q].to[1] = "prom" /\ s.prom[q].to[2] # q => s.prom[q].to[2] # p
      BY <1>1, <2>1, <3>1 DEF Adopted, Pending
    <3>. QED  BY <1>1, <2>1, <2>2, <3>1, <3>2 DEF Adopted, Settling
  <2>. QED  BY <2>3, <2>4
<1>8. Adopted(n)
  BY <1>7 DEF Adopted
<1>. QED  BY <1>6, <1>8

LEMMA SettleGood ==
  ASSUME NEW s, Good(s), NEW p, NEW v, NEW rej, MaySettle(s, p, v, rej),
         NEW n, n = fulfill_or_reject_promise(s, p, v, rej)
  PROVE  Good(n) /\ Grows(s, n)
<1>1. PICK x : Settling(s, n, p, v, rej, x)
  BY SettleEffect
<1>2. n \in PromiseState /\ Len(n.pair) > 0 /\ Grows(s, n)
  BY <1>1 DEF Good, Settling
<1>. QED  BY <1>1, <1>2, SettleRefs, SettleOnce, SettleQueue, SettleLists, SettleAdopted DEF Good

-----------------------------------------------------------------------------
(* Steps that leave the jobs and the reactions alone: pairs are made or     *)
(* spent, promises are made, scripts get functions, a combinator counts.    *)

Extended(s, n) ==
  /\ n \in PromiseState /\ Len(n.pair) > 0 /\ Grows(s, n)
  /\ n.jobs = s.jobs /\ n.log = s.log /\ n.regs = s.regs /\ n.again = s.again
  /\ \A q \in Proms(s) :
        /\ n.prom[q].state = s.prom[q].state /\ n.prom[q].result = s.prom[q].result
        /\ n.prom[q].reactions = s.prom[q].reactions
        /\ ~ Pending(s, q) => n.prom[q].to = s.prom[q].to
  /\ \A q \in Proms(n) : q \notin Proms(s) =>
        /\ Pending(n, q) /\ n.prom[q].result[1] = "val" /\ n.prom[q].to[1] # "prom"
        /\ n.prom[q].reactions[1] = <<>> /\ n.prom[q].reactions[2] = <<>>

\* What Refs says of pairs, functions, combinators and promises.
Referring(n) ==
  /\ \A i \in Pairs(n) : n.pair[i].p \in Proms(n)
  /\ \A f \in n.fns : Func(n, f)
  /\ \A a \in Aggrs(n) :
        /\ n.aggr[a].pair \in Pairs(n)
        /\ n.aggr[a].index \in 0 .. Len(n.aggr[a].items)
        /\ \A i \in 1 .. Len(n.aggr[a].items) : Thenable(n, n.aggr[a].items[i])
  /\ \A q \in Proms(n) : n.prom[q].to[1] = "prom" => n.prom[q].to[2] \in Proms(n)

\* An internal pair is an old one, or is new, and no script has its functions.
Guarded(s, n) ==
  \A i \in Pairs(n) : Internal(n, i) =>
    /\ i \in Pairs(s) => Source(n, i) = Source(s, i)
    /\ i # 1
    /\ \A f \in n.fns : ~ Uses(f, i)
    /\ \A a \in Aggrs(n) : n.aggr[a].pair # i

LEMMA ExtendedLists ==
  ASSUME NEW s, Good(s), NEW n, Extended(s, n)
  PROVE  /\ \A q \in Proms(s) : Pending(n, q) <=> Pending(s, q)
         /\ \A q \in Proms(n), y \in {1, 2} : \A k \in List(n, q, y) :
               q \in Proms(s) /\ k \in List(s, q, y)
         /\ \A q \in Proms(s), y \in {1, 2} : List(n, q, y) = List(s, q, y)
         /\ Jobs(n) = Jobs(s) /\ Regs(n) = Regs(s) /\ Logged(n) = Logged(s)
         /\ \A k : IsReaction(n, k) <=> IsReaction(s, k)
         /\ \A k : IsThenable(n, k) <=> IsThenable(s, k)
<1>1. \A q \in Proms(s), y \in {1, 2} : List(n, q, y) = List(s, q, y)
  BY Zenon DEF Extended, List
<1>2. \A q \in Proms(n), y \in {1, 2} : \A k \in List(n, q, y) :
         q \in Proms(s) /\ k \in List(s, q, y)
  <2>1. \A q \in Proms(n), y \in {1, 2} : q \notin Proms(s) => List(n, q, y) = {}
    BY DEF Extended, List
  <2>. QED  BY <1>1, <2>1
<1>3. \A q \in Proms(s) : Pending(n, q) <=> Pending(s, q)
  BY Zenon DEF Extended, Pending
<1>4. /\ Jobs(n) = Jobs(s) /\ Regs(n) = Regs(s) /\ Logged(n) = Logged(s)
      /\ \A k : IsReaction(n, k) <=> IsReaction(s, k)
      /\ \A k : IsThenable(n, k) <=> IsThenable(s, k)
  BY DEF Extended, Jobs, Regs, Logged, IsReaction, IsThenable
<1>. QED  BY <1>1, <1>2, <1>3, <1>4

LEMMA ExtendedQueue ==
  ASSUME NEW s, Good(s), NEW n, Extended(s, n)
  PROVE  Plain(n) /\ Queue(n) /\ Lists(n)
<1>1. /\ Refs(s) /\ Plain(s) /\ Queue(s) /\ Lists(s) /\ Proms(s) \subseteq Proms(n)
      /\ n.jobs = s.jobs /\ n.log = s.log /\ n.regs = s.regs
  BY DEF Good, Extended, Grows
<1>2. /\ \A q \in Proms(s) : Pending(n, q) <=> Pending(s, q)
      /\ \A q \in Proms(n), y \in {1, 2} : \A k \in List(n, q, y) :
            q \in Proms(s) /\ k \in List(s, q, y)
      /\ \A q \in Proms(s), y \in {1, 2} : List(n, q, y) = List(s, q, y)
      /\ Jobs(n) = Jobs(s) /\ Regs(n) = Regs(s) /\ Logged(n) = Logged(s)
      /\ \A k : IsReaction(n, k) <=> IsReaction(s, k)
  BY ExtendedLists
<1>3. Plain(n)
  BY <1>1, <1>2 DEF Plain, Extended
<1>4. \A k : PromiseOf(n, k) = PromiseOf(s, k)
  BY <1>1 DEF PromiseOf
<1>5. \A k \in Jobs(s) : IsReaction(s, k) => PromiseOf(s, k) \in Proms(s)
  BY <1>1 DEF Queue, Refs, PromiseOf
<1>6. \A k \in Logged(s) : s.regs[s.log[k]] \in Proms(s)
  BY <1>1 DEF Queue, Refs
<1>7. \A id \in Regs(s) : s.regs[id] \in Proms(s)
  BY <1>1 DEF Refs
<1>8. Queue(n)
  <2>1. /\ \A k \in Jobs(n) : IsReaction(n, k) =>
              n.jobs[k].id \in Regs(n) /\ ~ Pending(n, PromiseOf(n, k))
        /\ \A k \in Logged(n) : n.log[k] \in Regs(n) /\ ~ Pending(n, n.regs[n.log[k]])
    BY <1>1, <1>2, <1>4, <1>5, <1>6 DEF Queue
  <2>2. \A k, l \in Jobs(n) : k < l /\ IsReaction(n, k) /\ IsReaction(n, l)
                             /\ PromiseOf(n, k) = PromiseOf(n, l)
                           => n.jobs[k].id < n.jobs[l].id
    BY <1>1, <1>2, <1>4 DEF Queue
  <2>3. \A k \in Logged(n), l \in Jobs(n) :
        IsReaction(n, l) /\ n.regs[n.log[k]] = PromiseOf(n, l) => n.log[k] < n.jobs[l].id
    BY <1>1, <1>2, <1>4 DEF Queue
  <2>4. \A k, l \in Logged(n) : k < l /\ n.regs[n.log[k]] = n.regs[n.log[l]] => n.log[k] < n.log[l]
    BY <1>1, <1>2 DEF Queue
  <2>5. \A id \in Regs(n) : ~ Pending(n, n.regs[id]) =>
        \/ \E k \in Jobs(n) : IsReaction(n, k) /\ n.jobs[k].id = id
        \/ \E k \in Logged(n) : n.log[k] = id
    BY <1>1, <1>2, <1>7 DEF Queue
  <2>. QED  BY <2>1, <2>2, <2>3, <2>4, <2>5 DEF Queue
<1>9. \A q \in Proms(s) : n.prom[q].reactions = s.prom[q].reactions
  BY Zenon DEF Extended
<1>10. Lists(n)
  <2>1. \A q \in Proms(n), y \in {1, 2} : ~ Pending(n, q) => n.prom[q].reactions[y] = <<>>
    BY <1>1, <1>2, <1>9, SMTT(60) DEF Lists, Extended
  <2>2. \A q \in Proms(n), y \in {1, 2} : \A k \in List(n, q, y) :
        /\ n.prom[q].reactions[y][k].id \in Regs(n)
        /\ n.regs[n.prom[q].reactions[y][k].id] = q
    <3>1. TAKE q \in Proms(n), y \in {1, 2}
    <3>2. TAKE k \in List(n, q, y)
    <3>3. q \in Proms(s) /\ k \in List(s, q, y)
      BY <1>2
    <3>4. n.prom[q].reactions[y][k] = s.prom[q].reactions[y][k]
      BY <1>9, <3>3
    <3>5. /\ s.prom[q].reactions[y][k].id \in Regs(s)
          /\ s.regs[s.prom[q].reactions[y][k].id] = q
      BY <1>1, <3>3, SMTT(60) DEF Lists
    <3>. QED  BY ONLY <1>1, <1>2, <3>4, <3>5, Zenon
  <2>3. \A q \in Proms(n), y \in {1, 2} : \A k, l \in List(n, q, y) :
        k < l => n.prom[q].reactions[y][k].id < n.prom[q].reactions[y][l].id
    BY <1>1, <1>2, <1>9 DEF Lists
  <2>4. \A id \in Regs(n), y \in {1, 2} : Pending(n, n.regs[id]) =>
        \E k \in List(n, n.regs[id], y) : n.prom[n.regs[id]].reactions[y][k].id = id
    <3>1. TAKE id \in Regs(n), y \in {1, 2}
    <3>2. HAVE Pending(n, n.regs[id])
    <3>3. id \in Regs(s) /\ n.regs[id] = s.regs[id] /\ s.regs[id] \in Proms(s)
      BY <1>1, <1>2, <1>7
    <3>4. Pending(s, s.regs[id])
      BY <1>2, <3>2, <3>3
    <3>5. PICK k \in List(s, s.regs[id], y) : s.prom[s.regs[id]].reactions[y][k].id = id
      BY <1>1, <3>3, <3>4 DEF Lists
    <3>6. k \in List(n, n.regs[id], y) /\ n.prom[n.regs[id]].reactions[y][k].id = id
      BY <1>2, <1>9, <3>3, <3>5
    <3>. QED  BY <3>6
  <2>. QED  BY <2>1, <2>2, <2>3, <2>4 DEF Lists
<1>. QED  BY <1>3, <1>8, <1>10

LEMMA ExtendedRefs ==
  ASSUME NEW s, Good(s), NEW n, Extended(s, n), Referring(n)
  PROVE  Refs(n)
<1>1. /\ Refs(s) /\ Grows(s, n) /\ n.jobs = s.jobs /\ n.regs = s.regs
      /\ Proms(s) \subseteq Proms(n) /\ Pairs(s) \subseteq Pairs(n)
  BY DEF Good, Extended, Grows
<1>2. /\ \A q \in Proms(n), y \in {1, 2} : \A k \in List(n, q, y) :
            q \in Proms(s) /\ k \in List(s, q, y)
      /\ Jobs(n) = Jobs(s) /\ Regs(n) = Regs(s)
      /\ \A k : IsReaction(n, k) <=> IsReaction(s, k)
      /\ \A k : IsThenable(n, k) <=> IsThenable(s, k)
  BY ExtendedLists
<1>3. /\ \A h : Handler(s, h) => Handler(n, h)
      /\ \A w : Thenable(s, w) => Thenable(n, w)
  BY <1>1, RefsGrow
<1>4. \A q \in Proms(s) : n.prom[q].reactions = s.prom[q].reactions
  BY Zenon DEF Extended
<1>5. \A q \in Proms(n), y \in {1, 2} : \A k \in List(n, q, y) :
        /\ Handler(n, n.prom[q].reactions[y][k].handler)
        /\ n.prom[q].reactions[y][k].pair \in {0} \cup Pairs(n)
  BY <1>1, <1>2, <1>3, <1>4 DEF Refs
<1>6. /\ \A k \in Jobs(n) : IsReaction(n, k) =>
            Handler(n, n.jobs[k].handler) /\ n.jobs[k].pair \in {0} \cup Pairs(n)
      /\ \A k \in Jobs(n) : IsThenable(n, k) => n.jobs[k].p \in Proms(n) /\ Thenable(n, n.jobs[k].v)
      /\ \A i \in Regs(n) : n.regs[i] \in Proms(n)
  BY <1>1, <1>2, <1>3 DEF Refs
<1>. QED  BY <1>5, <1>6 DEF Refs, Referring

LEMMA ExtendedOwned ==
  ASSUME NEW s, Good(s), NEW n, Extended(s, n), Guarded(s, n)
  PROVE  Owned(n)
<1>1. /\ Refs(s) /\ Owned(s) /\ Grows(s, n) /\ n.jobs = s.jobs /\ s \in PromiseState
  BY DEF Good, Extended
<1>2. /\ \A q \in Proms(n), y \in {1, 2} : \A k \in List(n, q, y) :
            q \in Proms(s) /\ k \in List(s, q, y)
      /\ Jobs(n) = Jobs(s)
      /\ \A k : IsReaction(n, k) <=> IsReaction(s, k)
  BY ExtendedLists
<1>3. \A q \in Proms(s) :
         /\ n.prom[q].reactions = s.prom[q].reactions
         /\ n.prom[q].state = s.prom[q].state /\ n.prom[q].result = s.prom[q].result
  BY Zenon DEF Extended
<1>4. SUFFICES ASSUME NEW i \in Pairs(n), Internal(n, i)
               PROVE  /\ \A q \in Proms(n), x \in {1, 2} : \A k \in List(n, q, x) :
                            /\ n.prom[q].reactions[x][k].pair # i
                            /\ Uses(n.prom[q].reactions[x][k].handler, i) =>
                                  /\ q = Source(n, i)
                                  /\ n.prom[q].reactions[x][k].handler[1] = IF x = 1 THEN "resolve" ELSE "reject"
                      /\ \A k \in Jobs(n) : IsReaction(n, k) =>
                            /\ n.jobs[k].pair # i
                            /\ Uses(n.jobs[k].handler, i) =>
                                  /\ n.prom[Source(n, i)].state = Outcome(n.jobs[k].handler[1] = "reject")
                                  /\ n.prom[Source(n, i)].result = n.jobs[k].arg
  BY DEF Owned, Guarded
<1>5. CASE i \in Pairs(s)
  <2>1. Internal(s, i) /\ Source(n, i) = Source(s, i) /\ Source(s, i) \in Proms(s)
    BY <1>1, <1>4, <1>5 DEF Grows, Guarded, Refs, Internal, Source
  <2>2. \A q \in Proms(n), x \in {1, 2} : \A k \in List(n, q, x) :
            /\ n.prom[q].reactions[x][k].pair # i
            /\ Uses(n.prom[q].reactions[x][k].handler, i) =>
                  /\ q = Source(n, i)
                  /\ n.prom[q].reactions[x][k].handler[1] = IF x = 1 THEN "resolve" ELSE "reject"
    BY <1>1, <1>2, <1>3, <1>5, <2>1, SMTT(60) DEF Owned
  <2>3. \A k \in Jobs(n) : IsReaction(n, k) =>
            /\ n.jobs[k].pair # i
            /\ Uses(n.jobs[k].handler, i) =>
                  /\ n.prom[Source(n, i)].state = Outcome(n.jobs[k].handler[1] = "reject")
                  /\ n.prom[Source(n, i)].result = n.jobs[k].arg
    BY <1>1, <1>2, <1>3, <1>5, <2>1 DEF Owned
  <2>. QED  BY <2>2, <2>3
<1>6. CASE i \notin Pairs(s)
  <2>1. \A h : Handler(s, h) => ~ Uses(h, i)
    BY <1>6 DEF Handler, Func, Uses, NoHandler, Script, Resume
  <2>2. i # 0
    BY DEF Pairs
  <2>. QED  BY <1>1, <1>2, <1>3, <1>6, <2>1, <2>2 DEF Refs
<1>. QED  BY <1>5, <1>6

LEMMA ExtendedGood ==
  ASSUME NEW s, Good(s), NEW n, Extended(s, n), Referring(n), Guarded(s, n), Once(n)
  PROVE  Good(n)
<1>1. Adopted(n)
  <2>1. Adopted(s) /\ Refs(s) /\ Proms(s) \subseteq Proms(n)
    BY DEF Good, Extended, Grows
  <2>2. SUFFICES ASSUME NEW q \in Proms(n), ~ Pending(n, q)
                 PROVE  /\ n.prom[q].to[1] = "prom" /\ n.prom[q].to[2] # q =>
                              /\ n.prom[n.prom[q].to[2]].state = n.prom[q].state
                              /\ n.prom[n.prom[q].to[2]].result = n.prom[q].result
                        /\ n.prom[q].to = <<"prom", q, 0>> => n.prom[q].state = "rejected"
    BY DEF Adopted
  <2>3. q \in Proms(s) /\ ~ Pending(s, q)
    BY <2>2, ExtendedLists DEF Extended
  <2>4. n.prom[q].to = s.prom[q].to
    BY <2>3 DEF Extended
  <2>5. s.prom[q].to[1] = "prom" => s.prom[q].to[2] \in Proms(s)
    BY <2>1, <2>3 DEF Refs
  <2>. QED  BY <2>1, <2>3, <2>4, <2>5 DEF Adopted, Extended
<1>. QED  BY <1>1, ExtendedQueue, ExtendedRefs, ExtendedOwned DEF Good, Extended

-----------------------------------------------------------------------------
(* A resolving function is called.                                         *)

\* The state after the flag of pair i is set.
Spent(s, i, v, rej) ==
  [s EXCEPT !.pair[i].done = TRUE,
            !.prom[s.pair[i].p].to = IF rej \/ @[1] = "prom" THEN @ ELSE v]

\* The arguments of calls: an internal pair is called with the outcome of the
\* promise that its own promise was resolved with.
MayCall(s, i, v, rej) ==
  /\ i \in Pairs(s) /\ v \in Triples /\ rej \in BOOLEAN
  /\ v[1] = "val" \/ (~ rej /\ (v[1] = "throwing" \/ Thenable(s, v)))
  /\ Internal(s, i) =>
        s.prom[Source(s, i)].state = Outcome(rej) /\ s.prom[Source(s, i)].result = v

Spending(s, n, i, v, rej) ==
  /\ n \in PromiseState /\ Proms(n) = Proms(s) /\ Pairs(n) = Pairs(s) /\ Aggrs(n) = Aggrs(s)
  /\ n.jobs = s.jobs /\ n.log = s.log /\ n.regs = s.regs /\ n.again = s.again
  /\ n.aggr = s.aggr /\ n.fns = s.fns
  /\ \A k \in Pairs(s) : n.pair[k].p = s.pair[k].p
  /\ \A k \in Pairs(s) : n.pair[k].done <=> k = i \/ s.pair[k].done
  /\ \A q \in Proms(s) : /\ n.prom[q].state = s.prom[q].state
                         /\ n.prom[q].result = s.prom[q].result
                         /\ n.prom[q].reactions = s.prom[q].reactions
  /\ \A q \in Proms(s) : q # s.pair[i].p => n.prom[q].to = s.prom[q].to
  /\ LET to == s.prom[s.pair[i].p].to
     IN  n.prom[s.pair[i].p].to = IF rej \/ to[1] = "prom" THEN to ELSE v

LEMMA SpendParts ==
  ASSUME NEW s, s \in PromiseState, NEW i \in Pairs(s), s.pair[i].p \in Proms(s),
         NEW v \in Triples, NEW rej \in BOOLEAN, NEW n, n = Spent(s, i, v, rej)
  PROVE  Spending(s, n, i, v, rej)
<1>1. PICK p : p = s.pair[i].p
  OBVIOUS
<1>2. PICK w : w = IF rej \/ s.prom[p].to[1] = "prom" THEN s.prom[p].to ELSE v
  OBVIOUS
<1>3. PICK d : d = [s.prom[p] EXCEPT !.to = w]
  OBVIOUS
<1>4. PICK g : g = [s.pair[i] EXCEPT !.done = TRUE]
  OBVIOUS
<1>5. /\ s.prom \in Seq(JSPromiseData) /\ s.pair \in Seq(JSPromiseFunctionDataResolved)
      /\ s.prom[p] \in JSPromiseData /\ s.pair[i] \in JSPromiseFunctionDataResolved
      /\ p \in Proms(s)
  BY <1>1, StateParts
<1>6. n = [s EXCEPT !.pair = [s.pair EXCEPT ![i] = g], !.prom = [s.prom EXCEPT ![p] = d]]
  BY <1>1, <1>2, <1>3, <1>4 DEF Spent
<1>7. w \in Triples
  BY <1>2, <1>5 DEF JSPromiseData
<1>8. /\ d \in JSPromiseData /\ d.to = w /\ d.state = s.prom[p].state /\ d.result = s.prom[p].result
      /\ d.reactions = s.prom[p].reactions
  BY <1>3, <1>5, <1>7 DEF JSPromiseData
<1>9. g \in JSPromiseFunctionDataResolved /\ g.done = TRUE /\ g.p = p
  BY <1>1, <1>4, <1>5 DEF JSPromiseFunctionDataResolved
<1>10. /\ [s.pair EXCEPT ![i] = g] \in Seq(JSPromiseFunctionDataResolved)
       /\ Len([s.pair EXCEPT ![i] = g]) = Len(s.pair)
  BY <1>5, <1>9 DEF Pairs
<1>11. /\ [s.prom EXCEPT ![p] = d] \in Seq(JSPromiseData)
       /\ Len([s.prom EXCEPT ![p] = d]) = Len(s.prom)
  BY <1>5, <1>8 DEF Proms
<1>12. /\ n \in PromiseState /\ n.pair = [s.pair EXCEPT ![i] = g] /\ n.prom = [s.prom EXCEPT ![p] = d]
       /\ n.jobs = s.jobs /\ n.log = s.log /\ n.regs = s.regs /\ n.again = s.again
       /\ n.aggr = s.aggr /\ n.fns = s.fns
  BY <1>6, <1>10, <1>11 DEF PromiseState
<1>13. Proms(n) = Proms(s) /\ Pairs(n) = Pairs(s) /\ Aggrs(n) = Aggrs(s)
  BY <1>10, <1>11, <1>12 DEF Proms, Pairs, Aggrs
<1>14. n.pair[i] = g /\ \A k \in Pairs(s) : k # i => n.pair[k] = s.pair[k]
  BY <1>5, <1>12 DEF Pairs
<1>15. n.prom[p] = d /\ \A q \in Proms(s) : q # p => n.prom[q] = s.prom[q]
  BY <1>1, <1>5, <1>12 DEF Proms
<1>16. \A k \in Pairs(s) : n.pair[k].p = s.pair[k].p
  BY <1>1, <1>9, <1>14
<1>17. \A k \in Pairs(s) : n.pair[k].done <=> k = i \/ s.pair[k].done
  BY <1>9, <1>14
<1>18. \A q \in Proms(s) : /\ n.prom[q].state = s.prom[q].state
                           /\ n.prom[q].result = s.prom[q].result
                           /\ n.prom[q].reactions = s.prom[q].reactions
  BY <1>8, <1>15
<1>19. \A q \in Proms(s) : q # p => n.prom[q].to = s.prom[q].to
  BY <1>15
<1>20. n.prom[p].to = w
  BY <1>8, <1>15
<1>. QED  BY <1>1, <1>2, <1>12, <1>13, <1>16, <1>17, <1>18, <1>19, <1>20 DEF Spending

LEMMA SpendGood ==
  ASSUME NEW s, Good(s), NEW i, NEW v, NEW rej, MayCall(s, i, v, rej), ~ s.pair[i].done,
         NEW n, n = Spent(s, i, v, rej), NEW p, p = s.pair[i].p
  PROVE  /\ Good(n) /\ Grows(s, n) /\ Spending(s, n, i, v, rej)
         /\ p \in Proms(n) /\ Pending(n, p)
         /\ \A k \in Pairs(n) : n.pair[k].p = p => n.pair[k].done
         /\ \A k \in Jobs(n) : IsThenable(n, k) => n.jobs[k].p # p
<1>1. /\ s \in PromiseState /\ Refs(s) /\ Once(s) /\ Owned(s) /\ i \in Pairs(s) /\ v \in Triples
      /\ rej \in BOOLEAN /\ p \in Proms(s) /\ Len(s.pair) > 0
  BY DEF Good, MayCall, Refs
<1>2. Spending(s, n, i, v, rej)
  BY <1>1, SpendParts
<1>3. Pending(s, p) /\ Pending(n, p) /\ p \in Proms(n)
  BY <1>1, <1>2 DEF Once, Spending, Pending
<1>4. \A k \in Pairs(n) : n.pair[k].p = p => n.pair[k].done
  BY <1>1, <1>2 DEF Once, Spending
<1>5. \A k \in Jobs(n) : IsThenable(n, k) => n.jobs[k].p # p
  BY <1>1, <1>2 DEF Once, Spending, Jobs, IsThenable
<1>6. \A k \in Pairs(n) : Internal(n, k) => Internal(s, k) /\ Source(n, k) = Source(s, k)
  <2>1. \A k \in Pairs(n) : Internal(n, k) =>
            k \in Pairs(s) /\ ~ s.pair[k].done /\ n.pair[k].p # p /\ n.pair[k].p = s.pair[k].p
    BY <1>2, <1>4, Zenon DEF Internal, Spending
  <2>2. \A k \in Pairs(n) : Internal(n, k) =>
            n.prom[n.pair[k].p].to = s.prom[s.pair[k].p].to
    BY <1>1, <1>2, <2>1, SMTT(60) DEF Spending, Refs
  <2>. QED  BY <2>1, <2>2, Zenon DEF Internal, Source
<1>7. Grows(s, n)
  BY <1>2, <1>6 DEF Grows, Spending
<1>8. \A q \in Proms(s) : ~ Pending(s, q) => n.prom[q].to = s.prom[q].to
  BY <1>2, <1>3 DEF Spending
<1>9. Extended(s, n)
  <2>1. n.pair \in Seq(JSPromiseFunctionDataResolved) /\ Len(n.pair) > 0
    <3>1. 1 \in Pairs(n)
      BY <1>1, <1>2 DEF Spending, Pairs, PromiseState
    <3>2. n.pair \in Seq(JSPromiseFunctionDataResolved)
      BY <1>2, StateParts DEF Spending
    <3>3. Len(n.pair) \in Nat
      BY <3>2, SeqParts
    <3>. QED  BY <3>1, <3>2, <3>3 DEF Pairs
  <2>. QED  BY <1>2, <1>7, <1>8, <2>1 DEF Extended, Spending
<1>10. \A q \in Proms(n) : n.prom[q].to[1] = "prom" => n.prom[q].to[2] \in Proms(n)
  <2>1. v[1] = "prom" /\ ~ rej => v[2] \in Proms(s)
    BY DEF MayCall, Thenable, Foreign
  <2>. QED  BY <1>1, <1>2, <2>1, SMTT(60) DEF Spending, Refs
<1>11. Referring(n)
  <2>1. \A f : Func(s, f) => Func(n, f)
    BY <1>7, RefsGrow
  <2>2. \A w : Thenable(s, w) => Thenable(n, w)
    BY <1>7, RefsGrow
  <2>3. \A k \in Pairs(n) : n.pair[k].p \in Proms(n)
    BY <1>1, <1>2 DEF Spending, Refs
  <2>. QED  BY <1>1, <1>2, <1>10, <2>1, <2>2, <2>3 DEF Referring, Spending, Refs
<1>12. Guarded(s, n)
  BY <1>1, <1>2, <1>6, SMTT(60) DEF Guarded, Owned, Spending
<1>13. Once(n)
  <2>1. \A k \in Jobs(n) : IsThenable(n, k) =>
          /\ k \in Jobs(s) /\ IsThenable(s, k) /\ n.jobs[k] = s.jobs[k] /\ s.jobs[k].p # p
          /\ s.jobs[k].p \in Proms(s)
    BY <1>1, <1>2, <1>5, SMTT(60) DEF Spending, Jobs, IsThenable, Refs
  <2>2. \A q \in Proms(s) : Pending(n, q) <=> Pending(s, q)
    BY <1>2 DEF Spending, Pending
  <2>3. \A k \in Jobs(n) : IsThenable(n, k) =>
          /\ Pending(n, n.jobs[k].p) /\ n.prom[n.jobs[k].p].to = n.jobs[k].v
          /\ \A l \in Pairs(n) : n.pair[l].p = n.jobs[k].p => n.pair[l].done
    BY <1>1, <1>2, <2>1, <2>2 DEF Spending, Once
  <2>4. /\ n.again = {}
        /\ \A l, k \in Pairs(n) :
              ~ n.pair[l].done /\ ~ n.pair[k].done /\ n.pair[l].p = n.pair[k].p => l = k
        /\ \A l \in Pairs(n) : ~ n.pair[l].done => Pending(n, n.pair[l].p)
    BY <1>1, <1>2, <2>2, SMTT(60) DEF Spending, Once, Refs
  <2>5. \A k, l \in Jobs(n) :
          IsThenable(n, k) /\ IsThenable(n, l) /\ n.jobs[k].p = n.jobs[l].p => k = l
    BY <1>1, <2>1 DEF Once
  <2>. QED  BY <2>3, <2>4, <2>5 DEF Once
<1>14. Good(n)
  BY <1>9, <1>11, <1>12, <1>13, ExtendedGood
<1>. QED  BY <1>2, <1>3, <1>4, <1>5, <1>7, <1>14

LEMMA SameLists ==
  ASSUME NEW s, Lists(s), NEW n, n.prom = s.prom, n.regs = s.regs
  PROVE  Lists(n)
<1>1. Proms(n) = Proms(s) /\ Regs(n) = Regs(s)
  BY DEF Proms, Regs
<1>2. \A q, x : List(n, q, x) = List(s, q, x)
  BY DEF List
<1>3. \A q : Pending(n, q) <=> Pending(s, q)
  BY DEF Pending
<1>4. \A q \in Proms(n), x \in {1, 2} : ~ Pending(n, q) => n.prom[q].reactions[x] = <<>>
  BY <1>1, <1>3 DEF Lists
<1>5. \A q \in Proms(n), x \in {1, 2} : \A k \in List(n, q, x) :
         /\ n.prom[q].reactions[x][k].id \in Regs(n)
         /\ n.regs[n.prom[q].reactions[x][k].id] = q
  <2>1. TAKE q \in Proms(n), x \in {1, 2}
  <2>2. TAKE k \in List(n, q, x)
  <2>3. q \in Proms(s) /\ k \in List(s, q, x)
    BY <1>1, <1>2
  <2>4. /\ s.prom[q].reactions[x][k].id \in Regs(s)
        /\ s.regs[s.prom[q].reactions[x][k].id] = q
    BY <2>3, SMTT(60) DEF Lists
  <2>. QED  BY <1>1, <2>4, Zenon
<1>6. \A q \in Proms(n), x \in {1, 2} : \A k, m \in List(n, q, x) :
         k < m => n.prom[q].reactions[x][k].id < n.prom[q].reactions[x][m].id
  BY <1>1, <1>2, SMTT(60) DEF Lists
<1>7. \A id \in Regs(n), x \in {1, 2} : Pending(n, n.regs[id]) =>
         \E k \in List(n, n.regs[id], x) : n.prom[n.regs[id]].reactions[x][k].id = id
  <2>1. TAKE id \in Regs(n), x \in {1, 2}
  <2>2. HAVE Pending(n, n.regs[id])
  <2>3. id \in Regs(s) /\ n.regs[id] = s.regs[id] /\ Pending(s, s.regs[id])
    BY <1>1, <1>3, <2>2
  <2>4. PICK k \in List(s, s.regs[id], x) : s.prom[s.regs[id]].reactions[x][k].id = id
    BY <2>3 DEF Lists
  <2>5. k \in List(n, n.regs[id], x) /\ n.prom[n.regs[id]].reactions[x][k].id = id
    BY <1>2, <2>3, <2>4, Zenon
  <2>. QED  BY <2>5
<1>. QED  BY <1>4, <1>5, <1>6, <1>7 DEF Lists

\* One job more.
Enqueues(s, n, j) ==
  /\ n \in PromiseState
  /\ n.prom = s.prom /\ n.pair = s.pair /\ n.aggr = s.aggr /\ n.fns = s.fns
  /\ n.log = s.log /\ n.again = s.again
  /\ Len(n.jobs) = Len(s.jobs) + 1 /\ Len(s.jobs) \in Nat
  /\ \A k \in Jobs(s) : n.jobs[k] = s.jobs[k]
  /\ n.jobs[Len(s.jobs) + 1] = j
  /\ \A k \in Jobs(n) : k \in Jobs(s) \/ k = Len(s.jobs) + 1
  /\ \A k \in Jobs(s) : k \in Jobs(n) /\ k < Len(s.jobs) + 1
  /\ Len(s.jobs) + 1 \in Jobs(n) /\ Len(s.jobs) + 1 \notin Jobs(s)

LEMMA EnqueueParts ==
  ASSUME NEW s, s \in PromiseState, NEW j \in PromiseJob, NEW n, n = JS_EnqueueJob(s, j)
  PROVE  Enqueues(s, n, j) /\ n.regs = s.regs
<1>1. PICK q : q = s.jobs
  OBVIOUS
<1>2. q \in Seq(PromiseJob) /\ Len(q) \in Nat
  BY <1>1, StateParts
<1>3. PICK r : r = Append(q, j)
  OBVIOUS
<1>4. /\ r \in Seq(PromiseJob) /\ Len(r) = Len(q) + 1
      /\ \A k \in 1 .. Len(q) : r[k] = q[k]
      /\ r[Len(q) + 1] = j
  BY <1>2, <1>3, AppendParts
<1>5. n = [s EXCEPT !.jobs = r]
  BY <1>1, <1>3 DEF JS_EnqueueJob
<1>6. /\ n \in PromiseState /\ n.jobs = r
      /\ n.prom = s.prom /\ n.pair = s.pair /\ n.aggr = s.aggr /\ n.fns = s.fns
      /\ n.log = s.log /\ n.again = s.again /\ n.regs = s.regs
  BY <1>4, <1>5 DEF PromiseState
<1>7. /\ \A k \in 1 .. Len(r) : k \in 1 .. Len(q) \/ k = Len(q) + 1
      /\ \A k \in 1 .. Len(q) : k \in 1 .. Len(r) /\ k < Len(q) + 1
      /\ Len(q) + 1 \in 1 .. Len(r) /\ Len(q) + 1 \notin 1 .. Len(q)
  BY <1>2, <1>4
<1>. QED  BY <1>1, <1>2, <1>4, <1>6, <1>7 DEF Enqueues, Jobs

\* The job of a promise that was resolved with a thenable.
LEMMA EnqueueGood ==
  ASSUME NEW s, Good(s), NEW p \in Proms(s), NEW v, Pending(s, p), Thenable(s, v), v \in Triples,
         s.prom[p].to = v,
         \A k \in Pairs(s) : s.pair[k].p = p => s.pair[k].done,
         \A k \in Jobs(s) : IsThenable(s, k) => s.jobs[k].p # p,
         NEW n, n = JS_EnqueueJob(s, [kind |-> "thenable", p |-> p, v |-> v])
  PROVE  Good(n) /\ Grows(s, n)
<1>1. PICK j : j = [kind |-> "thenable", p |-> p, v |-> v]
  OBVIOUS
<1>2. PICK l : l = Len(s.jobs) + 1
  OBVIOUS
<1>3. s \in PromiseState /\ p \in Nat
  BY DEF Good, Proms
<1>4. j \in PromiseJob /\ j.kind = "thenable" /\ j.p = p /\ j.v = v
  BY <1>1, <1>3 DEF PromiseJob, ThenableJob
<1>5. Enqueues(s, n, j) /\ n.regs = s.regs
  BY <1>1, <1>3, <1>4, EnqueueParts
<1>6. /\ n.prom = s.prom /\ n.pair = s.pair /\ n.aggr = s.aggr /\ n.fns = s.fns
      /\ n.log = s.log /\ n.again = s.again /\ n.regs = s.regs
      /\ n \in PromiseState /\ n.jobs[l] = j /\ l \in Jobs(n) /\ l \notin Jobs(s)
      /\ \A k \in Jobs(n) : k \in Jobs(s) \/ k = l
      /\ \A k \in Jobs(s) : k \in Jobs(n) /\ n.jobs[k] = s.jobs[k]
  BY <1>2, <1>5 DEF Enqueues
<1>7. /\ Proms(n) = Proms(s) /\ Pairs(n) = Pairs(s) /\ Aggrs(n) = Aggrs(s) /\ Regs(n) = Regs(s)
      /\ Logged(n) = Logged(s) /\ \A q, x : List(n, q, x) = List(s, q, x)
      /\ \A q : Pending(n, q) <=> Pending(s, q)
      /\ \A i : Internal(n, i) <=> Internal(s, i)
      /\ \A i : Source(n, i) = Source(s, i)
  BY <1>6 DEF Proms, Pairs, Aggrs, Regs, Logged, List, Pending, Internal, Source
<1>8. /\ \A k \in Jobs(n) : IsReaction(n, k) =>
            k \in Jobs(s) /\ IsReaction(s, k) /\ n.jobs[k] = s.jobs[k] /\ PromiseOf(n, k) = PromiseOf(s, k)
      /\ \A k \in Jobs(n) : IsThenable(n, k) =>
            \/ k \in Jobs(s) /\ IsThenable(s, k) /\ n.jobs[k] = s.jobs[k]
            \/ k = l /\ n.jobs[k].p = p /\ n.jobs[k].v = v
      /\ \A k \in Jobs(s) : IsReaction(s, k) => IsReaction(n, k)
  <2>1. ~ IsReaction(n, l) /\ n.jobs[l].p = p /\ n.jobs[l].v = v
    BY <1>4, <1>6 DEF IsReaction
  <2>. QED  BY <1>6, <2>1 DEF IsReaction, IsThenable, PromiseOf
<1>9. Grows(s, n)
  BY <1>7 DEF Grows
<1>10. /\ Refs(s) /\ Plain(s) /\ Once(s) /\ Queue(s) /\ Lists(s) /\ Owned(s) /\ Adopted(s)
       /\ Len(n.pair) > 0
  BY <1>6 DEF Good
<1>11. Refs(n)
  <2>1. /\ \A f : Func(s, f) => Func(n, f)
        /\ \A h : Handler(s, h) => Handler(n, h)
        /\ \A w : Thenable(s, w) => Thenable(n, w)
    BY <1>9, RefsGrow
  <2>2. /\ \A k \in Jobs(n) : IsReaction(n, k) =>
              Handler(n, n.jobs[k].handler) /\ n.jobs[k].pair \in {0} \cup Pairs(n)
        /\ \A k \in Jobs(n) : IsThenable(n, k) => n.jobs[k].p \in Proms(n) /\ Thenable(n, n.jobs[k].v)
    BY <1>7, <1>8, <1>10, <2>1 DEF Refs
  <2>3. /\ \A i \in Pairs(n) : n.pair[i].p \in Proms(n)
        /\ \A f \in n.fns : Func(n, f)
        /\ \A a \in Aggrs(n) :
              /\ n.aggr[a].pair \in Pairs(n)
              /\ n.aggr[a].index \in 0 .. Len(n.aggr[a].items)
              /\ \A i \in 1 .. Len(n.aggr[a].items) : Thenable(n, n.aggr[a].items[i])
    BY <1>6, <1>7, <1>10, <2>1 DEF Refs
  <2>4. /\ \A q \in Proms(n), x \in {1, 2} : \A k \in List(n, q, x) :
              /\ Handler(n, n.prom[q].reactions[x][k].handler)
              /\ n.prom[q].reactions[x][k].pair \in {0} \cup Pairs(n)
        /\ \A i \in Regs(n) : n.regs[i] \in Proms(n)
        /\ \A q \in Proms(n) : n.prom[q].to[1] = "prom" => n.prom[q].to[2] \in Proms(n)
    BY <1>6, <1>7, <1>10, <2>1, SMTT(60) DEF Refs
  <2>. QED  BY <2>2, <2>3, <2>4 DEF Refs
<1>12. Plain(n)
  BY <1>6, <1>7, <1>8, <1>10 DEF Plain
<1>13. Once(n)
  <2>1. \A k \in Jobs(n) : IsThenable(n, k) =>
          /\ Pending(n, n.jobs[k].p) /\ n.prom[n.jobs[k].p].to = n.jobs[k].v
          /\ \A i \in Pairs(n) : n.pair[i].p = n.jobs[k].p => n.pair[i].done
    BY <1>6, <1>7, <1>8, <1>10 DEF Once
  <2>2. \A k, m \in Jobs(n) :
          IsThenable(n, k) /\ IsThenable(n, m) /\ n.jobs[k].p = n.jobs[m].p => k = m
    BY <1>8, <1>10 DEF Once
  <2>3. /\ n.again = {}
        /\ \A i, k \in Pairs(n) :
              ~ n.pair[i].done /\ ~ n.pair[k].done /\ n.pair[i].p = n.pair[k].p => i = k
        /\ \A i \in Pairs(n) : ~ n.pair[i].done => Pending(n, n.pair[i].p)
    BY <1>6, <1>7, <1>10 DEF Once
  <2>. QED  BY <2>1, <2>2, <2>3 DEF Once
<1>14. Queue(n)
  <2>1. /\ \A k \in Jobs(n) : IsReaction(n, k) =>
              n.jobs[k].id \in Regs(n) /\ ~ Pending(n, PromiseOf(n, k))
        /\ \A k \in Logged(n) : n.log[k] \in Regs(n) /\ ~ Pending(n, n.regs[n.log[k]])
    BY <1>6, <1>7, <1>8, <1>10 DEF Queue
  <2>2. /\ \A k, m \in Jobs(n) : k < m /\ IsReaction(n, k) /\ IsReaction(n, m)
                                   /\ PromiseOf(n, k) = PromiseOf(n, m)
                                 => n.jobs[k].id < n.jobs[m].id
        /\ \A k \in Logged(n), m \in Jobs(n) :
              IsReaction(n, m) /\ n.regs[n.log[k]] = PromiseOf(n, m) => n.log[k] < n.jobs[m].id
    BY <1>6, <1>7, <1>8, <1>10 DEF Queue
  <2>3. \A k, m \in Logged(n) : k < m /\ n.regs[n.log[k]] = n.regs[n.log[m]] => n.log[k] < n.log[m]
    BY <1>6, <1>7, <1>10 DEF Queue
  <2>4. \A id \in Regs(n) : ~ Pending(n, n.regs[id]) =>
        \/ \E k \in Jobs(n) : IsReaction(n, k) /\ n.jobs[k].id = id
        \/ \E k \in Logged(n) : n.log[k] = id
    BY <1>6, <1>7, <1>8, <1>10 DEF Queue
  <2>. QED  BY <2>1, <2>2, <2>3, <2>4 DEF Queue
<1>15. Lists(n)
  BY <1>6, <1>10, SameLists
<1>16. Owned(n)
  <2>1. SUFFICES ASSUME NEW i \in Pairs(n), Internal(n, i)
                 PROVE  /\ i # 1
                        /\ \A f \in n.fns : ~ Uses(f, i)
                        /\ \A a \in Aggrs(n) : n.aggr[a].pair # i
                        /\ \A q \in Proms(n), x \in {1, 2} : \A k \in List(n, q, x) :
                              /\ n.prom[q].reactions[x][k].pair # i
                              /\ Uses(n.prom[q].reactions[x][k].handler, i) =>
                                    /\ q = Source(n, i)
                                    /\ n.prom[q].reactions[x][k].handler[1] = IF x = 1 THEN "resolve" ELSE "reject"
                        /\ \A k \in Jobs(n) : IsReaction(n, k) =>
                              /\ n.jobs[k].pair # i
                              /\ Uses(n.jobs[k].handler, i) =>
                                    /\ n.prom[Source(n, i)].state = Outcome(n.jobs[k].handler[1] = "reject")
                                    /\ n.prom[Source(n, i)].result = n.jobs[k].arg
    BY DEF Owned
  <2>2. i \in Pairs(s) /\ Internal(s, i) /\ Source(n, i) = Source(s, i)
    BY <1>7, <2>1
  <2>3. /\ i # 1
        /\ \A f \in n.fns : ~ Uses(f, i)
        /\ \A a \in Aggrs(n) : n.aggr[a].pair # i
    BY <1>6, <1>7, <1>10, <2>2, SMTT(60) DEF Owned
  <2>4. \A q \in Proms(n), x \in {1, 2} : \A k \in List(n, q, x) :
            /\ n.prom[q].reactions[x][k].pair # i
            /\ Uses(n.prom[q].reactions[x][k].handler, i) =>
                  /\ q = Source(n, i)
                  /\ n.prom[q].reactions[x][k].handler[1] = IF x = 1 THEN "resolve" ELSE "reject"
    BY <1>6, <1>7, <1>10, <2>2, SMTT(60) DEF Owned
  <2>5. \A k \in Jobs(n) : IsReaction(n, k) =>
            /\ n.jobs[k].pair # i
            /\ Uses(n.jobs[k].handler, i) =>
                  /\ n.prom[Source(n, i)].state = Outcome(n.jobs[k].handler[1] = "reject")
                  /\ n.prom[Source(n, i)].result = n.jobs[k].arg
    BY <1>6, <1>8, <1>10, <2>2, SMTT(60) DEF Owned
  <2>. QED  BY <2>3, <2>4, <2>5
<1>17. Adopted(n)
  BY <1>6, <1>7, <1>10 DEF Adopted
<1>. QED  BY <1>6, <1>9, <1>10, <1>11, <1>12, <1>13, <1>14, <1>15, <1>16, <1>17 DEF Good

\* A resolving function does its work once, and keeps what Good says.
Spends(s, m, i, v, rej) == Good(m) /\ Grows(s, m) /\ Spending(s, m, i, v, rej)

\* Settling p of m with w, which is v unless v cannot be taken.
SettlesWith(m, n, p, v, rej, w, x) ==
  /\ MaySettle(m, p, w, x) /\ n = fulfill_or_reject_promise(m, p, w, x)
  /\ (w = v /\ x = rej) \/ (w = Thrown /\ x = TRUE /\ ~ rej)

\* A job is to give p of m to the thenable v.
MayAdopt(m, p, v) ==
  /\ p \in Proms(m) /\ Pending(m, p) /\ Thenable(m, v) /\ v \in Triples /\ v[1] # "val"
  /\ m.prom[p].to = v
  /\ \A k \in Pairs(m) : m.pair[k].p = p => m.pair[k].done
  /\ \A k \in Jobs(m) : IsThenable(m, k) => m.jobs[k].p # p

Resolves(s, m, n, p, i, v, rej) ==
  /\ p = s.pair[i].p /\ Spends(s, m, i, v, rej)
  /\ \/ \E w, x : SettlesWith(m, n, p, v, rej, w, x)
     \/ /\ ~ rej /\ MayAdopt(m, p, v)
        /\ n = JS_EnqueueJob(m, [kind |-> "thenable", p |-> p, v |-> v])

LEMMA ResolveParts ==
  ASSUME NEW s, Good(s), NEW i, NEW v, NEW rej, MayCall(s, i, v, rej),
         NEW n, n = js_promise_resolve_function_call(s, i, v, rej)
  PROVE  n = s \/ \E m, p : Resolves(s, m, n, p, i, v, rej)
<1>1. PICK p : p = s.pair[i].p
  OBVIOUS
<1>2. PICK m : m = Spent(s, i, v, rej)
  OBVIOUS
<1>3. CASE s.pair[i].done
  <2>1. n = s
    BY <1>3 DEF js_promise_resolve_function_call
  <2>. QED  BY <2>1
<1>4. CASE ~ s.pair[i].done
  <2>1. /\ Good(m) /\ Grows(s, m) /\ Spending(s, m, i, v, rej)
        /\ p \in Proms(m) /\ Pending(m, p)
        /\ \A k \in Pairs(m) : m.pair[k].p = p => m.pair[k].done
        /\ \A k \in Jobs(m) : IsThenable(m, k) => m.jobs[k].p # p
    BY <1>1, <1>2, <1>4, SpendGood
  <2>2. n = IF rej \/ v[1] = "val" THEN fulfill_or_reject_promise(m, p, v, rej)
            ELSE IF v = <<"prom", p, 0>> \/ v[1] = "throwing"
                 THEN fulfill_or_reject_promise(m, p, Thrown, TRUE)
            ELSE JS_EnqueueJob(m, [kind |-> "thenable", p |-> p, v |-> v])
    BY <1>1, <1>2, <1>4, SMTT(60) DEF js_promise_resolve_function_call, Spent
  <2>3. /\ i \in Pairs(s) /\ v \in Triples /\ rej \in BOOLEAN /\ p \in Proms(s)
        /\ v[1] = "val" \/ (~ rej /\ (v[1] = "throwing" \/ Thenable(s, v)))
    BY <1>1 DEF MayCall, Good, Refs
  <2>4. m.prom[p].to = IF rej \/ s.prom[p].to[1] = "prom" THEN s.prom[p].to ELSE v
    BY <1>1, <2>1 DEF Spending
  <2>5. s.prom[p].to[1] = "prom" =>
            /\ s.prom[s.prom[p].to[2]].state = Outcome(rej) /\ s.prom[s.prom[p].to[2]].result = v
            /\ s.prom[p].to[2] \in Proms(s) /\ s.prom[p].to[2] # p /\ v[1] = "val"
    <3>1. SUFFICES ASSUME s.prom[p].to[1] = "prom"
                   PROVE  /\ s.prom[s.prom[p].to[2]].state = Outcome(rej)
                          /\ s.prom[s.prom[p].to[2]].result = v
                          /\ s.prom[p].to[2] \in Proms(s) /\ s.prom[p].to[2] # p /\ v[1] = "val"
      OBVIOUS
    <3>2. Internal(s, i) /\ Source(s, i) = s.prom[p].to[2]
      BY <1>1, <1>4, <2>3, <3>1 DEF Internal, Source
    <3>3. s.prom[s.prom[p].to[2]].state = Outcome(rej) /\ s.prom[s.prom[p].to[2]].result = v
      BY <3>2 DEF MayCall
    <3>4. s.prom[p].to[2] \in Proms(s)
      BY <2>3, <3>1 DEF Good, Refs
    <3>5. s.prom[p].to[2] # p
      BY <1>1, <1>4, <2>3, <3>3 DEF Good, Once, Pending, Outcome
    <3>6. v[1] = "val"
      BY <3>3, <3>4 DEF Good, Plain
    <3>. QED  BY <3>3, <3>4, <3>5, <3>6
  <2>6. CASE rej \/ v[1] = "val"
    <3>1. v[1] = "val"
      BY <2>3, <2>6
    <3>2. m.prom[p].to[1] = "prom" => s.prom[p].to[1] = "prom" /\ m.prom[p].to = s.prom[p].to
      BY <2>4, <3>1
    <3>3. MaySettle(m, p, v, rej)
      <4>1. m.prom[p].to[1] = "prom" =>
              m.prom[m.prom[p].to[2]].state = Outcome(rej) /\ m.prom[m.prom[p].to[2]].result = v
        BY <2>1, <2>5, <3>2, SMTT(60) DEF Spending
      <4>2. m.prom[p].to # <<"prom", p, 0>>
        BY <2>5, <3>2
      <4>. QED  BY <2>1, <2>3, <3>1, <4>1, <4>2 DEF MaySettle
    <3>4. n = fulfill_or_reject_promise(m, p, v, rej)
      BY <2>2, <2>6
    <3>5. SettlesWith(m, n, p, v, rej, v, rej)
      BY <3>3, <3>4 DEF SettlesWith
    <3>6. Spends(s, m, i, v, rej)
      BY <2>1 DEF Spends
    <3>7. Resolves(s, m, n, p, i, v, rej)
      BY ONLY <1>1, <3>5, <3>6 DEF Resolves
    <3>. QED  BY ONLY <3>7
  <2>7. CASE ~ (rej \/ v[1] = "val")
    <3>1. s.prom[p].to[1] # "prom" /\ m.prom[p].to = v
      BY <2>4, <2>5, <2>7
    <3>2. CASE v = <<"prom", p, 0>> \/ v[1] = "throwing"
      <4>1. n = fulfill_or_reject_promise(m, p, Thrown, TRUE)
        BY <2>2, <2>7, <3>2
      <4>2. Thrown \in Triples /\ Thrown[1] = "val"
        BY DEF Thrown, Triples
      <4>3. ~ (m.prom[p].to[1] = "prom" /\ m.prom[p].to[2] # p)
        BY <3>1, <3>2
      <4>4. MaySettle(m, p, Thrown, TRUE)
        BY <2>1, <4>2, <4>3 DEF MaySettle
      <4>5. SettlesWith(m, n, p, v, rej, Thrown, TRUE)
        BY <2>7, <4>1, <4>4 DEF SettlesWith
      <4>6. Spends(s, m, i, v, rej)
        BY <2>1 DEF Spends
      <4>7. Resolves(s, m, n, p, i, v, rej)
        BY ONLY <1>1, <4>5, <4>6 DEF Resolves
      <4>. QED  BY ONLY <4>7
    <3>3. CASE ~ (v = <<"prom", p, 0>> \/ v[1] = "throwing")
      <4>1. n = JS_EnqueueJob(m, [kind |-> "thenable", p |-> p, v |-> v])
        BY <2>2, <2>7, <3>3
      <4>2. Thenable(m, v)
        <5>1. Thenable(s, v)
          BY <2>3, <2>7, <3>3
        <5>. QED  BY <2>1, <5>1, RefsGrow
      <4>3. MayAdopt(m, p, v)
        BY <2>1, <2>3, <2>7, <3>1, <4>2 DEF MayAdopt
      <4>4. ~ rej
        BY <2>7
      <4>5. Resolves(s, m, n, p, i, v, rej)
        BY ONLY <1>1, <2>1, <4>1, <4>3, <4>4, Zenon DEF Spends, Resolves
      <4>. QED  BY ONLY <4>5
    <3>. QED  BY <3>2, <3>3
  <2>. QED  BY <2>6, <2>7
<1>. QED  BY <1>3, <1>4

LEMMA ResolveGood ==
  ASSUME NEW s, Good(s), NEW i, NEW v, NEW rej, MayCall(s, i, v, rej),
         NEW n, n = js_promise_resolve_function_call(s, i, v, rej)
  PROVE  Good(n) /\ Grows(s, n)
<1>1. CASE n = s
  BY <1>1 DEF Grows
<1>2. CASE \E m, p : Resolves(s, m, n, p, i, v, rej)
  <2>1. PICK m, p : Resolves(s, m, n, p, i, v, rej)
    BY <1>2
  <2>2. Good(m) /\ Grows(s, m)
    BY <2>1 DEF Resolves, Spends
  <2>3. Good(n) /\ Grows(m, n)
    <3>1. CASE \E w, x : SettlesWith(m, n, p, v, rej, w, x)
      <4>1. PICK w, x : SettlesWith(m, n, p, v, rej, w, x)
        BY <3>1
      <4>2. MaySettle(m, p, w, x) /\ n = fulfill_or_reject_promise(m, p, w, x)
        BY <4>1 DEF SettlesWith
      <4>. QED  BY ONLY <2>2, <4>2, SettleGood
    <3>2. CASE MayAdopt(m, p, v) /\ n = JS_EnqueueJob(m, [kind |-> "thenable", p |-> p, v |-> v])
      <4>1. /\ p \in Proms(m) /\ Pending(m, p) /\ Thenable(m, v) /\ v \in Triples /\ m.prom[p].to = v
            /\ \A k \in Pairs(m) : m.pair[k].p = p => m.pair[k].done
            /\ \A k \in Jobs(m) : IsThenable(m, k) => m.jobs[k].p # p
        BY <3>2 DEF MayAdopt
      <4>. QED  BY ONLY <2>2, <3>2, <4>1, EnqueueGood
    <3>. QED  BY <2>1, <3>1, <3>2 DEF Resolves
  <2>. QED  BY <2>2, <2>3, GrowsTransitive
<1>. QED  BY <1>1, <1>2, ResolveParts

-----------------------------------------------------------------------------
(* Promises and pairs are made, functions are given to scripts, and         *)
(* combinators count.                                                       *)

\* Only the functions of scripts and the combinators changed.
HandsOut(s, n) ==
  /\ n \in PromiseState
  /\ n.prom = s.prom /\ n.pair = s.pair /\ n.jobs = s.jobs /\ n.regs = s.regs
  /\ n.log = s.log /\ n.again = s.again /\ Aggrs(s) \subseteq Aggrs(n)
  /\ \A f \in n.fns : Func(n, f) /\ \A i \in Pairs(s) : Internal(s, i) => ~ Uses(f, i)
  /\ \A a \in Aggrs(n) :
        /\ n.aggr[a].pair \in Pairs(s) /\ ~ Internal(s, n.aggr[a].pair)
        /\ n.aggr[a].index \in 0 .. Len(n.aggr[a].items)
        /\ \A i \in 1 .. Len(n.aggr[a].items) : Thenable(s, n.aggr[a].items[i])

LEMMA HandOut ==
  ASSUME NEW s, Good(s), NEW n, HandsOut(s, n)
  PROVE  Good(n) /\ Grows(s, n) /\ \A i : Internal(n, i) <=> Internal(s, i)
<1>0. /\ n \in PromiseState
      /\ n.prom = s.prom /\ n.pair = s.pair /\ n.jobs = s.jobs /\ n.regs = s.regs
      /\ n.log = s.log /\ n.again = s.again /\ Aggrs(s) \subseteq Aggrs(n)
      /\ \A f \in n.fns : Func(n, f) /\ \A i \in Pairs(s) : Internal(s, i) => ~ Uses(f, i)
      /\ \A a \in Aggrs(n) :
            /\ n.aggr[a].pair \in Pairs(s) /\ ~ Internal(s, n.aggr[a].pair)
            /\ n.aggr[a].index \in 0 .. Len(n.aggr[a].items)
            /\ \A i \in 1 .. Len(n.aggr[a].items) : Thenable(s, n.aggr[a].items[i])
  BY DEF HandsOut
<1>1. /\ Proms(n) = Proms(s) /\ Pairs(n) = Pairs(s) /\ Jobs(n) = Jobs(s)
      /\ \A q : Pending(n, q) <=> Pending(s, q)
      /\ \A i : Internal(n, i) <=> Internal(s, i)
      /\ \A i : Source(n, i) = Source(s, i)
      /\ \A k : IsThenable(n, k) <=> IsThenable(s, k)
  BY <1>0 DEF Proms, Pairs, Jobs, Pending, Internal, Source, IsThenable
<1>2. Grows(s, n)
  BY <1>0, <1>1 DEF Grows
<1>3. /\ Refs(s) /\ Once(s) /\ Owned(s) /\ Len(s.pair) > 0
  BY DEF Good
<1>4. Extended(s, n)
  BY <1>0, <1>1, <1>2, <1>3 DEF Extended
<1>5. Referring(n)
  <2>1. \A w : Thenable(s, w) => Thenable(n, w)
    BY <1>2, RefsGrow
  <2>2. /\ \A i \in Pairs(n) : n.pair[i].p \in Proms(n)
        /\ \A q \in Proms(n) : n.prom[q].to[1] = "prom" => n.prom[q].to[2] \in Proms(n)
    BY <1>0, <1>1, <1>3 DEF Refs
  <2>. QED  BY <1>0, <1>1, <2>1, <2>2 DEF Referring
<1>6. Guarded(s, n)
  BY <1>0, <1>1, <1>3 DEF Guarded, Owned
<1>7. Once(n)
  <2>1. \A k \in Jobs(n) : IsThenable(n, k) =>
          /\ Pending(n, n.jobs[k].p) /\ n.prom[n.jobs[k].p].to = n.jobs[k].v
          /\ \A i \in Pairs(n) : n.pair[i].p = n.jobs[k].p => n.pair[i].done
    BY <1>0, <1>1, <1>3 DEF Once
  <2>2. \A k, m \in Jobs(n) :
          IsThenable(n, k) /\ IsThenable(n, m) /\ n.jobs[k].p = n.jobs[m].p => k = m
    BY <1>0, <1>1, <1>3 DEF Once
  <2>3. /\ n.again = {}
        /\ \A i, k \in Pairs(n) :
              ~ n.pair[i].done /\ ~ n.pair[k].done /\ n.pair[i].p = n.pair[k].p => i = k
        /\ \A i \in Pairs(n) : ~ n.pair[i].done => Pending(n, n.pair[i].p)
    BY <1>0, <1>1, <1>3 DEF Once
  <2>. QED  BY <2>1, <2>2, <2>3 DEF Once
<1>8. Good(n)
  BY <1>4, <1>5, <1>6, <1>7, ExtendedGood
<1>. QED  BY <1>0, <1>1, <1>2, <1>8

\* The functions F are given to scripts.
LEMMA GiveGood ==
  ASSUME NEW s, Good(s), NEW F, \A f \in F : Func(s, f),
         \A f \in F : \A i \in Pairs(s) : Internal(s, i) => ~ Uses(f, i),
         NEW n, n = [s EXCEPT !.fns = @ \cup F]
  PROVE  Good(n) /\ Grows(s, n) /\ \A i : Internal(n, i) <=> Internal(s, i)
<1>1. /\ s \in PromiseState /\ Refs(s) /\ Owned(s)
  BY DEF Good
<1>2. F \subseteq Triples
  BY DEF Func
<1>3. /\ n \in PromiseState
      /\ n.prom = s.prom /\ n.pair = s.pair /\ n.jobs = s.jobs /\ n.regs = s.regs /\ n.log = s.log
      /\ n.again = s.again /\ n.aggr = s.aggr /\ n.fns = s.fns \cup F
  BY <1>1, <1>2 DEF PromiseState
<1>4. Aggrs(n) = Aggrs(s) /\ Pairs(n) = Pairs(s)
  BY <1>3 DEF Aggrs, Pairs
<1>5. \A f : Func(s, f) => Func(n, f)
  BY <1>4 DEF Func
<1>6. \A f \in n.fns : Func(n, f) /\ \A i \in Pairs(s) : Internal(s, i) => ~ Uses(f, i)
  BY <1>1, <1>3, <1>5 DEF Refs, Owned
<1>7. \A a \in Aggrs(n) :
            /\ n.aggr[a].pair \in Pairs(s) /\ ~ Internal(s, n.aggr[a].pair)
            /\ n.aggr[a].index \in 0 .. Len(n.aggr[a].items)
            /\ \A i \in 1 .. Len(n.aggr[a].items) : Thenable(s, n.aggr[a].items[i])
  BY <1>1, <1>3, <1>4 DEF Refs, Owned
<1>8. Aggrs(s) \subseteq Aggrs(n)
  BY <1>4
<1>9. HandsOut(s, n)
  BY <1>3, <1>6, <1>7, <1>8 DEF HandsOut
<1>. QED  BY <1>9, HandOut

\* The combinators are A.
LEMMA CombineGood ==
  ASSUME NEW s, Good(s), NEW A, A \in Seq(Aggregate), Len(A) >= Len(s.aggr),
         \A a \in 1 .. Len(A) :
            /\ A[a].pair \in Pairs(s) /\ ~ Internal(s, A[a].pair)
            /\ A[a].index \in 0 .. Len(A[a].items)
            /\ \A i \in 1 .. Len(A[a].items) : Thenable(s, A[a].items[i]),
         NEW n, n = [s EXCEPT !.aggr = A]
  PROVE  Good(n) /\ Grows(s, n) /\ \A i : Internal(n, i) <=> Internal(s, i)
<1>1. /\ s \in PromiseState /\ Refs(s) /\ Owned(s) /\ Len(s.aggr) \in Nat /\ Len(A) \in Nat
  BY StateParts DEF Good
<1>2. /\ n \in PromiseState
      /\ n.prom = s.prom /\ n.pair = s.pair /\ n.jobs = s.jobs /\ n.regs = s.regs /\ n.log = s.log
      /\ n.again = s.again /\ n.aggr = A /\ n.fns = s.fns
  BY <1>1 DEF PromiseState
<1>3. Aggrs(s) \subseteq Aggrs(n) /\ Pairs(n) = Pairs(s) /\ Aggrs(n) = 1 .. Len(A)
  BY <1>1, <1>2 DEF Aggrs, Pairs
<1>4. \A f : Func(s, f) => Func(n, f)
  BY <1>3 DEF Func
<1>5. \A f \in n.fns : Func(n, f) /\ \A i \in Pairs(s) : Internal(s, i) => ~ Uses(f, i)
  BY <1>1, <1>2, <1>4 DEF Refs, Owned
<1>6. HandsOut(s, n)
  BY <1>2, <1>3, <1>5 DEF HandsOut
<1>. QED  BY <1>6, HandOut

\* A promise with nothing to settle it gets a pair.
LEMMA PairGood ==
  ASSUME NEW s, Good(s), NEW p \in Proms(s), Pending(s, p),
         \A k \in Pairs(s) : s.pair[k].p = p => s.pair[k].done,
         \A k \in Jobs(s) : IsThenable(s, k) => s.jobs[k].p # p,
         NEW n, n = js_create_resolving_functions(s, p), NEW l, l = Len(n.pair)
  PROVE  /\ Good(n) /\ Grows(s, n) /\ l \in Pairs(n) /\ l \notin Pairs(s)
         /\ n.prom = s.prom /\ n.aggr = s.aggr /\ n.fns = s.fns
         /\ n.jobs = s.jobs /\ n.regs = s.regs
         /\ n.pair[l].p = p /\ ~ n.pair[l].done
         /\ \A k \in Pairs(n) : k \in Pairs(s) \/ k = l
         /\ \A k \in Pairs(s) : n.pair[k] = s.pair[k]
<1>1. /\ s \in PromiseState /\ Refs(s) /\ Once(s) /\ Owned(s) /\ Len(s.pair) > 0
      /\ s.pair \in Seq(JSPromiseFunctionDataResolved) /\ Len(s.pair) \in Nat /\ p \in Nat
  BY StateParts DEF Good, Proms
<1>2. PICK g : g = [p |-> p, done |-> FALSE]
  OBVIOUS
<1>3. g \in JSPromiseFunctionDataResolved /\ g.p = p /\ g.done = FALSE
  BY <1>1, <1>2 DEF JSPromiseFunctionDataResolved
<1>4. PICK q : q = Append(s.pair, g)
  OBVIOUS
<1>5. /\ q \in Seq(JSPromiseFunctionDataResolved) /\ Len(q) = Len(s.pair) + 1
      /\ \A k \in 1 .. Len(s.pair) : q[k] = s.pair[k]
      /\ q[Len(s.pair) + 1] = g
  BY <1>1, <1>3, <1>4, AppendParts
<1>6. n = [s EXCEPT !.pair = q]
  BY <1>2, <1>4 DEF js_create_resolving_functions
<1>7. /\ n \in PromiseState /\ n.pair = q
      /\ n.prom = s.prom /\ n.jobs = s.jobs /\ n.regs = s.regs /\ n.log = s.log
      /\ n.again = s.again /\ n.aggr = s.aggr /\ n.fns = s.fns
  BY <1>1, <1>5, <1>6 DEF PromiseState
<1>8. /\ l \in Pairs(n) /\ l \notin Pairs(s) /\ l # 1
      /\ \A k \in Pairs(n) : k \in Pairs(s) \/ k = l
      /\ \A k \in Pairs(s) : k \in Pairs(n)
  BY <1>1, <1>5, <1>7 DEF Pairs
<1>9. n.pair[l] = g /\ \A k \in Pairs(s) : n.pair[k] = s.pair[k]
  BY <1>1, <1>5, <1>7 DEF Pairs
<1>10. /\ Proms(n) = Proms(s) /\ Aggrs(n) = Aggrs(s) /\ Jobs(n) = Jobs(s)
       /\ \A x : Pending(n, x) <=> Pending(s, x)
       /\ \A k : IsThenable(n, k) <=> IsThenable(s, k)
  BY <1>7 DEF Proms, Aggrs, Jobs, Pending, IsThenable
<1>11. /\ \A i \in Pairs(s) : Internal(n, i) <=> Internal(s, i)
       /\ \A i \in Pairs(s) : Source(n, i) = Source(s, i)
  BY <1>7, <1>8, <1>9 DEF Internal, Source
<1>12. Grows(s, n)
  BY <1>8, <1>10, <1>11 DEF Grows
<1>13. Extended(s, n)
  BY <1>1, <1>5, <1>7, <1>10, <1>12 DEF Extended
<1>14. Referring(n)
  <2>1. /\ \A f : Func(s, f) => Func(n, f)
        /\ \A w : Thenable(s, w) => Thenable(n, w)
    BY <1>12, RefsGrow
  <2>2. \A i \in Pairs(n) : n.pair[i].p \in Proms(n)
    BY <1>1, <1>3, <1>8, <1>9, <1>10 DEF Refs
  <2>. QED  BY <1>1, <1>7, <1>8, <1>10, <2>1, <2>2 DEF Referring, Refs
<1>15. Guarded(s, n)
  <2>1. \A f \in n.fns : ~ Uses(f, l)
    BY <1>1, <1>7, <1>8 DEF Refs, Func, Uses
  <2>2. \A a \in Aggrs(n) : n.aggr[a].pair # l
    BY <1>1, <1>7, <1>8, <1>10 DEF Refs
  <2>. QED  BY <1>1, <1>7, <1>8, <1>10, <1>11, <2>1, <2>2 DEF Guarded, Owned
<1>16. Once(n)
  <2>1. \A k \in Jobs(n) : IsThenable(n, k) =>
          /\ Pending(n, n.jobs[k].p) /\ n.prom[n.jobs[k].p].to = n.jobs[k].v
          /\ \A i \in Pairs(n) : n.pair[i].p = n.jobs[k].p => n.pair[i].done
    BY <1>1, <1>3, <1>7, <1>8, <1>9, <1>10 DEF Once
  <2>2. \A k, m \in Jobs(n) :
          IsThenable(n, k) /\ IsThenable(n, m) /\ n.jobs[k].p = n.jobs[m].p => k = m
    BY <1>1, <1>7, <1>10 DEF Once
  <2>3. /\ n.again = {}
        /\ \A i, k \in Pairs(n) :
              ~ n.pair[i].done /\ ~ n.pair[k].done /\ n.pair[i].p = n.pair[k].p => i = k
        /\ \A i \in Pairs(n) : ~ n.pair[i].done => Pending(n, n.pair[i].p)
    BY <1>1, <1>3, <1>7, <1>8, <1>9, <1>10, SMTT(60) DEF Once
  <2>. QED  BY <2>1, <2>2, <2>3 DEF Once
<1>17. Good(n)
  BY <1>13, <1>14, <1>15, <1>16, ExtendedGood
<1>. QED  BY <1>3, <1>7, <1>8, <1>9, <1>12, <1>17

\* A promise is made.
LEMMA PromiseGood ==
  ASSUME NEW s, Good(s), NEW n, n = NewPromise(s), NEW l, l = Len(n.prom)
  PROVE  /\ Good(n) /\ Grows(s, n) /\ l \in Proms(n) /\ l \notin Proms(s)
         /\ n.pair = s.pair /\ n.aggr = s.aggr /\ n.fns = s.fns /\ n.jobs = s.jobs
         /\ Pending(n, l) /\ n.prom[l].to[1] # "prom"
         /\ n.prom[l].reactions = <<<<>>, <<>>>>
         /\ \A k \in Proms(n) : k \in Proms(s) \/ k = l
         /\ \A k \in Proms(s) : n.prom[k] = s.prom[k]
<1>1. /\ s \in PromiseState /\ Refs(s) /\ Once(s) /\ Owned(s) /\ Len(s.pair) > 0
      /\ s.prom \in Seq(JSPromiseData) /\ Len(s.prom) \in Nat
  BY StateParts DEF Good
<1>2. PICK d : d = [state |-> "pending", result |-> Undefined, reactions |-> <<<<>>, <<>>>>,
                    to |-> NoHandler]
  OBVIOUS
<1>3. /\ d.state = "pending" /\ d.result = Undefined /\ d.reactions = <<<<>>, <<>>>>
      /\ d.to = NoHandler
  BY <1>2
<1>4. d \in JSPromiseData
  <2>1. Undefined \in Triples /\ NoHandler \in Triples
    BY DEF Undefined, NoHandler, Triples
  <2>2. <<>> \in Seq(JSPromiseReactionData)
    OBVIOUS
  <2>. QED  BY <1>2, <2>1, <2>2 DEF JSPromiseData, States
<1>5. PICK q : q = Append(s.prom, d)
  OBVIOUS
<1>6. /\ q \in Seq(JSPromiseData) /\ Len(q) = Len(s.prom) + 1
      /\ \A k \in 1 .. Len(s.prom) : q[k] = s.prom[k]
      /\ q[Len(s.prom) + 1] = d
  BY <1>1, <1>4, <1>5, AppendParts
<1>7. n = [s EXCEPT !.prom = q]
  BY <1>2, <1>5 DEF NewPromise
<1>8. /\ n \in PromiseState /\ n.prom = q
      /\ n.pair = s.pair /\ n.jobs = s.jobs /\ n.regs = s.regs /\ n.log = s.log
      /\ n.again = s.again /\ n.aggr = s.aggr /\ n.fns = s.fns
  BY <1>1, <1>6, <1>7 DEF PromiseState
<1>9. /\ l \in Proms(n) /\ l \notin Proms(s)
      /\ \A k \in Proms(n) : k \in Proms(s) \/ k = l
      /\ \A k \in Proms(s) : k \in Proms(n)
  BY <1>1, <1>6, <1>8 DEF Proms
<1>10. n.prom[l] = d /\ \A k \in Proms(s) : n.prom[k] = s.prom[k]
  BY <1>1, <1>6, <1>8 DEF Proms
<1>11. /\ Pairs(n) = Pairs(s) /\ Aggrs(n) = Aggrs(s) /\ Jobs(n) = Jobs(s)
       /\ \A x \in Proms(s) : Pending(n, x) <=> Pending(s, x)
       /\ \A k : IsThenable(n, k) <=> IsThenable(s, k)
  BY <1>8, <1>10 DEF Pairs, Aggrs, Jobs, Pending, IsThenable
<1>12. \A i \in Pairs(n) : (Internal(n, i) <=> Internal(s, i)) /\ Source(n, i) = Source(s, i)
  BY <1>1, <1>8, <1>10, <1>11, SMTT(60) DEF Internal, Source, Refs
<1>13. Grows(s, n)
  BY <1>9, <1>11, <1>12 DEF Grows
<1>14. Pending(n, l) /\ n.prom[l].to[1] # "prom"
  BY <1>3, <1>10 DEF Pending, NoHandler
<1>15. Extended(s, n)
  <2>1. n.prom[l].result[1] = "val" /\ n.prom[l].reactions[1] = <<>> /\ n.prom[l].reactions[2] = <<>>
    BY <1>3, <1>10 DEF Undefined
  <2>. QED  BY <1>1, <1>8, <1>9, <1>10, <1>13, <1>14, <2>1 DEF Extended
<1>16. Referring(n)
  <2>1. /\ \A f : Func(s, f) => Func(n, f)
        /\ \A w : Thenable(s, w) => Thenable(n, w)
    BY <1>13, RefsGrow
  <2>2. \A x \in Proms(n) : n.prom[x].to[1] = "prom" => n.prom[x].to[2] \in Proms(n)
    BY <1>1, <1>9, <1>10, <1>14 DEF Refs
  <2>. QED  BY <1>1, <1>8, <1>9, <1>11, <2>1, <2>2 DEF Referring, Refs
<1>17. Guarded(s, n)
  BY <1>1, <1>8, <1>11, <1>12 DEF Guarded, Owned
<1>18. Once(n)
  <2>1. \A k \in Jobs(n) : IsThenable(n, k) =>
          /\ Pending(n, n.jobs[k].p) /\ n.prom[n.jobs[k].p].to = n.jobs[k].v
          /\ \A i \in Pairs(n) : n.pair[i].p = n.jobs[k].p => n.pair[i].done
    <3>1. \A k \in Jobs(s) : IsThenable(s, k) => s.jobs[k].p \in Proms(s)
      BY <1>1 DEF Refs
    <3>. QED  BY <1>1, <1>8, <1>10, <1>11, <3>1 DEF Once
  <2>2. \A k, m \in Jobs(n) :
          IsThenable(n, k) /\ IsThenable(n, m) /\ n.jobs[k].p = n.jobs[m].p => k = m
    BY <1>1, <1>8, <1>11 DEF Once
  <2>3. /\ n.again = {}
        /\ \A i, k \in Pairs(n) :
              ~ n.pair[i].done /\ ~ n.pair[k].done /\ n.pair[i].p = n.pair[k].p => i = k
        /\ \A i \in Pairs(n) : ~ n.pair[i].done => Pending(n, n.pair[i].p)
    BY <1>1, <1>8, <1>11 DEF Once, Refs
  <2>. QED  BY <2>1, <2>2, <2>3 DEF Once
<1>19. Good(n)
  BY <1>15, <1>16, <1>17, <1>18, ExtendedGood
<1>. QED  BY <1>3, <1>8, <1>9, <1>10, <1>13, <1>14, <1>19

\* A promise and its pair are made; the pair is not an internal one.
LEMMA CapabilityGood ==
  ASSUME NEW s, Good(s), NEW n, n = js_new_promise_capability(s), NEW l, l = Len(n.pair)
  PROVE  /\ Good(n) /\ Grows(s, n) /\ l \in Pairs(n) /\ ~ Internal(n, l)
         /\ n.aggr = s.aggr /\ n.fns = s.fns
<1>1. PICK m : m = NewPromise(s)
  OBVIOUS
<1>2. PICK p : p = Len(m.prom)
  OBVIOUS
<1>3. /\ Good(m) /\ Grows(s, m) /\ p \in Proms(m) /\ p \notin Proms(s)
      /\ m.pair = s.pair /\ m.aggr = s.aggr /\ m.fns = s.fns /\ m.jobs = s.jobs
      /\ Pending(m, p) /\ m.prom[p].to[1] # "prom"
  BY <1>1, <1>2, PromiseGood
<1>4. n = js_create_resolving_functions(m, p)
  BY <1>1, <1>2 DEF js_new_promise_capability
<1>5. \A k \in Pairs(m) : m.pair[k].p = p => m.pair[k].done
  BY <1>3 DEF Good, Refs, Pairs
<1>6. \A k \in Jobs(m) : IsThenable(m, k) => m.jobs[k].p # p
  BY <1>3 DEF Good, Refs, Jobs, IsThenable
<1>7. /\ Good(n) /\ Grows(m, n) /\ l \in Pairs(n)
      /\ n.prom = m.prom /\ n.aggr = m.aggr /\ n.fns = m.fns
      /\ n.pair[l].p = p
  BY <1>3, <1>4, <1>5, <1>6, PairGood
<1>8. ~ Internal(n, l)
  BY <1>3, <1>7 DEF Internal
<1>. QED  BY <1>3, <1>7, <1>8, GrowsTransitive

-----------------------------------------------------------------------------
(* Reactions are registered.                                               *)

\* A reaction that may be registered: one that calls the functions of an
\* internal pair is for the promise that this pair waits for.
MayThen(s, p, onF, onR, pair) ==
  /\ p \in Proms(s) /\ Handler(s, onF) /\ Handler(s, onR)
  /\ pair \in {0} \cup Pairs(s) /\ ~ Internal(s, pair)
  /\ \A i \in Pairs(s) : Internal(s, i) =>
        /\ Uses(onF, i) => p = Source(s, i) /\ onF[1] = "resolve"
        /\ Uses(onR, i) => p = Source(s, i) /\ onR[1] = "reject"

\* The reaction gets number l.
Registers(s, n, p, l) ==
  /\ l \in Nat /\ l \in Regs(n) /\ l \notin Regs(s) /\ n.regs[l] = p
  /\ \A k \in Regs(n) : k \in Regs(s) \/ k = l
  /\ \A k \in Regs(s) : k \in Regs(n) /\ k < l /\ n.regs[k] = s.regs[k]

LEMMA RegisterParts ==
  ASSUME NEW s, s \in PromiseState, NEW p \in Proms(s), NEW m, m = [s EXCEPT !.regs = Append(@, p)],
         NEW l, l = Len(s.regs) + 1
  PROVE  /\ m \in PromiseState /\ Registers(s, m, p, l)
         /\ m.prom = s.prom /\ m.pair = s.pair /\ m.jobs = s.jobs /\ m.log = s.log
         /\ m.again = s.again /\ m.aggr = s.aggr /\ m.fns = s.fns
<1>1. s.regs \in Seq(Nat) /\ Len(s.regs) \in Nat /\ p \in Nat
  BY StateParts DEF Proms
<1>2. PICK q : q = Append(s.regs, p)
  OBVIOUS
<1>3. /\ q \in Seq(Nat) /\ Len(q) = Len(s.regs) + 1
      /\ \A k \in 1 .. Len(s.regs) : q[k] = s.regs[k]
      /\ q[Len(s.regs) + 1] = p
  BY <1>1, <1>2, AppendParts
<1>4. m = [s EXCEPT !.regs = q]
  BY <1>2
<1>5. /\ m \in PromiseState /\ m.regs = q
      /\ m.prom = s.prom /\ m.pair = s.pair /\ m.jobs = s.jobs /\ m.log = s.log
      /\ m.again = s.again /\ m.aggr = s.aggr /\ m.fns = s.fns
  BY <1>3, <1>4 DEF PromiseState
<1>6. PICK L \in Nat : L = Len(s.regs) /\ l = L + 1 /\ Len(q) = L + 1
  BY <1>1, <1>3
<1>7. /\ l \in Nat /\ l \in 1 .. L + 1 /\ l \notin 1 .. L
      /\ \A k \in 1 .. L + 1 : k \in 1 .. L \/ k = l
      /\ \A k \in 1 .. L : k \in 1 .. L + 1 /\ k < l
  BY <1>6
<1>8. Regs(s) = 1 .. L /\ Regs(m) = 1 .. L + 1
  BY <1>5, <1>6 DEF Regs
<1>9. m.regs[l] = p /\ \A k \in Regs(s) : m.regs[k] = s.regs[k]
  BY <1>3, <1>5, <1>6, <1>8
<1>10. Registers(s, m, p, l)
  BY <1>7, <1>8, <1>9 DEF Registers
<1>. QED  BY <1>5, <1>10

\* List x of promise p gets the reaction r.
Lengthens(s, n, p, x, r) ==
  LET e == Len(s.prom[p].reactions[x]) + 1
  IN  /\ e \in List(n, p, x) /\ e \notin List(s, p, x)
      /\ \A k \in List(n, p, x) : k \in List(s, p, x) \/ k = e
      /\ \A k \in List(s, p, x) :
            /\ k \in List(n, p, x) /\ k < e
            /\ n.prom[p].reactions[x][k] = s.prom[p].reactions[x][k]
      /\ n.prom[p].reactions[x][e] = r

\* Then on a pending promise: both lists get the reaction.
Waits(s, n, p, onF, onR, pair, l) ==
  /\ n \in PromiseState /\ Registers(s, n, p, l)
  /\ n.pair = s.pair /\ n.jobs = s.jobs /\ n.log = s.log /\ n.again = s.again /\ n.aggr = s.aggr
  /\ n.fns = s.fns
  /\ Proms(n) = Proms(s) /\ Pairs(n) = Pairs(s) /\ Aggrs(n) = Aggrs(s) /\ Jobs(n) = Jobs(s)
  /\ Logged(n) = Logged(s)
  /\ \A q \in Proms(s) : q # p => n.prom[q] = s.prom[q]
  /\ \A q \in Proms(s) :
        /\ n.prom[q].state = s.prom[q].state /\ n.prom[q].result = s.prom[q].result
        /\ n.prom[q].to = s.prom[q].to
  /\ Lengthens(s, n, p, 1, [id |-> l, pair |-> pair, handler |-> onF])
  /\ Lengthens(s, n, p, 2, [id |-> l, pair |-> pair, handler |-> onR])

LEMMA LengthenParts ==
  ASSUME NEW s, NEW n, NEW p, NEW x, NEW r, Len(s.prom[p].reactions[x]) \in Nat,
         Len(n.prom[p].reactions[x]) = Len(s.prom[p].reactions[x]) + 1,
         \A k \in 1 .. Len(s.prom[p].reactions[x]) :
            n.prom[p].reactions[x][k] = s.prom[p].reactions[x][k],
         n.prom[p].reactions[x][Len(s.prom[p].reactions[x]) + 1] = r
  PROVE  Lengthens(s, n, p, x, r)
<1>1. PICK L \in Nat : L = Len(s.prom[p].reactions[x])
  OBVIOUS
<1>2. List(s, p, x) = 1 .. L /\ List(n, p, x) = 1 .. L + 1
  BY <1>1 DEF List
<1>3. /\ L + 1 \in 1 .. L + 1 /\ L + 1 \notin 1 .. L
      /\ \A k \in 1 .. L + 1 : k \in 1 .. L \/ k = L + 1
      /\ \A k \in 1 .. L : k \in 1 .. L + 1 /\ k < L + 1
  OBVIOUS
<1>. QED  BY <1>1, <1>2, <1>3 DEF Lengthens

LEMMA HandlerTriple ==
  ASSUME NEW s, NEW h, Handler(s, h) PROVE h \in Triples
BY DEF Handler, Func, NoHandler, Script, Resume, Triples

LEMMA WaitParts ==
  ASSUME NEW s, Good(s), NEW p, NEW onF, NEW onR, NEW pair, MayThen(s, p, onF, onR, pair),
         Pending(s, p), NEW n, n = perform_promise_then(s, p, onF, onR, pair),
         NEW l, l = Len(s.regs) + 1
  PROVE  Waits(s, n, p, onF, onR, pair, l)
<1>1. /\ s \in PromiseState /\ p \in Proms(s) /\ onF \in Triples /\ onR \in Triples
      /\ pair \in Nat
  BY HandlerTriple DEF Good, MayThen, Pairs
<1>2. PICK m : m = [s EXCEPT !.regs = Append(@, p)]
  OBVIOUS
<1>3. /\ m \in PromiseState /\ Registers(s, m, p, l)
      /\ m.prom = s.prom /\ m.pair = s.pair /\ m.jobs = s.jobs /\ m.log = s.log
      /\ m.again = s.again /\ m.aggr = s.aggr /\ m.fns = s.fns
  BY <1>1, <1>2, RegisterParts
<1>4. PICK r : r = [id |-> l, pair |-> pair, handler |-> onF]
  OBVIOUS
<1>5. PICK t : t = [id |-> l, pair |-> pair, handler |-> onR]
  OBVIOUS
<1>6. r \in JSPromiseReactionData /\ t \in JSPromiseReactionData
  BY <1>1, <1>3, <1>4, <1>5 DEF JSPromiseReactionData, Registers
<1>7. PICK y : y = s.prom[p].reactions[1]
  OBVIOUS
<1>8. PICK z : z = s.prom[p].reactions[2]
  OBVIOUS
<1>9. y \in Seq(JSPromiseReactionData) /\ z \in Seq(JSPromiseReactionData)
  BY <1>1, <1>7, <1>8, ListParts
<1>10. PICK Y : Y = Append(y, r)
  OBVIOUS
<1>11. PICK Z : Z = Append(z, t)
  OBVIOUS
<1>12. /\ Y \in Seq(JSPromiseReactionData) /\ Len(Y) = Len(y) + 1 /\ Len(y) \in Nat
       /\ \A k \in 1 .. Len(y) : Y[k] = y[k]
       /\ Y[Len(y) + 1] = r
  BY <1>6, <1>9, <1>10, AppendParts, SeqParts
<1>13. /\ Z \in Seq(JSPromiseReactionData) /\ Len(Z) = Len(z) + 1 /\ Len(z) \in Nat
       /\ \A k \in 1 .. Len(z) : Z[k] = z[k]
       /\ Z[Len(z) + 1] = t
  BY <1>6, <1>9, <1>11, AppendParts, SeqParts
<1>14. PICK d : d = [s.prom[p] EXCEPT !.reactions = <<Y, Z>>]
  OBVIOUS
<1>15. s.prom \in Seq(JSPromiseData) /\ s.prom[p] \in JSPromiseData
  BY <1>1, StateParts
<1>16. /\ d \in JSPromiseData /\ d.reactions = <<Y, Z>> /\ d.state = s.prom[p].state
       /\ d.result = s.prom[p].result /\ d.to = s.prom[p].to
  BY <1>12, <1>13, <1>14, <1>15 DEF JSPromiseData
<1>17. n = [m EXCEPT !.prom[p] = d]
  BY <1>2, <1>3, <1>4, <1>5, <1>7, <1>8, <1>10, <1>11, <1>14 DEF perform_promise_then, Pending
<1>18. /\ [s.prom EXCEPT ![p] = d] \in Seq(JSPromiseData)
       /\ Len([s.prom EXCEPT ![p] = d]) = Len(s.prom)
  BY <1>1, <1>15, <1>16 DEF Proms
<1>19. /\ n \in PromiseState /\ n.prom = [s.prom EXCEPT ![p] = d] /\ n.regs = m.regs
       /\ n.pair = s.pair /\ n.jobs = s.jobs /\ n.log = s.log
       /\ n.again = s.again /\ n.aggr = s.aggr /\ n.fns = s.fns
  BY <1>3, <1>17, <1>18 DEF PromiseState
<1>20. /\ Proms(n) = Proms(s) /\ Pairs(n) = Pairs(s) /\ Aggrs(n) = Aggrs(s) /\ Jobs(n) = Jobs(s)
       /\ Logged(n) = Logged(s) /\ Regs(n) = Regs(m)
  BY <1>18, <1>19 DEF Proms, Pairs, Aggrs, Jobs, Logged, Regs
<1>21. Registers(s, n, p, l)
  BY <1>3, <1>19, <1>20 DEF Registers
<1>22. n.prom[p] = d /\ \A q \in Proms(s) : q # p => n.prom[q] = s.prom[q]
  BY <1>1, <1>15, <1>19 DEF Proms
<1>23. \A q \in Proms(s) :
          /\ n.prom[q].state = s.prom[q].state /\ n.prom[q].result = s.prom[q].result
          /\ n.prom[q].to = s.prom[q].to
  BY <1>16, <1>22
<1>24. n.prom[p].reactions[1] = Y /\ n.prom[p].reactions[2] = Z
  BY <1>16, <1>22
<1>26. Lengthens(s, n, p, 1, r)
  <2>1. /\ Len(s.prom[p].reactions[1]) \in Nat
        /\ n.prom[p].reactions[1] \in Seq(JSPromiseReactionData)
        /\ Len(n.prom[p].reactions[1]) = Len(s.prom[p].reactions[1]) + 1
        /\ \A k \in 1 .. Len(s.prom[p].reactions[1]) :
              n.prom[p].reactions[1][k] = s.prom[p].reactions[1][k]
        /\ n.prom[p].reactions[1][Len(s.prom[p].reactions[1]) + 1] = r
    BY ONLY <1>7, <1>12, <1>24
  <2>. QED  BY <2>1, LengthenParts
<1>27. Lengthens(s, n, p, 2, t)
  <2>1. /\ Len(s.prom[p].reactions[2]) \in Nat
        /\ n.prom[p].reactions[2] \in Seq(JSPromiseReactionData)
        /\ Len(n.prom[p].reactions[2]) = Len(s.prom[p].reactions[2]) + 1
        /\ \A k \in 1 .. Len(s.prom[p].reactions[2]) :
              n.prom[p].reactions[2][k] = s.prom[p].reactions[2][k]
        /\ n.prom[p].reactions[2][Len(s.prom[p].reactions[2]) + 1] = t
    BY ONLY <1>8, <1>13, <1>24
  <2>. QED  BY <2>1, LengthenParts
<1>. QED  BY <1>4, <1>5, <1>19, <1>20, <1>21, <1>22, <1>23, <1>26, <1>27 DEF Waits

LEMMA WaitRefs ==
  ASSUME NEW s, Good(s), NEW p, NEW onF, NEW onR, NEW pair, MayThen(s, p, onF, onR, pair),
         Pending(s, p), NEW n, NEW l, Waits(s, n, p, onF, onR, pair, l)
  PROVE  /\ Grows(s, n) /\ Refs(n) /\ Plain(n) /\ Once(n) /\ Adopted(n)
         /\ \A i \in Pairs(s) : (Internal(n, i) <=> Internal(s, i)) /\ Source(n, i) = Source(s, i)
         /\ \A q \in Proms(s) : Pending(n, q) <=> Pending(s, q)
<1>1. /\ Refs(s) /\ Plain(s) /\ Once(s) /\ Adopted(s) /\ p \in Proms(s)
  BY DEF Good, MayThen
<1>2. /\ n.pair = s.pair /\ n.jobs = s.jobs /\ n.log = s.log /\ n.again = s.again /\ n.aggr = s.aggr
      /\ n.fns = s.fns
      /\ Proms(n) = Proms(s) /\ Pairs(n) = Pairs(s) /\ Aggrs(n) = Aggrs(s) /\ Jobs(n) = Jobs(s)
      /\ \A q \in Proms(s) :
            /\ n.prom[q].state = s.prom[q].state /\ n.prom[q].result = s.prom[q].result
            /\ n.prom[q].to = s.prom[q].to
  BY DEF Waits
<1>3. \A q \in Proms(s) : Pending(n, q) <=> Pending(s, q)
  BY <1>2 DEF Pending
<1>4. \A i \in Pairs(s) : (Internal(n, i) <=> Internal(s, i)) /\ Source(n, i) = Source(s, i)
  BY <1>1, <1>2 DEF Internal, Source, Refs
<1>5. Grows(s, n)
  BY <1>2, <1>4 DEF Grows
<1>6. \A k : (IsReaction(n, k) <=> IsReaction(s, k)) /\ (IsThenable(n, k) <=> IsThenable(s, k))
  BY <1>2 DEF IsReaction, IsThenable
<1>7. Plain(n)
  BY <1>1, <1>2, <1>6 DEF Plain
<1>8. Adopted(n)
  <2>1. \A q \in Proms(s) : s.prom[q].to[1] = "prom" => s.prom[q].to[2] \in Proms(s)
    BY <1>1 DEF Refs
  <2>2. ASSUME NEW q \in Proms(s), ~ Pending(s, q)
        PROVE  /\ n.prom[q].to[1] = "prom" /\ n.prom[q].to[2] # q =>
                     /\ n.prom[n.prom[q].to[2]].state = n.prom[q].state
                     /\ n.prom[n.prom[q].to[2]].result = n.prom[q].result
               /\ n.prom[q].to = <<"prom", q, 0>> => n.prom[q].state = "rejected"
    BY <1>1, <1>2, <2>1, <2>2, SMTT(60) DEF Adopted
  <2>. QED  BY <1>2, <1>3, <2>2 DEF Adopted
<1>9. Once(n)
  <2>1. \A k \in Jobs(n) : IsThenable(n, k) =>
          /\ Pending(n, n.jobs[k].p) /\ n.prom[n.jobs[k].p].to = n.jobs[k].v
          /\ \A i \in Pairs(n) : n.pair[i].p = n.jobs[k].p => n.pair[i].done
    <3>1. \A k \in Jobs(s) : IsThenable(s, k) => s.jobs[k].p \in Proms(s)
      BY <1>1 DEF Refs
    <3>. QED  BY <1>1, <1>2, <1>3, <1>6, <3>1 DEF Once
  <2>2. \A k, m \in Jobs(n) :
          IsThenable(n, k) /\ IsThenable(n, m) /\ n.jobs[k].p = n.jobs[m].p => k = m
    BY <1>1, <1>2, <1>6 DEF Once
  <2>3. /\ n.again = {}
        /\ \A i, k \in Pairs(n) :
              ~ n.pair[i].done /\ ~ n.pair[k].done /\ n.pair[i].p = n.pair[k].p => i = k
        /\ \A i \in Pairs(n) : ~ n.pair[i].done => Pending(n, n.pair[i].p)
    BY <1>1, <1>2, <1>3 DEF Once, Refs
  <2>. QED  BY <2>1, <2>2, <2>3 DEF Once
<1>10. Refs(n)
  <2>1. /\ \A f : Func(s, f) => Func(n, f)
        /\ \A h : Handler(s, h) => Handler(n, h)
        /\ \A w : Thenable(s, w) => Thenable(n, w)
    BY <1>5, RefsGrow
  <2>2. /\ \A k \in Jobs(n) : IsReaction(n, k) =>
              Handler(n, n.jobs[k].handler) /\ n.jobs[k].pair \in {0} \cup Pairs(n)
        /\ \A k \in Jobs(n) : IsThenable(n, k) => n.jobs[k].p \in Proms(n) /\ Thenable(n, n.jobs[k].v)
    BY <1>1, <1>2, <1>6, <2>1 DEF Refs
  <2>3. /\ \A i \in Pairs(n) : n.pair[i].p \in Proms(n)
        /\ \A f \in n.fns : Func(n, f)
        /\ \A a \in Aggrs(n) :
              /\ n.aggr[a].pair \in Pairs(n)
              /\ n.aggr[a].index \in 0 .. Len(n.aggr[a].items)
              /\ \A i \in 1 .. Len(n.aggr[a].items) : Thenable(n, n.aggr[a].items[i])
        /\ \A q \in Proms(n) : n.prom[q].to[1] = "prom" => n.prom[q].to[2] \in Proms(n)
    BY <1>1, <1>2, <2>1 DEF Refs
  <2>4. \A i \in Regs(n) : n.regs[i] \in Proms(n)
    BY <1>1, <1>2 DEF Refs, Waits, Registers
  <2>5. \A q \in Proms(n), x \in {1, 2} : \A k \in List(n, q, x) :
              /\ Handler(n, n.prom[q].reactions[x][k].handler)
              /\ n.prom[q].reactions[x][k].pair \in {0} \cup Pairs(n)
    <3>1. TAKE q \in Proms(n), x \in {1, 2}
    <3>2. TAKE k \in List(n, q, x)
    <3>3. CASE q # p
      <4>1. n.prom[q] = s.prom[q] /\ k \in List(s, q, x)
        BY <1>2, <3>3 DEF Waits, List
      <4>. QED  BY <1>1, <1>2, <2>1, <4>1 DEF Refs
    <3>4. CASE q = p
      <4>1. PICK r : Lengthens(s, n, p, x, r) /\ r.pair = pair /\ Handler(s, r.handler)
        BY DEF Waits, MayThen
      <4>2. \/ k \in List(s, p, x) /\ n.prom[p].reactions[x][k] = s.prom[p].reactions[x][k]
            \/ n.prom[p].reactions[x][k] = r
        BY <3>4, <4>1 DEF Lengthens
      <4>3. pair \in {0} \cup Pairs(s)
        BY DEF MayThen
      <4>. QED  BY <1>1, <1>2, <2>1, <3>4, <4>1, <4>2, <4>3 DEF Refs
    <3>. QED  BY <3>3, <3>4
  <2>. QED  BY <2>2, <2>3, <2>4, <2>5 DEF Refs
<1>. QED  BY <1>3, <1>4, <1>5, <1>7, <1>8, <1>9, <1>10

LEMMA WaitQueue ==
  ASSUME NEW s, Good(s), NEW p, NEW onF, NEW onR, NEW pair, MayThen(s, p, onF, onR, pair),
         Pending(s, p), NEW n, NEW l, Waits(s, n, p, onF, onR, pair, l)
  PROVE  Queue(n)
<1>1. /\ Refs(s) /\ Queue(s) /\ p \in Proms(s)
  BY DEF Good, MayThen
<1>2. /\ n.jobs = s.jobs /\ n.log = s.log /\ Jobs(n) = Jobs(s) /\ Logged(n) = Logged(s)
      /\ Registers(s, n, p, l)
  BY DEF Waits
<1>3. \A q \in Proms(s) : Pending(n, q) <=> Pending(s, q)
  BY WaitRefs
<1>4. \A k \in Jobs(n) : IsReaction(n, k) =>
         /\ IsReaction(s, k) /\ s.jobs[k].id \in Regs(s) /\ PromiseOf(n, k) = PromiseOf(s, k)
         /\ PromiseOf(s, k) \in Proms(s)
  BY <1>1, <1>2 DEF IsReaction, PromiseOf, Queue, Registers, Refs
<1>5. \A k \in Logged(n) :
         /\ s.log[k] \in Regs(s) /\ n.regs[n.log[k]] = s.regs[s.log[k]]
         /\ s.regs[s.log[k]] \in Proms(s)
  BY <1>1, <1>2 DEF Queue, Registers, Refs
<1>6. /\ \A k \in Jobs(n) : IsReaction(n, k) =>
            n.jobs[k].id \in Regs(n) /\ ~ Pending(n, PromiseOf(n, k))
      /\ \A k \in Logged(n) : n.log[k] \in Regs(n) /\ ~ Pending(n, n.regs[n.log[k]])
  BY <1>1, <1>2, <1>3, <1>4, <1>5 DEF Queue, Registers
<1>7. \A k, m \in Jobs(n) : k < m /\ IsReaction(n, k) /\ IsReaction(n, m)
                              /\ PromiseOf(n, k) = PromiseOf(n, m)
                            => n.jobs[k].id < n.jobs[m].id
  BY <1>1, <1>2, <1>4 DEF Queue
<1>8. \A k \in Logged(n), m \in Jobs(n) :
         IsReaction(n, m) /\ n.regs[n.log[k]] = PromiseOf(n, m) => n.log[k] < n.jobs[m].id
  BY <1>1, <1>2, <1>4, <1>5 DEF Queue
<1>9. \A k, m \in Logged(n) : k < m /\ n.regs[n.log[k]] = n.regs[n.log[m]] => n.log[k] < n.log[m]
  BY <1>1, <1>2, <1>5 DEF Queue
<1>10. ASSUME NEW id \in Regs(n), ~ Pending(n, n.regs[id])
       PROVE  \/ \E k \in Jobs(n) : IsReaction(n, k) /\ n.jobs[k].id = id
              \/ \E k \in Logged(n) : n.log[k] = id
  <2>1. id # l
    BY <1>1, <1>2, <1>3, <1>10 DEF Registers
  <2>2. id \in Regs(s) /\ n.regs[id] = s.regs[id] /\ s.regs[id] \in Proms(s)
    BY <1>1, <1>2, <2>1 DEF Registers, Refs
  <2>3. ~ Pending(s, s.regs[id])
    BY <1>3, <1>10, <2>2
  <2>4. \/ \E k \in Jobs(s) : IsReaction(s, k) /\ s.jobs[k].id = id
        \/ \E k \in Logged(s) : s.log[k] = id
    BY <1>1, <2>2, <2>3 DEF Queue
  <2>. QED  BY <1>2, <2>4 DEF IsReaction
<1>. QED  BY <1>6, <1>7, <1>8, <1>9, <1>10 DEF Queue

LEMMA WaitLists ==
  ASSUME NEW s, Good(s), NEW p, NEW onF, NEW onR, NEW pair, MayThen(s, p, onF, onR, pair),
         Pending(s, p), NEW n, NEW l, Waits(s, n, p, onF, onR, pair, l)
  PROVE  Lists(n)
<1>1. /\ Refs(s) /\ Lists(s) /\ p \in Proms(s)
  BY DEF Good, MayThen
<1>2. Proms(n) = Proms(s) /\ Registers(s, n, p, l) /\ \A q \in Proms(s) : q # p => n.prom[q] = s.prom[q]
  BY DEF Waits
<1>3. \A q \in Proms(s) : Pending(n, q) <=> Pending(s, q)
  BY WaitRefs
<1>4. \A q \in Proms(s), x \in {1, 2} : \A k \in List(n, q, x) :
         \/ k \in List(s, q, x) /\ n.prom[q].reactions[x][k] = s.prom[q].reactions[x][k]
         \/ /\ q = p /\ n.prom[q].reactions[x][k].id = l
            /\ \A m \in List(s, p, x) : m < k
            /\ \A m \in List(n, p, x) : m \in List(s, p, x) \/ m = k
  <2>1. TAKE q \in Proms(s), x \in {1, 2}
  <2>2. TAKE k \in List(n, q, x)
  <2>3. CASE q # p
    BY <1>2, <2>3 DEF List
  <2>4. CASE q = p
    <3>1. PICK r : Lengthens(s, n, p, x, r) /\ r.id = l
      BY DEF Waits
    <3>. QED  BY <2>4, <3>1 DEF Lengthens
  <2>. QED  BY <2>3, <2>4
<1>5. \A q \in Proms(n), x \in {1, 2} : ~ Pending(n, q) => n.prom[q].reactions[x] = <<>>
  BY <1>1, <1>2, <1>3 DEF Lists
<1>6. \A q \in Proms(s), x \in {1, 2} : \A k \in List(s, q, x) :
         /\ s.prom[q].reactions[x][k].id \in Regs(s) /\ s.regs[s.prom[q].reactions[x][k].id] = q
         /\ s.prom[q].reactions[x][k].id < l
         /\ n.regs[s.prom[q].reactions[x][k].id] = q /\ s.prom[q].reactions[x][k].id \in Regs(n)
  <2>1. TAKE q \in Proms(s), x \in {1, 2}
  <2>2. TAKE k \in List(s, q, x)
  <2>3. s.prom[q].reactions[x][k].id \in Regs(s) /\ s.regs[s.prom[q].reactions[x][k].id] = q
    BY <1>1 DEF Lists
  <2>. QED  BY <1>2, <2>3 DEF Registers
<1>7. \A q \in Proms(n), x \in {1, 2} : \A k \in List(n, q, x) :
         n.prom[q].reactions[x][k].id \in Regs(n) /\ n.regs[n.prom[q].reactions[x][k].id] = q
  <2>1. TAKE q \in Proms(n), x \in {1, 2}
  <2>2. TAKE k \in List(n, q, x)
  <2>3. CASE k \in List(s, q, x) /\ n.prom[q].reactions[x][k] = s.prom[q].reactions[x][k]
    BY <1>2, <1>6, <2>3, SMTT(60)
  <2>4. CASE q = p /\ n.prom[q].reactions[x][k].id = l
    BY <1>2, <2>4 DEF Registers
  <2>. QED  BY <1>2, <1>4, <2>3, <2>4
<1>8. \A q \in Proms(n), x \in {1, 2} : \A k, m \in List(n, q, x) :
         k < m => n.prom[q].reactions[x][k].id < n.prom[q].reactions[x][m].id
  <2>1. TAKE q \in Proms(n), x \in {1, 2}
  <2>2. TAKE k, m \in List(n, q, x)
  <2>3. HAVE k < m
  <2>4. k \in Int /\ m \in Int
    BY DEF List
  <2>5. CASE m \in List(s, q, x) /\ n.prom[q].reactions[x][m] = s.prom[q].reactions[x][m]
    <3>1. k \in List(s, q, x) /\ n.prom[q].reactions[x][k] = s.prom[q].reactions[x][k]
      BY <1>2, <1>4, <2>3, <2>4, <2>5
    <3>. QED  BY <1>1, <1>2, <2>3, <2>5, <3>1 DEF Lists
  <2>6. CASE /\ q = p /\ n.prom[q].reactions[x][m].id = l
             /\ \A j \in List(n, p, x) : j \in List(s, p, x) \/ j = m
    <3>1. k # m
      BY <2>3, <2>4
    <3>2. k \in List(s, q, x)
      BY <2>6, <3>1
    <3>3. PICK r : Lengthens(s, n, p, x, r)
      BY DEF Waits
    <3>4. n.prom[q].reactions[x][k] = s.prom[q].reactions[x][k]
      BY <2>6, <3>2, <3>3 DEF Lengthens
    <3>. QED  BY <1>2, <1>6, <2>6, <3>2, <3>4, SMTT(60)
  <2>. QED  BY <1>2, <1>4, <2>5, <2>6
<1>9. ASSUME NEW id \in Regs(n), NEW x \in {1, 2}, Pending(n, n.regs[id])
      PROVE  \E k \in List(n, n.regs[id], x) : n.prom[n.regs[id]].reactions[x][k].id = id
  <2>1. PICK r : Lengthens(s, n, p, x, r) /\ r.id = l
    BY DEF Waits
  <2>2. CASE id = l
    <3>1. n.regs[id] = p
      BY <1>2, <2>2 DEF Registers
    <3>. QED  BY <2>1, <2>2, <3>1 DEF Lengthens
  <2>3. CASE id # l
    <3>1. id \in Regs(s) /\ n.regs[id] = s.regs[id] /\ s.regs[id] \in Proms(s)
      BY <1>1, <1>2, <2>3 DEF Registers, Refs
    <3>2. Pending(s, s.regs[id])
      BY <1>3, <1>9, <3>1
    <3>3. PICK k \in List(s, s.regs[id], x) : s.prom[s.regs[id]].reactions[x][k].id = id
      BY <1>1, <3>1, <3>2 DEF Lists
    <3>4. CASE s.regs[id] # p
      <4>1. n.prom[s.regs[id]] = s.prom[s.regs[id]]
        BY <1>2, <3>1, <3>4
      <4>. QED  BY <3>1, <3>3, <4>1 DEF List
    <3>5. CASE s.regs[id] = p
      BY <2>1, <3>1, <3>3, <3>5 DEF Lengthens
    <3>. QED  BY <3>4, <3>5
  <2>. QED  BY <2>2, <2>3
<1>. QED  BY <1>5, <1>7, <1>8, <1>9 DEF Lists

LEMMA WaitOwned ==
  ASSUME NEW s, Good(s), NEW p, NEW onF, NEW onR, NEW pair, MayThen(s, p, onF, onR, pair),
         Pending(s, p), NEW n, NEW l, Waits(s, n, p, onF, onR, pair, l)
  PROVE  Owned(n)
<1>1. /\ Refs(s) /\ Owned(s) /\ p \in Proms(s)
  BY DEF Good, MayThen
<1>2. /\ Proms(n) = Proms(s) /\ Pairs(n) = Pairs(s) /\ Aggrs(n) = Aggrs(s) /\ Jobs(n) = Jobs(s)
      /\ n.jobs = s.jobs /\ n.fns = s.fns /\ n.aggr = s.aggr
      /\ \A q \in Proms(s) : q # p => n.prom[q] = s.prom[q]
      /\ \A q \in Proms(s) : n.prom[q].state = s.prom[q].state /\ n.prom[q].result = s.prom[q].result
  BY DEF Waits
<1>3. SUFFICES ASSUME NEW i \in Pairs(n), Internal(n, i)
               PROVE  /\ i # 1
                      /\ \A f \in n.fns : ~ Uses(f, i)
                      /\ \A a \in Aggrs(n) : n.aggr[a].pair # i
                      /\ \A q \in Proms(n), x \in {1, 2} : \A k \in List(n, q, x) :
                            /\ n.prom[q].reactions[x][k].pair # i
                            /\ Uses(n.prom[q].reactions[x][k].handler, i) =>
                                  /\ q = Source(n, i)
                                  /\ n.prom[q].reactions[x][k].handler[1] = IF x = 1 THEN "resolve" ELSE "reject"
                      /\ \A k \in Jobs(n) : IsReaction(n, k) =>
                            /\ n.jobs[k].pair # i
                            /\ Uses(n.jobs[k].handler, i) =>
                                  /\ n.prom[Source(n, i)].state = Outcome(n.jobs[k].handler[1] = "reject")
                                  /\ n.prom[Source(n, i)].result = n.jobs[k].arg
  BY DEF Owned
<1>4. i \in Pairs(s) /\ Internal(s, i) /\ Source(n, i) = Source(s, i)
  BY <1>2, <1>3, WaitRefs
<1>5. Source(s, i) \in Proms(s)
  BY <1>1, <1>4 DEF Refs, Internal, Source
<1>6. /\ i # 1
      /\ \A f \in n.fns : ~ Uses(f, i)
      /\ \A a \in Aggrs(n) : n.aggr[a].pair # i
  BY <1>1, <1>2, <1>4 DEF Owned
<1>7. \A k \in Jobs(n) : IsReaction(n, k) =>
         /\ n.jobs[k].pair # i
         /\ Uses(n.jobs[k].handler, i) =>
               /\ n.prom[Source(n, i)].state = Outcome(n.jobs[k].handler[1] = "reject")
               /\ n.prom[Source(n, i)].result = n.jobs[k].arg
  BY <1>1, <1>2, <1>4, <1>5 DEF Owned, IsReaction
<1>8. \A q \in Proms(s), x \in {1, 2} : \A k \in List(s, q, x) :
         /\ s.prom[q].reactions[x][k].pair # i
         /\ Uses(s.prom[q].reactions[x][k].handler, i) =>
               /\ q = Source(s, i)
               /\ s.prom[q].reactions[x][k].handler[1] = IF x = 1 THEN "resolve" ELSE "reject"
  BY <1>1, <1>4 DEF Owned
<1>9. \A q \in Proms(n), x \in {1, 2} : \A k \in List(n, q, x) :
         /\ n.prom[q].reactions[x][k].pair # i
         /\ Uses(n.prom[q].reactions[x][k].handler, i) =>
               /\ q = Source(n, i)
               /\ n.prom[q].reactions[x][k].handler[1] = IF x = 1 THEN "resolve" ELSE "reject"
  <2>1. TAKE q \in Proms(n), x \in {1, 2}
  <2>2. TAKE k \in List(n, q, x)
  <2>3. CASE q # p
    <3>1. n.prom[q] = s.prom[q] /\ k \in List(s, q, x)
      BY <1>2, <2>3 DEF List
    <3>. QED  BY <1>2, <1>4, <1>8, <3>1
  <2>4. CASE q = p
    <3>1. PICK r : /\ Lengthens(s, n, p, x, r) /\ r.pair = pair
                   /\ r.handler = IF x = 1 THEN onF ELSE onR
      BY DEF Waits
    <3>2. CASE k \in List(s, p, x)
      <4>1. n.prom[q].reactions[x][k] = s.prom[q].reactions[x][k]
        BY <2>4, <3>1, <3>2 DEF Lengthens
      <4>. QED  BY <1>2, <1>4, <1>8, <2>4, <3>2, <4>1
    <3>3. CASE k \notin List(s, p, x)
      <4>1. n.prom[q].reactions[x][k] = r
        BY <2>4, <3>1, <3>3 DEF Lengthens
      <4>2. pair # i
        BY <1>4 DEF MayThen
      <4>3. Uses(r.handler, i) => p = Source(s, i) /\ r.handler[1] = IF x = 1 THEN "resolve" ELSE "reject"
        BY <1>4, <3>1 DEF MayThen
      <4>. QED  BY <1>4, <2>4, <3>1, <4>1, <4>2, <4>3
    <3>. QED  BY <3>2, <3>3
  <2>. QED  BY <2>3, <2>4
<1>. QED  BY <1>6, <1>7, <1>9

\* Then on a settled promise: the reaction becomes a job at once.
Runs(s, n, p, j, l, e) ==
  /\ n \in PromiseState /\ Registers(s, n, p, l)
  /\ n.prom = s.prom /\ n.pair = s.pair /\ n.log = s.log /\ n.again = s.again /\ n.aggr = s.aggr
  /\ n.fns = s.fns
  /\ \A k \in Jobs(n) : k \in Jobs(s) \/ k = e
  /\ \A k \in Jobs(s) : k \in Jobs(n) /\ k < e /\ n.jobs[k] = s.jobs[k]
  /\ e \in Jobs(n) /\ e \notin Jobs(s) /\ n.jobs[e] = j

LEMMA RunParts ==
  ASSUME NEW s, Good(s), NEW p, NEW onF, NEW onR, NEW pair, MayThen(s, p, onF, onR, pair),
         ~ Pending(s, p), NEW n, n = perform_promise_then(s, p, onF, onR, pair),
         NEW l, l = Len(s.regs) + 1, NEW e, e = Len(s.jobs) + 1
  PROVE  \E j : /\ Runs(s, n, p, j, l, e) /\ j.kind = "reaction" /\ j.id = l /\ j.pair = pair
                /\ j.arg = s.prom[p].result /\ j.rej = (s.prom[p].state = "rejected")
                /\ j.handler = IF s.prom[p].state = "rejected" THEN onR ELSE onF
<1>1. /\ s \in PromiseState /\ p \in Proms(s) /\ onF \in Triples /\ onR \in Triples
      /\ pair \in Nat /\ s.prom[p] \in JSPromiseData
  BY HandlerTriple, StateParts DEF Good, MayThen, Pairs
<1>2. PICK m : m = [s EXCEPT !.regs = Append(@, p)]
  OBVIOUS
<1>3. /\ m \in PromiseState /\ Registers(s, m, p, l)
      /\ m.prom = s.prom /\ m.pair = s.pair /\ m.jobs = s.jobs /\ m.log = s.log
      /\ m.again = s.again /\ m.aggr = s.aggr /\ m.fns = s.fns
  BY <1>1, <1>2, RegisterParts
<1>4. PICK h : h = IF s.prom[p].state = "rejected" THEN onR ELSE onF
  OBVIOUS
<1>5. PICK j : j = Reaction([id |-> l, pair |-> pair, handler |-> h], s.prom[p].state = "rejected",
                            s.prom[p].result)
  OBVIOUS
<1>6. /\ j.kind = "reaction" /\ j.id = l /\ j.pair = pair /\ j.arg = s.prom[p].result
      /\ j.handler = h /\ j.rej = (s.prom[p].state = "rejected")
  BY <1>5 DEF Reaction
<1>7. j \in PromiseJob
  <2>1. l \in Nat /\ h \in Triples /\ s.prom[p].result \in Triples
    BY <1>1, <1>3, <1>4 DEF Registers, JSPromiseData
  <2>. QED  BY <1>1, <1>5, <2>1 DEF Reaction, PromiseJob, ReactionJob
<1>8. n = JS_EnqueueJob(m, j)
  BY <1>2, <1>4, <1>5 DEF perform_promise_then, Pending
<1>9. Enqueues(m, n, j) /\ n.regs = m.regs
  BY <1>3, <1>7, <1>8, EnqueueParts
<1>10. Registers(s, n, p, l)
  BY <1>3, <1>9 DEF Registers, Regs
<1>11. Runs(s, n, p, j, l, e)
  BY <1>3, <1>9, <1>10 DEF Runs, Enqueues, Jobs
<1>. QED  BY <1>4, <1>6, <1>11

LEMMA RunGood ==
  ASSUME NEW s, Good(s), NEW p, NEW onF, NEW onR, NEW pair, MayThen(s, p, onF, onR, pair),
         ~ Pending(s, p), NEW n, NEW j, NEW l, NEW e, Runs(s, n, p, j, l, e),
         j.kind = "reaction", j.id = l, j.pair = pair, j.arg = s.prom[p].result,
         j.handler = IF s.prom[p].state = "rejected" THEN onR ELSE onF
  PROVE  Good(n) /\ Grows(s, n)
<1>1. /\ n \in PromiseState /\ Registers(s, n, p, l)
      /\ n.prom = s.prom /\ n.pair = s.pair /\ n.log = s.log /\ n.again = s.again
      /\ n.aggr = s.aggr /\ n.fns = s.fns
      /\ \A k \in Jobs(n) : k \in Jobs(s) \/ k = e
      /\ \A k \in Jobs(s) : k \in Jobs(n) /\ k < e /\ n.jobs[k] = s.jobs[k]
      /\ e \in Jobs(n) /\ e \notin Jobs(s) /\ n.jobs[e] = j
  BY DEF Runs
<1>2. /\ Proms(n) = Proms(s) /\ Pairs(n) = Pairs(s) /\ Aggrs(n) = Aggrs(s)
      /\ Logged(n) = Logged(s) /\ \A q, x : List(n, q, x) = List(s, q, x)
      /\ \A q : Pending(n, q) <=> Pending(s, q)
      /\ \A i : Internal(n, i) <=> Internal(s, i)
      /\ \A i : Source(n, i) = Source(s, i)
  BY <1>1 DEF Proms, Pairs, Aggrs, Logged, List, Pending, Internal, Source
<1>3. /\ Refs(s) /\ Plain(s) /\ Once(s) /\ Queue(s) /\ Lists(s) /\ Owned(s) /\ Adopted(s)
      /\ Len(n.pair) > 0 /\ s \in PromiseState /\ p \in Proms(s)
  BY <1>1 DEF Good, MayThen
<1>4. Grows(s, n)
  BY <1>2 DEF Grows
<1>5. /\ Handler(s, j.handler) /\ pair \in {0} \cup Pairs(s) /\ ~ Internal(s, pair)
      /\ j.arg[1] = "val"
  BY <1>3 DEF MayThen, Plain
<1>6. /\ IsReaction(n, e) /\ PromiseOf(n, e) = p
      /\ \A k \in Jobs(s) : (IsReaction(n, k) <=> IsReaction(s, k)) /\ (IsThenable(n, k) <=> IsThenable(s, k))
      /\ \A k \in Jobs(n) : IsThenable(n, k) => k \in Jobs(s) /\ IsThenable(s, k) /\ n.jobs[k] = s.jobs[k]
  BY <1>1 DEF IsReaction, IsThenable, PromiseOf, Registers
<1>7. Refs(n)
  <2>1. /\ \A f : Func(s, f) => Func(n, f)
        /\ \A h : Handler(s, h) => Handler(n, h)
        /\ \A w : Thenable(s, w) => Thenable(n, w)
    BY <1>4, RefsGrow
  <2>2. /\ \A k \in Jobs(n) : IsReaction(n, k) =>
              Handler(n, n.jobs[k].handler) /\ n.jobs[k].pair \in {0} \cup Pairs(n)
        /\ \A k \in Jobs(n) : IsThenable(n, k) => n.jobs[k].p \in Proms(n) /\ Thenable(n, n.jobs[k].v)
    BY <1>1, <1>2, <1>3, <1>5, <1>6, <2>1 DEF Refs
  <2>3. /\ \A i \in Pairs(n) : n.pair[i].p \in Proms(n)
        /\ \A f \in n.fns : Func(n, f)
        /\ \A a \in Aggrs(n) :
              /\ n.aggr[a].pair \in Pairs(n)
              /\ n.aggr[a].index \in 0 .. Len(n.aggr[a].items)
              /\ \A i \in 1 .. Len(n.aggr[a].items) : Thenable(n, n.aggr[a].items[i])
    BY <1>1, <1>2, <1>3, <2>1 DEF Refs
  <2>4. /\ \A q \in Proms(n), x \in {1, 2} : \A k \in List(n, q, x) :
              /\ Handler(n, n.prom[q].reactions[x][k].handler)
              /\ n.prom[q].reactions[x][k].pair \in {0} \cup Pairs(n)
        /\ \A q \in Proms(n) : n.prom[q].to[1] = "prom" => n.prom[q].to[2] \in Proms(n)
    BY <1>1, <1>2, <1>3, <2>1 DEF Refs
  <2>5. \A i \in Regs(n) : n.regs[i] \in Proms(n)
    BY <1>1, <1>2, <1>3 DEF Refs, Registers
  <2>. QED  BY <2>2, <2>3, <2>4, <2>5 DEF Refs
<1>8. Plain(n)
  BY <1>1, <1>2, <1>3, <1>5, <1>6 DEF Plain
<1>9. Once(n)
  <2>1. \A k \in Jobs(n) : IsThenable(n, k) =>
          /\ Pending(n, n.jobs[k].p) /\ n.prom[n.jobs[k].p].to = n.jobs[k].v
          /\ \A i \in Pairs(n) : n.pair[i].p = n.jobs[k].p => n.pair[i].done
    BY <1>1, <1>2, <1>3, <1>6 DEF Once
  <2>2. \A k, m \in Jobs(n) :
          IsThenable(n, k) /\ IsThenable(n, m) /\ n.jobs[k].p = n.jobs[m].p => k = m
    BY <1>3, <1>6 DEF Once
  <2>3. /\ n.again = {}
        /\ \A i, k \in Pairs(n) :
              ~ n.pair[i].done /\ ~ n.pair[k].done /\ n.pair[i].p = n.pair[k].p => i = k
        /\ \A i \in Pairs(n) : ~ n.pair[i].done => Pending(n, n.pair[i].p)
    BY <1>1, <1>2, <1>3 DEF Once
  <2>. QED  BY <2>1, <2>2, <2>3 DEF Once
<1>10. Queue(n)
  <2>1. \A k \in Jobs(s) : IsReaction(s, k) =>
           /\ s.jobs[k].id \in Regs(s) /\ s.jobs[k].id < l /\ s.jobs[k].id \in Regs(n)
           /\ PromiseOf(n, k) = PromiseOf(s, k)
    BY <1>1, <1>3 DEF Queue, Registers, PromiseOf
  <2>2. \A k \in Logged(s) :
           /\ s.log[k] \in Regs(s) /\ s.log[k] < l /\ s.log[k] \in Regs(n)
           /\ n.regs[s.log[k]] = s.regs[s.log[k]]
    BY <1>1, <1>3 DEF Queue, Registers
  <2>3. /\ \A k \in Jobs(n) : IsReaction(n, k) =>
              n.jobs[k].id \in Regs(n) /\ ~ Pending(n, PromiseOf(n, k))
        /\ \A k \in Logged(n) : n.log[k] \in Regs(n) /\ ~ Pending(n, n.regs[n.log[k]])
    BY <1>1, <1>2, <1>3, <1>6, <2>1, <2>2 DEF Queue, Registers
  <2>4. ASSUME NEW k \in Jobs(n), NEW m \in Jobs(n), k < m, IsReaction(n, k), IsReaction(n, m),
               PromiseOf(n, k) = PromiseOf(n, m)
        PROVE  n.jobs[k].id < n.jobs[m].id
    <3>1. k \in Int /\ m \in Int /\ e \in Int
      BY <1>1 DEF Jobs
    <3>2. k \in Jobs(s)
      <4>1. CASE k = e
        <5>1. m = e \/ m < e
          BY <1>1
        <5>. QED  BY <2>4, <3>1, <4>1, <5>1
      <4>. QED  BY <1>1, <4>1
    <3>3. CASE m = e
      BY <1>1, <1>6, <2>1, <2>4, <3>2, <3>3
    <3>4. CASE m \in Jobs(s)
      BY <1>1, <1>3, <1>6, <2>1, <2>4, <3>2, <3>4 DEF Queue
    <3>. QED  BY <1>1, <3>3, <3>4
  <2>5. ASSUME NEW k \in Logged(n), NEW m \in Jobs(n), IsReaction(n, m),
               n.regs[n.log[k]] = PromiseOf(n, m)
        PROVE  n.log[k] < n.jobs[m].id
    <3>1. CASE m = e
      BY <1>1, <1>2, <2>2, <3>1
    <3>2. CASE m \in Jobs(s)
      BY <1>1, <1>2, <1>3, <1>6, <2>1, <2>2, <2>5, <3>2 DEF Queue
    <3>. QED  BY <1>1, <3>1, <3>2
  <2>6. \A k, m \in Logged(n) : k < m /\ n.regs[n.log[k]] = n.regs[n.log[m]] => n.log[k] < n.log[m]
    BY <1>1, <1>2, <1>3, <2>2 DEF Queue
  <2>7. ASSUME NEW id \in Regs(n), ~ Pending(n, n.regs[id])
        PROVE  \/ \E k \in Jobs(n) : IsReaction(n, k) /\ n.jobs[k].id = id
               \/ \E k \in Logged(n) : n.log[k] = id
    <3>1. CASE id = l
      BY <1>1, <1>6, <3>1
    <3>2. CASE id # l
      <4>1. id \in Regs(s) /\ n.regs[id] = s.regs[id]
        BY <1>1, <3>2 DEF Registers
      <4>2. \/ \E k \in Jobs(s) : IsReaction(s, k) /\ s.jobs[k].id = id
            \/ \E k \in Logged(s) : s.log[k] = id
        BY <1>2, <1>3, <2>7, <4>1 DEF Queue
      <4>. QED  BY <1>1, <1>2, <1>6, <4>2
    <3>. QED  BY <3>1, <3>2
  <2>. QED  BY <2>3, <2>4, <2>5, <2>6, <2>7 DEF Queue
<1>11. Lists(n)
  <2>1. \A q \in Proms(n), x \in {1, 2} : ~ Pending(n, q) => n.prom[q].reactions[x] = <<>>
    BY <1>1, <1>2, <1>3, SMTT(60) DEF Lists
  <2>2. \A q \in Proms(n), x \in {1, 2} : \A k \in List(n, q, x) :
           n.prom[q].reactions[x][k].id \in Regs(n) /\ n.regs[n.prom[q].reactions[x][k].id] = q
    <3>1. TAKE q \in Proms(n), x \in {1, 2}
    <3>2. TAKE k \in List(n, q, x)
    <3>3. s.prom[q].reactions[x][k].id \in Regs(s) /\ s.regs[s.prom[q].reactions[x][k].id] = q
      BY <1>2, <1>3, SMTT(60) DEF Lists
    <3>4. n.prom[q].reactions[x][k] = s.prom[q].reactions[x][k]
      BY <1>1
    <3>. QED  BY <1>1, <3>3, <3>4 DEF Registers
  <2>3. \A q \in Proms(n), x \in {1, 2} : \A k, m \in List(n, q, x) :
           k < m => n.prom[q].reactions[x][k].id < n.prom[q].reactions[x][m].id
    BY <1>1, <1>2, <1>3, SMTT(60) DEF Lists
  <2>4. ASSUME NEW id \in Regs(n), NEW x \in {1, 2}, Pending(n, n.regs[id])
        PROVE  \E k \in List(n, n.regs[id], x) : n.prom[n.regs[id]].reactions[x][k].id = id
    <3>1. id # l
      BY <1>1, <1>2, <2>4 DEF Registers
    <3>2. id \in Regs(s) /\ n.regs[id] = s.regs[id]
      BY <1>1, <3>1 DEF Registers
    <3>3. Pending(s, s.regs[id])
      BY <1>2, <2>4, <3>2
    <3>4. PICK k \in List(s, s.regs[id], x) : s.prom[s.regs[id]].reactions[x][k].id = id
      BY <1>3, <3>2, <3>3, SMTT(60) DEF Lists
    <3>5. k \in List(n, n.regs[id], x) /\ n.prom[n.regs[id]].reactions[x][k].id = id
      <4>1. List(n, s.regs[id], x) = List(s, s.regs[id], x)
        BY <1>2
      <4>2. n.prom = s.prom
        BY <1>1
      <4>. QED  BY ONLY <3>2, <3>4, <4>1, <4>2, Zenon
    <3>. QED  BY <3>5
  <2>. QED  BY <2>1, <2>2, <2>3, <2>4 DEF Lists
<1>12. Owned(n)
  <2>1. SUFFICES ASSUME NEW i \in Pairs(n), Internal(n, i)
                 PROVE  /\ i # 1
                        /\ \A f \in n.fns : ~ Uses(f, i)
                        /\ \A a \in Aggrs(n) : n.aggr[a].pair # i
                        /\ \A q \in Proms(n), x \in {1, 2} : \A k \in List(n, q, x) :
                              /\ n.prom[q].reactions[x][k].pair # i
                              /\ Uses(n.prom[q].reactions[x][k].handler, i) =>
                                    /\ q = Source(n, i)
                                    /\ n.prom[q].reactions[x][k].handler[1] = IF x = 1 THEN "resolve" ELSE "reject"
                        /\ \A k \in Jobs(n) : IsReaction(n, k) =>
                              /\ n.jobs[k].pair # i
                              /\ Uses(n.jobs[k].handler, i) =>
                                    /\ n.prom[Source(n, i)].state = Outcome(n.jobs[k].handler[1] = "reject")
                                    /\ n.prom[Source(n, i)].result = n.jobs[k].arg
    BY DEF Owned
  <2>2. i \in Pairs(s) /\ Internal(s, i) /\ Source(n, i) = Source(s, i)
    BY <1>2, <2>1
  <2>3. /\ i # 1
        /\ \A f \in n.fns : ~ Uses(f, i)
        /\ \A a \in Aggrs(n) : n.aggr[a].pair # i
    BY <1>1, <1>2, <1>3, <2>2 DEF Owned
  <2>4. \A q \in Proms(n), x \in {1, 2} : \A k \in List(n, q, x) :
            /\ n.prom[q].reactions[x][k].pair # i
            /\ Uses(n.prom[q].reactions[x][k].handler, i) =>
                  /\ q = Source(n, i)
                  /\ n.prom[q].reactions[x][k].handler[1] = IF x = 1 THEN "resolve" ELSE "reject"
    BY <1>1, <1>2, <1>3, <2>2 DEF Owned
  <2>5. /\ j.pair # i
        /\ Uses(j.handler, i) =>
              /\ s.prom[Source(s, i)].state = Outcome(j.handler[1] = "reject")
              /\ s.prom[Source(s, i)].result = j.arg
    <3>1. s.prom[p].state \in {"fulfilled", "rejected"}
      BY <1>3, StateParts DEF JSPromiseData, States, Pending
    <3>2. Uses(j.handler, i) => /\ p = Source(s, i)
                                /\ j.handler[1] = IF s.prom[p].state = "rejected" THEN "reject" ELSE "resolve"
      BY <2>2 DEF MayThen
    <3>. QED  BY <1>5, <2>2, <3>1, <3>2 DEF Outcome
  <2>6. \A k \in Jobs(n) : IsReaction(n, k) =>
            /\ n.jobs[k].pair # i
            /\ Uses(n.jobs[k].handler, i) =>
                  /\ n.prom[Source(n, i)].state = Outcome(n.jobs[k].handler[1] = "reject")
                  /\ n.prom[Source(n, i)].result = n.jobs[k].arg
    BY <1>1, <1>3, <1>6, <2>2, <2>5 DEF Owned
  <2>. QED  BY <2>3, <2>4, <2>6
<1>13. Adopted(n)
  BY <1>1, <1>2, <1>3 DEF Adopted
<1>. QED  BY <1>1, <1>3, <1>4, <1>7, <1>8, <1>9, <1>10, <1>11, <1>12, <1>13 DEF Good

\* Whichever of then and the settling of the promise comes first.
LEMMA ThenGood ==
  ASSUME NEW s, Good(s), NEW p, NEW onF, NEW onR, NEW pair, MayThen(s, p, onF, onR, pair),
         NEW n, n = perform_promise_then(s, p, onF, onR, pair)
  PROVE  Good(n) /\ Grows(s, n)
<1>1. PICK l : l = Len(s.regs) + 1
  OBVIOUS
<1>2. CASE Pending(s, p)
  <2>1. Waits(s, n, p, onF, onR, pair, l)
    BY <1>1, <1>2, WaitParts
  <2>2. n \in PromiseState /\ Len(n.pair) > 0
    BY <2>1 DEF Waits, Good
  <2>3. Grows(s, n) /\ Refs(n) /\ Plain(n) /\ Once(n) /\ Adopted(n)
    BY <1>2, <2>1, WaitRefs
  <2>4. Queue(n) /\ Lists(n) /\ Owned(n)
    BY <1>2, <2>1, WaitQueue, WaitLists, WaitOwned
  <2>. QED  BY <2>2, <2>3, <2>4 DEF Good
<1>3. CASE ~ Pending(s, p)
  <2>1. PICK e : e = Len(s.jobs) + 1
    OBVIOUS
  <2>2. PICK j : /\ Runs(s, n, p, j, l, e) /\ j.kind = "reaction" /\ j.id = l /\ j.pair = pair
                 /\ j.arg = s.prom[p].result
                 /\ j.handler = IF s.prom[p].state = "rejected" THEN onR ELSE onF
    BY <1>1, <1>3, <2>1, RunParts
  <2>. QED  BY <1>3, <2>2, RunGood
<1>. QED  BY <1>2, <1>3

-----------------------------------------------------------------------------
(* The first job leaves the queue.                                         *)

Pops(s, n) ==
  /\ n \in PromiseState /\ 1 \in Jobs(s)
  /\ n.prom = s.prom /\ n.pair = s.pair /\ n.again = s.again /\ n.aggr = s.aggr
  /\ n.fns = s.fns /\ n.regs = s.regs
  /\ \A k \in Jobs(n) : k + 1 \in Jobs(s) /\ k + 1 # 1 /\ n.jobs[k] = s.jobs[k + 1]
  /\ \A k \in Jobs(s) : k = 1 \/ \E m \in Jobs(n) : k = m + 1

LEMMA PopParts ==
  ASSUME NEW s, s \in PromiseState, s.jobs # <<>>, NEW n, n = [s EXCEPT !.jobs = Tail(@)]
  PROVE  Pops(s, n) /\ n.log = s.log /\ Head(s.jobs) = s.jobs[1]
<1>1. PICK q : q = s.jobs
  OBVIOUS
<1>2. q \in Seq(PromiseJob) /\ Len(q) \in Nat /\ q # <<>>
  BY <1>1, StateParts
<1>3. PICK t : t = Tail(q)
  OBVIOUS
<1>4. /\ Head(q) = q[1] /\ Len(q) >= 1 /\ t \in Seq(PromiseJob) /\ Len(t) = Len(q) - 1
      /\ \A k \in 1 .. Len(t) : t[k] = q[k + 1]
  BY <1>2, <1>3, TailParts
<1>5. n = [s EXCEPT !.jobs = t]
  BY <1>1, <1>3
<1>6. /\ n \in PromiseState /\ n.jobs = t
      /\ n.prom = s.prom /\ n.pair = s.pair /\ n.again = s.again /\ n.aggr = s.aggr
      /\ n.fns = s.fns /\ n.regs = s.regs /\ n.log = s.log
  BY <1>4, <1>5 DEF PromiseState
<1>7. PICK L \in Nat : Len(t) = L /\ Len(q) = L + 1
  BY <1>2, <1>4
<1>8. /\ 1 \in 1 .. L + 1
      /\ \A k \in 1 .. L : k + 1 \in 1 .. L + 1 /\ k + 1 # 1
  OBVIOUS
<1>9. ASSUME NEW k \in 1 .. L + 1, k # 1 PROVE \E m \in 1 .. L : k = m + 1
  <2>1. k - 1 \in 1 .. L /\ k = (k - 1) + 1
    BY <1>9
  <2>. QED  BY <2>1
<1>10. Jobs(s) = 1 .. L + 1 /\ Jobs(n) = 1 .. L
  BY <1>1, <1>6, <1>7 DEF Jobs
<1>11. \A k \in Jobs(n) : n.jobs[k] = s.jobs[k + 1]
  BY <1>1, <1>4, <1>6, <1>7, <1>10
<1>12. Pops(s, n)
  BY <1>6, <1>8, <1>9, <1>10, <1>11 DEF Pops
<1>. QED  BY <1>1, <1>4, <1>6, <1>12

LEMMA PopRest ==
  ASSUME NEW s, Good(s), NEW n, Pops(s, n)
  PROVE  /\ Grows(s, n) /\ Refs(n) /\ Plain(n) /\ Once(n) /\ Lists(n) /\ Owned(n) /\ Adopted(n)
         /\ Len(n.pair) > 0 /\ \A i : Internal(n, i) <=> Internal(s, i)
<1>1. /\ Refs(s) /\ Plain(s) /\ Once(s) /\ Lists(s) /\ Owned(s) /\ Adopted(s) /\ Len(s.pair) > 0
  BY DEF Good
<1>2. /\ n.prom = s.prom /\ n.pair = s.pair /\ n.again = s.again /\ n.aggr = s.aggr
      /\ n.fns = s.fns /\ n.regs = s.regs
      /\ \A k \in Jobs(n) : k + 1 \in Jobs(s) /\ n.jobs[k] = s.jobs[k + 1] /\ k \in Int
  BY DEF Pops, Jobs
<1>3. /\ Proms(n) = Proms(s) /\ Pairs(n) = Pairs(s) /\ Aggrs(n) = Aggrs(s) /\ Regs(n) = Regs(s)
      /\ \A q, x : List(n, q, x) = List(s, q, x)
      /\ \A q : Pending(n, q) <=> Pending(s, q)
      /\ \A i : Internal(n, i) <=> Internal(s, i)
      /\ \A i : Source(n, i) = Source(s, i)
  BY <1>2 DEF Proms, Pairs, Aggrs, Regs, List, Pending, Internal, Source
<1>4. /\ \A k \in Jobs(n) : IsReaction(n, k) => IsReaction(s, k + 1)
      /\ \A k \in Jobs(n) : IsThenable(n, k) => IsThenable(s, k + 1)
  BY <1>2 DEF IsReaction, IsThenable
<1>5. Grows(s, n)
  BY <1>3 DEF Grows
<1>6. Refs(n)
  <2>1. /\ \A f : Func(s, f) => Func(n, f)
        /\ \A h : Handler(s, h) => Handler(n, h)
        /\ \A w : Thenable(s, w) => Thenable(n, w)
    BY <1>5, RefsGrow
  <2>2. /\ \A k \in Jobs(n) : IsReaction(n, k) =>
              Handler(n, n.jobs[k].handler) /\ n.jobs[k].pair \in {0} \cup Pairs(n)
        /\ \A k \in Jobs(n) : IsThenable(n, k) => n.jobs[k].p \in Proms(n) /\ Thenable(n, n.jobs[k].v)
    BY <1>1, <1>2, <1>3, <1>4, <2>1 DEF Refs
  <2>3. /\ \A i \in Pairs(n) : n.pair[i].p \in Proms(n)
        /\ \A f \in n.fns : Func(n, f)
        /\ \A a \in Aggrs(n) :
              /\ n.aggr[a].pair \in Pairs(n)
              /\ n.aggr[a].index \in 0 .. Len(n.aggr[a].items)
              /\ \A i \in 1 .. Len(n.aggr[a].items) : Thenable(n, n.aggr[a].items[i])
    BY <1>1, <1>2, <1>3, <2>1 DEF Refs
  <2>4. /\ \A q \in Proms(n), x \in {1, 2} : \A k \in List(n, q, x) :
              /\ Handler(n, n.prom[q].reactions[x][k].handler)
              /\ n.prom[q].reactions[x][k].pair \in {0} \cup Pairs(n)
        /\ \A q \in Proms(n) : n.prom[q].to[1] = "prom" => n.prom[q].to[2] \in Proms(n)
        /\ \A i \in Regs(n) : n.regs[i] \in Proms(n)
    BY <1>1, <1>2, <1>3, <2>1 DEF Refs
  <2>. QED  BY <2>2, <2>3, <2>4 DEF Refs
<1>7. Plain(n)
  BY <1>1, <1>2, <1>3, <1>4 DEF Plain
<1>8. Once(n)
  <2>1. \A k \in Jobs(n) : IsThenable(n, k) =>
          /\ Pending(n, n.jobs[k].p) /\ n.prom[n.jobs[k].p].to = n.jobs[k].v
          /\ \A i \in Pairs(n) : n.pair[i].p = n.jobs[k].p => n.pair[i].done
    BY <1>1, <1>2, <1>3, <1>4 DEF Once
  <2>2. ASSUME NEW k \in Jobs(n), NEW m \in Jobs(n), IsThenable(n, k), IsThenable(n, m),
               n.jobs[k].p = n.jobs[m].p
        PROVE  k = m
    <3>1. k + 1 = m + 1
      BY <1>1, <1>2, <1>4, <2>2 DEF Once
    <3>. QED  BY <1>2, <3>1
  <2>3. /\ n.again = {}
        /\ \A i, k \in Pairs(n) :
              ~ n.pair[i].done /\ ~ n.pair[k].done /\ n.pair[i].p = n.pair[k].p => i = k
        /\ \A i \in Pairs(n) : ~ n.pair[i].done => Pending(n, n.pair[i].p)
    BY <1>1, <1>2, <1>3 DEF Once
  <2>. QED  BY <2>1, <2>2, <2>3 DEF Once
<1>9. Lists(n)
  BY <1>1, <1>2, SameLists
<1>10. Owned(n)
  <2>1. SUFFICES ASSUME NEW i \in Pairs(n), Internal(n, i)
                 PROVE  /\ i # 1
                        /\ \A f \in n.fns : ~ Uses(f, i)
                        /\ \A a \in Aggrs(n) : n.aggr[a].pair # i
                        /\ \A q \in Proms(n), x \in {1, 2} : \A k \in List(n, q, x) :
                              /\ n.prom[q].reactions[x][k].pair # i
                              /\ Uses(n.prom[q].reactions[x][k].handler, i) =>
                                    /\ q = Source(n, i)
                                    /\ n.prom[q].reactions[x][k].handler[1] = IF x = 1 THEN "resolve" ELSE "reject"
                        /\ \A k \in Jobs(n) : IsReaction(n, k) =>
                              /\ n.jobs[k].pair # i
                              /\ Uses(n.jobs[k].handler, i) =>
                                    /\ n.prom[Source(n, i)].state = Outcome(n.jobs[k].handler[1] = "reject")
                                    /\ n.prom[Source(n, i)].result = n.jobs[k].arg
    BY DEF Owned
  <2>2. i \in Pairs(s) /\ Internal(s, i) /\ Source(n, i) = Source(s, i)
    BY <1>3, <2>1
  <2>3. /\ i # 1
        /\ \A f \in n.fns : ~ Uses(f, i)
        /\ \A a \in Aggrs(n) : n.aggr[a].pair # i
    BY <1>1, <1>2, <1>3, <2>2 DEF Owned
  <2>4. \A q \in Proms(n), x \in {1, 2} : \A k \in List(n, q, x) :
            /\ n.prom[q].reactions[x][k].pair # i
            /\ Uses(n.prom[q].reactions[x][k].handler, i) =>
                  /\ q = Source(n, i)
                  /\ n.prom[q].reactions[x][k].handler[1] = IF x = 1 THEN "resolve" ELSE "reject"
    BY <1>1, <1>2, <1>3, <2>2 DEF Owned
  <2>5. \A k \in Jobs(n) : IsReaction(n, k) =>
            /\ n.jobs[k].pair # i
            /\ Uses(n.jobs[k].handler, i) =>
                  /\ n.prom[Source(n, i)].state = Outcome(n.jobs[k].handler[1] = "reject")
                  /\ n.prom[Source(n, i)].result = n.jobs[k].arg
    BY <1>1, <1>2, <1>4, <2>2 DEF Owned
  <2>. QED  BY <2>3, <2>4, <2>5
<1>11. Adopted(n)
  BY <1>1, <1>2, <1>3 DEF Adopted
<1>. QED  BY <1>1, <1>2, <1>3, <1>5, <1>6, <1>7, <1>8, <1>9, <1>10, <1>11

\* What is left in the queue keeps its order.
PopsOrder(s, n) ==
  /\ \A k \in Jobs(n) : IsReaction(n, k) =>
        n.jobs[k].id \in Regs(s) /\ ~ Pending(s, PromiseOf(n, k))
  /\ \A k, l \in Jobs(n) : k < l /\ IsReaction(n, k) /\ IsReaction(n, l)
                             /\ PromiseOf(n, k) = PromiseOf(n, l)
                           => n.jobs[k].id < n.jobs[l].id
  /\ \A k \in Logged(s), l \in Jobs(n) :
        IsReaction(n, l) /\ s.regs[s.log[k]] = PromiseOf(n, l) => s.log[k] < n.jobs[l].id
  /\ IsReaction(s, 1) =>
        \A l \in Jobs(n) : IsReaction(n, l) /\ PromiseOf(s, 1) = PromiseOf(n, l) =>
                              s.jobs[1].id < n.jobs[l].id
  /\ \A k \in Jobs(s) : IsReaction(s, k) /\ k # 1 =>
        \E m \in Jobs(n) : IsReaction(n, m) /\ n.jobs[m].id = s.jobs[k].id

LEMMA PopOrder ==
  ASSUME NEW s, Good(s), NEW n, Pops(s, n)
  PROVE  PopsOrder(s, n)
<1>1. Queue(s) /\ n.regs = s.regs /\ 1 \in Jobs(s)
  BY DEF Good, Pops
<1>2. ASSUME NEW k \in Jobs(n)
      PROVE  \E a \in Jobs(s) : a = k + 1 /\ 1 < a /\ n.jobs[k] = s.jobs[a]
  <2>1. k + 1 \in Jobs(s) /\ n.jobs[k] = s.jobs[k + 1] /\ 1 < k + 1
    BY DEF Pops, Jobs
  <2>. QED  BY <2>1
<1>3. ASSUME NEW k \in Jobs(n), NEW a \in Jobs(s), n.jobs[k] = s.jobs[a]
      PROVE  (IsReaction(n, k) <=> IsReaction(s, a)) /\ PromiseOf(n, k) = PromiseOf(s, a)
  BY <1>1, <1>3 DEF IsReaction, PromiseOf
<1>4. \A k \in Jobs(n) : IsReaction(n, k) =>
         n.jobs[k].id \in Regs(s) /\ ~ Pending(s, PromiseOf(n, k))
  <2>1. TAKE k \in Jobs(n)
  <2>2. PICK a \in Jobs(s) : n.jobs[k] = s.jobs[a]
    BY <1>2
  <2>3. (IsReaction(n, k) <=> IsReaction(s, a)) /\ PromiseOf(n, k) = PromiseOf(s, a)
    BY <1>3, <2>2
  <2>. QED  BY <1>1, <2>2, <2>3 DEF Queue
<1>5. ASSUME NEW k \in Jobs(n), NEW l \in Jobs(n), k < l, IsReaction(n, k), IsReaction(n, l),
             PromiseOf(n, k) = PromiseOf(n, l)
      PROVE  n.jobs[k].id < n.jobs[l].id
  <2>1. PICK a \in Jobs(s) : a = k + 1 /\ n.jobs[k] = s.jobs[a]
    BY <1>2
  <2>2. PICK b \in Jobs(s) : b = l + 1 /\ n.jobs[l] = s.jobs[b]
    BY <1>2
  <2>3. a < b
    <3>1. k \in Int /\ l \in Int
      BY DEF Jobs
    <3>. QED  BY <1>5, <2>1, <2>2, <3>1
  <2>4. IsReaction(s, a) /\ IsReaction(s, b) /\ PromiseOf(s, a) = PromiseOf(s, b)
    BY <1>3, <1>5, <2>1, <2>2
  <2>. QED  BY <1>1, <2>1, <2>2, <2>3, <2>4 DEF Queue
<1>6. ASSUME NEW k \in Logged(s), NEW l \in Jobs(n), IsReaction(n, l),
             s.regs[s.log[k]] = PromiseOf(n, l)
      PROVE  s.log[k] < n.jobs[l].id
  <2>1. PICK b \in Jobs(s) : n.jobs[l] = s.jobs[b]
    BY <1>2
  <2>2. IsReaction(s, b) /\ PromiseOf(s, b) = PromiseOf(n, l)
    BY <1>3, <1>6, <2>1
  <2>. QED  BY <1>1, <1>6, <2>1, <2>2 DEF Queue
<1>7. ASSUME IsReaction(s, 1), NEW l \in Jobs(n), IsReaction(n, l), PromiseOf(s, 1) = PromiseOf(n, l)
      PROVE  s.jobs[1].id < n.jobs[l].id
  <2>1. PICK b \in Jobs(s) : 1 < b /\ n.jobs[l] = s.jobs[b]
    BY <1>2
  <2>2. IsReaction(s, b) /\ PromiseOf(s, b) = PromiseOf(n, l)
    BY <1>3, <1>7, <2>1
  <2>. QED  BY <1>1, <1>7, <2>1, <2>2 DEF Queue
<1>8. ASSUME NEW k \in Jobs(s), IsReaction(s, k), k # 1
      PROVE  \E m \in Jobs(n) : IsReaction(n, m) /\ n.jobs[m].id = s.jobs[k].id
  <2>1. PICK m \in Jobs(n) : k = m + 1
    BY <1>8 DEF Pops
  <2>2. n.jobs[m] = s.jobs[k]
    BY <2>1 DEF Pops
  <2>. QED  BY <1>3, <1>8, <2>2
<1>. QED  BY <1>4, <1>5, <1>6, <1>7, <1>8 DEF PopsOrder

\* The job of a thenable leaves the queue: its promise has nothing that would
\* settle it.
\* No pair and no other job is to settle the promise of the thenable.
ThenableReady(s, n, j) ==
  /\ Good(n) /\ Grows(s, n)
  /\ j.p \in Proms(n) /\ Pending(n, j.p) /\ Thenable(n, j.v) /\ n.prom[j.p].to = j.v
  /\ \A k \in Pairs(n) : n.pair[k].p = j.p => n.pair[k].done
  /\ \A k \in Jobs(n) : IsThenable(n, k) => n.jobs[k].p # j.p

LEMMA PopThenable ==
  ASSUME NEW s, Good(s), s.jobs # <<>>, NEW n, n = [s EXCEPT !.jobs = Tail(@)],
         NEW j, j = Head(s.jobs), j.kind = "thenable"
  PROVE  ThenableReady(s, n, j)
<1>1. s \in PromiseState /\ Refs(s) /\ Once(s) /\ Queue(s)
  BY DEF Good
<1>2. Pops(s, n) /\ n.log = s.log /\ j = s.jobs[1]
  BY <1>1, PopParts
<1>3. /\ Grows(s, n) /\ Refs(n) /\ Plain(n) /\ Once(n) /\ Lists(n) /\ Owned(n) /\ Adopted(n)
      /\ Len(n.pair) > 0
  BY <1>2, PopRest
<1>4. IsThenable(s, 1) /\ 1 \in Jobs(s) /\ ~ IsReaction(s, 1)
  BY <1>2 DEF Pops, IsThenable, IsReaction
<1>5. /\ n.prom = s.prom /\ n.pair = s.pair /\ n.regs = s.regs /\ Regs(n) = Regs(s)
      /\ Proms(n) = Proms(s) /\ Pairs(n) = Pairs(s) /\ Logged(n) = Logged(s)
      /\ \A q : Pending(n, q) <=> Pending(s, q)
  BY <1>2 DEF Pops, Regs, Proms, Pairs, Logged, Pending
<1>6. /\ \A k \in Jobs(n) : k + 1 \in Jobs(s) /\ k + 1 # 1 /\ n.jobs[k] = s.jobs[k + 1] /\ k \in Int
      /\ \A k \in Jobs(n) : IsReaction(n, k) <=> IsReaction(s, k + 1)
      /\ \A k \in Jobs(n) : IsThenable(n, k) <=> IsThenable(s, k + 1)
      /\ \A k \in Jobs(n) : PromiseOf(n, k) = PromiseOf(s, k + 1)
  BY <1>2 DEF Pops, IsReaction, IsThenable, PromiseOf, Jobs
<1>7. /\ j.p \in Proms(n) /\ Pending(n, j.p) /\ n.prom[j.p].to = j.v
      /\ \A k \in Pairs(n) : n.pair[k].p = j.p => n.pair[k].done
  BY <1>1, <1>2, <1>4, <1>5, SMTT(60) DEF Refs, Once
<1>8. Thenable(n, j.v)
  BY <1>1, <1>2, <1>3, <1>4, RefsGrow DEF Refs
<1>9. \A k \in Jobs(n) : IsThenable(n, k) => n.jobs[k].p # j.p
  BY <1>1, <1>2, <1>4, <1>6 DEF Once
<1>10. Queue(n)
  <2>1. PopsOrder(s, n)
    BY <1>2, PopOrder
  <2>2. /\ \A k \in Jobs(n) : IsReaction(n, k) =>
              n.jobs[k].id \in Regs(n) /\ ~ Pending(n, PromiseOf(n, k))
        /\ \A k \in Logged(n) : n.log[k] \in Regs(n) /\ ~ Pending(n, n.regs[n.log[k]])
    BY <1>1, <1>2, <1>5, <2>1 DEF Queue, PopsOrder
  <2>3. \A k, m \in Jobs(n) : k < m /\ IsReaction(n, k) /\ IsReaction(n, m)
                                /\ PromiseOf(n, k) = PromiseOf(n, m)
                              => n.jobs[k].id < n.jobs[m].id
    BY <2>1 DEF PopsOrder
  <2>4. \A k \in Logged(n), m \in Jobs(n) :
           IsReaction(n, m) /\ n.regs[n.log[k]] = PromiseOf(n, m) => n.log[k] < n.jobs[m].id
    <3>1. TAKE k \in Logged(n), m \in Jobs(n)
    <3>2. HAVE IsReaction(n, m) /\ n.regs[n.log[k]] = PromiseOf(n, m)
    <3>3. k \in Logged(s) /\ n.log[k] = s.log[k] /\ s.regs[s.log[k]] = PromiseOf(n, m)
      BY <1>2, <1>5, <3>2
    <3>. QED  BY <2>1, <3>2, <3>3 DEF PopsOrder
  <2>5. \A k, m \in Logged(n) : k < m /\ n.regs[n.log[k]] = n.regs[n.log[m]] => n.log[k] < n.log[m]
    BY <1>1, <1>2, <1>5 DEF Queue
  <2>6. ASSUME NEW id \in Regs(n), ~ Pending(n, n.regs[id])
        PROVE  \/ \E k \in Jobs(n) : IsReaction(n, k) /\ n.jobs[k].id = id
               \/ \E k \in Logged(n) : n.log[k] = id
    <3>1. \/ \E k \in Jobs(s) : IsReaction(s, k) /\ s.jobs[k].id = id
          \/ \E k \in Logged(s) : s.log[k] = id
      BY <1>1, <1>5, <2>6 DEF Queue
    <3>2. ASSUME NEW k \in Jobs(s), IsReaction(s, k), s.jobs[k].id = id
          PROVE  \E m \in Jobs(n) : IsReaction(n, m) /\ n.jobs[m].id = id
      <4>1. k # 1
        BY <1>4, <3>2
      <4>. QED  BY <2>1, <3>2, <4>1 DEF PopsOrder
    <3>3. CASE \E k \in Logged(s) : s.log[k] = id
      BY <1>2, <1>5, <3>3
    <3>. QED  BY <3>1, <3>2, <3>3
  <2>. QED  BY <2>2, <2>3, <2>4, <2>5, <2>6 DEF Queue
<1>11. Good(n)
  BY <1>2, <1>3, <1>10 DEF Good, Pops
<1>. QED  BY <1>3, <1>7, <1>8, <1>9, <1>11 DEF ThenableReady

\* A reaction leaves the queue, and is logged.
\* The handler may be called, and the functions of the then.
ReactionReady(s, n, j) ==
  /\ Good(n) /\ Grows(s, n) /\ j.arg \in Triples /\ j.rej \in BOOLEAN
  /\ Handler(n, j.handler) /\ j.pair \in {0} \cup Pairs(n) /\ ~ Internal(n, j.pair)
  /\ j.arg[1] = "val"
  /\ \A i \in Pairs(n) : Internal(n, i) /\ Uses(j.handler, i) =>
        /\ n.prom[Source(n, i)].state = Outcome(j.handler[1] = "reject")
        /\ n.prom[Source(n, i)].result = j.arg

LEMMA PopReaction ==
  ASSUME NEW s, Good(s), s.jobs # <<>>, NEW j, j = Head(s.jobs), j.kind = "reaction",
         NEW m, m = [s EXCEPT !.jobs = Tail(@)], NEW n, n = [m EXCEPT !.log = Append(@, j.id)]
  PROVE  ReactionReady(s, n, j)
<1>1. s \in PromiseState /\ Refs(s) /\ Once(s) /\ Queue(s) /\ Owned(s) /\ Plain(s)
  BY DEF Good
<1>2. Pops(s, m) /\ m.log = s.log /\ j = s.jobs[1]
  BY <1>1, PopParts
<1>3. IsReaction(s, 1) /\ 1 \in Jobs(s) /\ j.id \in Regs(s) /\ j.id \in Nat
  BY <1>1, <1>2 DEF Pops, IsReaction, Queue, Regs
<1>4. j \in ReactionJob
  <2>1. j \in PromiseJob
    BY <1>1, <1>2, <1>3, StateParts
  <2>. QED  BY <2>1 DEF PromiseJob, ThenableJob
<1>5. PICK q : q = Append(s.log, j.id)
  OBVIOUS
<1>6. s.log \in Seq(Nat) /\ Len(s.log) \in Nat
  BY <1>1, StateParts
<1>7. /\ q \in Seq(Nat) /\ Len(q) = Len(s.log) + 1
      /\ \A k \in 1 .. Len(s.log) : q[k] = s.log[k]
      /\ q[Len(s.log) + 1] = j.id
  BY <1>3, <1>5, <1>6, AppendParts
<1>8. n = [m EXCEPT !.log = q] /\ m \in PromiseState
  BY <1>2, <1>5 DEF Pops
<1>9. /\ n \in PromiseState /\ n.log = q /\ n.jobs = m.jobs
      /\ n.prom = m.prom /\ n.pair = m.pair /\ n.again = m.again /\ n.aggr = m.aggr
      /\ n.fns = m.fns /\ n.regs = m.regs
  BY <1>7, <1>8 DEF PromiseState
<1>10. Pops(s, n)
  BY <1>2, <1>9 DEF Pops, Jobs
<1>11. /\ Grows(s, n) /\ Refs(n) /\ Plain(n) /\ Once(n) /\ Lists(n) /\ Owned(n) /\ Adopted(n)
       /\ Len(n.pair) > 0 /\ \A i : Internal(n, i) <=> Internal(s, i)
  BY <1>10, PopRest
<1>12. /\ n.prom = s.prom /\ n.pair = s.pair /\ n.regs = s.regs /\ Regs(n) = Regs(s)
       /\ Proms(n) = Proms(s) /\ Pairs(n) = Pairs(s)
       /\ \A p : Pending(n, p) <=> Pending(s, p)
       /\ \A i : Source(n, i) = Source(s, i)
  BY <1>10 DEF Pops, Regs, Proms, Pairs, Pending, Source
<1>13. /\ \A k \in Jobs(n) : k + 1 \in Jobs(s) /\ k + 1 # 1 /\ n.jobs[k] = s.jobs[k + 1] /\ k \in Int
       /\ \A k \in Jobs(n) : 1 < k + 1
       /\ \A k \in Jobs(n) : IsReaction(n, k) <=> IsReaction(s, k + 1)
       /\ \A k \in Jobs(n) : PromiseOf(n, k) = PromiseOf(s, k + 1)
  BY <1>10 DEF Pops, IsReaction, PromiseOf, Jobs
<1>14. PICK e \in Nat : e = Len(s.log) + 1
  BY <1>6
<1>15. /\ e \in Logged(n) /\ n.log[e] = j.id
       /\ \A k \in Logged(n) : (k \in Logged(s) /\ k < e) \/ k = e
       /\ \A k \in Logged(s) : k \in Logged(n) /\ k < e /\ n.log[k] = s.log[k]
  BY <1>6, <1>7, <1>9, <1>14 DEF Logged
<1>16. /\ Handler(n, j.handler) /\ j.pair \in {0} \cup Pairs(n) /\ ~ Internal(n, j.pair)
       /\ j.arg[1] = "val"
  <2>1. Handler(s, j.handler) /\ j.pair \in {0} \cup Pairs(s) /\ j.arg[1] = "val"
    BY <1>1, <1>2, <1>3 DEF Refs, Plain
  <2>2. ~ Internal(s, j.pair)
    <3>1. CASE j.pair = 0
      BY <3>1, SMTT(60) DEF Internal, Pairs
    <3>2. CASE j.pair \in Pairs(s)
      BY <1>1, <1>2, <1>3, <3>2 DEF Owned
    <3>. QED  BY <2>1, <3>1, <3>2
  <2>. QED  BY <1>11, <1>12, <2>1, <2>2, RefsGrow
<1>17. ASSUME NEW i \in Pairs(n), Internal(n, i), Uses(j.handler, i)
       PROVE  /\ n.prom[Source(n, i)].state = Outcome(j.handler[1] = "reject")
              /\ n.prom[Source(n, i)].result = j.arg
  <2>1. i \in Pairs(s) /\ Internal(s, i) /\ Source(n, i) = Source(s, i)
    BY <1>11, <1>12, <1>17
  <2>2. /\ s.prom[Source(s, i)].state = Outcome(s.jobs[1].handler[1] = "reject")
        /\ s.prom[Source(s, i)].result = s.jobs[1].arg
    BY <1>1, <1>2, <1>3, <1>17, <2>1, SMTT(60) DEF Owned
  <2>. QED  BY <1>2, <1>12, <2>1, <2>2
<1>18. Queue(n)
  <2>1. PopsOrder(s, n)
    BY <1>10, PopOrder
  <2>2. ~ Pending(s, s.regs[j.id]) /\ s.regs[j.id] = PromiseOf(s, 1)
    BY <1>1, <1>2, <1>3 DEF Queue, PromiseOf
  <2>3. /\ \A k \in Jobs(n) : IsReaction(n, k) =>
              n.jobs[k].id \in Regs(n) /\ ~ Pending(n, PromiseOf(n, k))
        /\ \A k, l \in Jobs(n) : k < l /\ IsReaction(n, k) /\ IsReaction(n, l)
                                   /\ PromiseOf(n, k) = PromiseOf(n, l)
                                 => n.jobs[k].id < n.jobs[l].id
    BY <1>12, <2>1 DEF PopsOrder
  <2>4. \A k \in Logged(n) : n.log[k] \in Regs(n) /\ ~ Pending(n, n.regs[n.log[k]])
    <3>1. TAKE k \in Logged(n)
    <3>2. CASE k = e
      BY <1>3, <1>12, <1>15, <2>2, <3>2
    <3>3. CASE k \in Logged(s)
      <4>1. n.log[k] = s.log[k] /\ s.log[k] \in Regs(s) /\ ~ Pending(s, s.regs[s.log[k]])
        BY <1>1, <1>15, <3>3 DEF Queue
      <4>. QED  BY <1>12, <4>1
    <3>. QED  BY <1>15, <3>2, <3>3
  <2>5. ASSUME NEW k \in Logged(n), NEW l \in Jobs(n), IsReaction(n, l),
               n.regs[n.log[k]] = PromiseOf(n, l)
        PROVE  n.log[k] < n.jobs[l].id
    <3>1. CASE k = e
      <4>1. PromiseOf(s, 1) = PromiseOf(n, l)
        BY <1>12, <1>15, <2>2, <2>5, <3>1
      <4>2. s.jobs[1].id < n.jobs[l].id
        BY <1>3, <2>1, <2>5, <4>1 DEF PopsOrder
      <4>3. n.log[k] = s.jobs[1].id
        BY <1>2, <1>15, <3>1
      <4>. QED  BY <4>2, <4>3
    <3>2. CASE k \in Logged(s)
      <4>1. n.log[k] = s.log[k] /\ s.regs[s.log[k]] = PromiseOf(n, l)
        BY <1>12, <1>15, <2>5, <3>2
      <4>. QED  BY <2>1, <2>5, <3>2, <4>1 DEF PopsOrder
    <3>. QED  BY <1>15, <3>1, <3>2
  <2>6. ASSUME NEW k \in Logged(n), NEW l \in Logged(n), k < l,
               n.regs[n.log[k]] = n.regs[n.log[l]]
        PROVE  n.log[k] < n.log[l]
    <3>1. k \in Int /\ l \in Int
      BY DEF Logged
    <3>2. k \in Logged(s) /\ n.log[k] = s.log[k]
      <4>1. l < e \/ l = e
        BY <1>15
      <4>2. k # e
        BY <2>6, <3>1, <4>1
      <4>. QED  BY <1>15, <4>2
    <3>3. CASE l = e
      <4>1. s.regs[s.log[k]] = PromiseOf(s, 1)
        BY <1>12, <1>15, <2>2, <2>6, <3>2, <3>3, ZenonT(60)
      <4>2. s.log[k] < s.jobs[1].id
        BY <1>1, <1>3, <3>2, <4>1 DEF Queue
      <4>. QED  BY <1>2, <1>15, <3>2, <3>3, <4>2
    <3>4. CASE l \in Logged(s)
      <4>1. n.log[l] = s.log[l] /\ s.regs[s.log[k]] = s.regs[s.log[l]]
        BY <1>12, <1>15, <2>6, <3>2, <3>4
      <4>. QED  BY <1>1, <2>6, <3>2, <3>4, <4>1 DEF Queue
    <3>. QED  BY <1>15, <3>3, <3>4
  <2>7. ASSUME NEW id \in Regs(n), ~ Pending(n, n.regs[id])
        PROVE  \/ \E k \in Jobs(n) : IsReaction(n, k) /\ n.jobs[k].id = id
               \/ \E k \in Logged(n) : n.log[k] = id
    <3>1. \/ \E k \in Jobs(s) : IsReaction(s, k) /\ s.jobs[k].id = id
          \/ \E k \in Logged(s) : s.log[k] = id
      BY <1>1, <1>12, <2>7 DEF Queue
    <3>2. ASSUME NEW k \in Jobs(s), IsReaction(s, k), s.jobs[k].id = id
          PROVE  \/ \E l \in Jobs(n) : IsReaction(n, l) /\ n.jobs[l].id = id
                 \/ \E l \in Logged(n) : n.log[l] = id
      <4>1. CASE k = 1
        BY <1>2, <1>15, <3>2, <4>1
      <4>2. CASE k # 1
        BY <2>1, <3>2, <4>2 DEF PopsOrder
      <4>. QED  BY <4>1, <4>2
    <3>3. ASSUME NEW k \in Logged(s), s.log[k] = id
          PROVE  \E l \in Logged(n) : n.log[l] = id
      BY <1>15, <3>3
    <3>. QED  BY <3>1, <3>2, <3>3
  <2>. QED  BY <2>3, <2>4, <2>5, <2>6, <2>7, ZenonT(60) DEF Queue
<1>19. Good(n)
  BY <1>9, <1>11, <1>18 DEF Good
<1>20. j.arg \in Triples /\ j.rej \in BOOLEAN
  BY <1>4 DEF ReactionJob
<1>. QED  BY <1>11, <1>16, <1>17, <1>19, <1>20 DEF ReactionReady

-----------------------------------------------------------------------------
(* Calls of the engine's functions, and the combinators.                   *)

\* A pair that is not internal may be called with any value.
LEMMA PlainCall ==
  ASSUME NEW s, NEW i \in Pairs(s), ~ Internal(s, i), NEW v \in Triples, v[1] = "val",
         NEW rej \in BOOLEAN
  PROVE  MayCall(s, i, v, rej)
BY DEF MayCall

LEMMA UndefinedPlain == Undefined \in Triples /\ Undefined[1] = "val"
BY DEF Undefined, Triples

\* Only an aggregate is another one.
Recounts(s, n) ==
  /\ n.prom = s.prom /\ n.pair = s.pair /\ n.jobs = s.jobs /\ n.fns = s.fns
  /\ Len(n.aggr) = Len(s.aggr)

\* Combinator a becomes g.
LEMMA CountGood ==
  ASSUME NEW s, Good(s), NEW a \in Aggrs(s), NEW g, g \in Aggregate,
         g.pair = s.aggr[a].pair, g.items = s.aggr[a].items, g.index \in 0 .. Len(g.items),
         NEW n, n = [s EXCEPT !.aggr[a] = g]
  PROVE  /\ Good(n) /\ Grows(s, n) /\ n.aggr[a] = g /\ a \in Aggrs(n)
         /\ g.pair \in Pairs(n) /\ ~ Internal(n, g.pair) /\ Recounts(s, n)
<1>1. s \in PromiseState /\ Refs(s) /\ Owned(s) /\ s.aggr \in Seq(Aggregate) /\ Len(s.aggr) \in Nat
  BY StateParts DEF Good
<1>2. PICK A : A = [s.aggr EXCEPT ![a] = g]
  OBVIOUS
<1>3. A \in Seq(Aggregate) /\ Len(A) = Len(s.aggr)
  BY <1>1, <1>2 DEF Aggrs
<1>4. A[a] = g /\ \A b \in Aggrs(s) : b # a => A[b] = s.aggr[b]
  BY <1>1, <1>2 DEF Aggrs
<1>5. \A b \in Aggrs(s) :
         /\ s.aggr[b].pair \in Pairs(s) /\ ~ Internal(s, s.aggr[b].pair)
         /\ s.aggr[b].index \in 0 .. Len(s.aggr[b].items)
         /\ \A i \in 1 .. Len(s.aggr[b].items) : Thenable(s, s.aggr[b].items[i])
  BY <1>1 DEF Refs, Owned
<1>6. \A b \in 1 .. Len(A) :
         /\ A[b].pair \in Pairs(s) /\ ~ Internal(s, A[b].pair)
         /\ A[b].index \in 0 .. Len(A[b].items)
         /\ \A i \in 1 .. Len(A[b].items) : Thenable(s, A[b].items[i])
  <2>1. TAKE b \in 1 .. Len(A)
  <2>2. b \in Aggrs(s)
    BY <1>3 DEF Aggrs
  <2>3. CASE b = a
    BY <1>4, <1>5, <2>3
  <2>4. CASE b # a
    BY <1>4, <1>5, <2>2, <2>4
  <2>. QED  BY <2>3, <2>4
<1>7. n = [s EXCEPT !.aggr = A]
  BY <1>2
<1>8. Len(A) >= Len(s.aggr)
  BY <1>1, <1>3
<1>9. Good(n) /\ Grows(s, n) /\ \A i : Internal(n, i) <=> Internal(s, i)
  BY <1>3, <1>6, <1>7, <1>8, CombineGood
<1>10. n.aggr = A /\ n.pair = s.pair /\ n.prom = s.prom /\ n.jobs = s.jobs /\ n.fns = s.fns
  BY <1>1, <1>7 DEF PromiseState
<1>11. a \in Aggrs(n) /\ Pairs(n) = Pairs(s)
  BY <1>3, <1>10 DEF Aggrs, Pairs
<1>12. Recounts(s, n)
  BY <1>3, <1>10 DEF Recounts
<1>. QED  BY <1>4, <1>5, <1>9, <1>10, <1>11, <1>12

\* An element reports; the last one settles the result.
LEMMA ElementGood ==
  ASSUME NEW s, Good(s), NEW f, f \in Triples, f[2] \in Aggrs(s), NEW v,
         NEW n, n = js_promise_all_resolve_element(s, f, v)
  PROVE  Good(n) /\ Grows(s, n)
<1>1. PICK a : a = f[2]
  OBVIOUS
<1>2. s \in PromiseState /\ a \in Aggrs(s) /\ s.aggr[a] \in Aggregate
  BY <1>1, StateParts DEF Good
<1>3. PICK g : g = [s.aggr[a] EXCEPT !.called = @ \cup {f}, !.remaining = @ - 1]
  OBVIOUS
<1>4. /\ g \in Aggregate /\ g.pair = s.aggr[a].pair /\ g.items = s.aggr[a].items
      /\ g.index = s.aggr[a].index
  <2>1. PICK C : C = s.aggr[a].called \cup {f}
    OBVIOUS
  <2>2. PICK c : c = s.aggr[a].remaining - 1
    OBVIOUS
  <2>3. s.aggr[a].called \in SUBSET Triples
    BY <1>2 DEF Aggregate
  <2>4. C \in SUBSET Triples
    BY <2>1, <2>3
  <2>5. c \in Int
    BY <1>2, <2>2 DEF Aggregate
  <2>6. g = [[s.aggr[a] EXCEPT !.called = C] EXCEPT !.remaining = c]
    BY <1>3, <2>1, <2>2
  <2>. QED  BY <1>2, <2>4, <2>5, <2>6 DEF Aggregate
<1>5. g.index \in 0 .. Len(g.items)
  BY <1>2, <1>4 DEF Good, Refs
<1>6. PICK m : m = [s EXCEPT !.aggr[a] = g]
  OBVIOUS
<1>7. /\ Good(m) /\ Grows(s, m) /\ m.aggr[a] = g
      /\ g.pair \in Pairs(m) /\ ~ Internal(m, g.pair)
  BY <1>2, <1>4, <1>5, <1>6, CountGood
<1>8. m = [s EXCEPT !.aggr[a].called = @ \cup {f}, !.aggr[a].remaining = @ - 1]
  <2>1. s.aggr \in Seq(Aggregate)
    BY <1>2, StateParts
  <2>. QED  BY <1>2, <1>3, <1>6, <2>1 DEF PromiseState, Aggrs
<1>9. \/ n = s
      \/ n = m
      \/ n = js_promise_resolve_function_call(m, g.pair, Undefined, s.aggr[a].kind = "any")
  BY <1>1, <1>4, <1>8 DEF js_promise_all_resolve_element
<1>10. CASE n = s
  BY <1>10 DEF Grows
<1>11. CASE n = m
  BY <1>7, <1>11
<1>12. CASE n = js_promise_resolve_function_call(m, g.pair, Undefined, s.aggr[a].kind = "any")
  <2>1. MayCall(m, g.pair, Undefined, s.aggr[a].kind = "any")
    BY <1>7, UndefinedPlain, PlainCall
  <2>2. Good(n) /\ Grows(m, n)
    BY <1>7, <1>12, <2>1, ResolveGood
  <2>. QED  BY <1>7, <2>2, GrowsTransitive
<1>. QED  BY <1>9, <1>10, <1>11, <1>12

\* What a function may be called with.
MayCallFunction(s, f, v) ==
  /\ Func(s, f)
  /\ f[1] = "resolve" => MayCall(s, f[2], v, FALSE)
  /\ f[1] = "reject" => MayCall(s, f[2], v, TRUE)

LEMMA CallGood ==
  ASSUME NEW s, Good(s), NEW f, NEW v, MayCallFunction(s, f, v), NEW n, n = Call(s, f, v)
  PROVE  Good(n) /\ Grows(s, n)
<1>1. CASE f[1] = "resolve"
  <2>1. n = js_promise_resolve_function_call(s, f[2], v, FALSE)
    BY <1>1 DEF Call
  <2>. QED  BY <1>1, <2>1, ResolveGood DEF MayCallFunction
<1>2. CASE f[1] = "reject"
  <2>1. n = js_promise_resolve_function_call(s, f[2], v, TRUE)
    BY <1>2 DEF Call
  <2>. QED  BY <1>2, <2>1, ResolveGood DEF MayCallFunction
<1>3. CASE f[1] # "resolve" /\ f[1] # "reject"
  <2>1. n = js_promise_all_resolve_element(s, f, v)
    BY <1>3 DEF Call
  <2>2. f \in Triples /\ f[2] \in Aggrs(s)
    BY <1>3 DEF MayCallFunction, Func
  <2>. QED  BY <2>1, <2>2, ElementGood
<1>. QED  BY <1>1, <1>2, <1>3

LEMMA EndGood ==
  ASSUME NEW s, Good(s), NEW a \in Aggrs(s), NEW n, n = EndOfLoop(s, a)
  PROVE  Good(n) /\ Grows(s, n)
<1>1. s \in PromiseState /\ s.aggr[a] \in Aggregate
  BY StateParts DEF Good
<1>2. PICK g : g = [s.aggr[a] EXCEPT !.remaining = @ - 1]
  OBVIOUS
<1>3. /\ g \in Aggregate /\ g.pair = s.aggr[a].pair /\ g.items = s.aggr[a].items
      /\ g.index = s.aggr[a].index
  BY <1>1, <1>2 DEF Aggregate
<1>4. g.index \in 0 .. Len(g.items)
  BY <1>1, <1>3 DEF Good, Refs
<1>5. PICK m : m = [s EXCEPT !.aggr[a] = g]
  OBVIOUS
<1>6. /\ Good(m) /\ Grows(s, m)
      /\ g.pair \in Pairs(m) /\ ~ Internal(m, g.pair)
  BY <1>1, <1>3, <1>4, <1>5, CountGood
<1>7. m = [s EXCEPT !.aggr[a].remaining = @ - 1]
  BY <1>2, <1>5
<1>8. \/ n = m
      \/ n = js_promise_resolve_function_call(m, g.pair, Undefined, s.aggr[a].kind = "any")
  BY <1>3, <1>7 DEF EndOfLoop
<1>9. CASE n = m
  BY <1>6, <1>9
<1>10. CASE n = js_promise_resolve_function_call(m, g.pair, Undefined, s.aggr[a].kind = "any")
  <2>1. MayCall(m, g.pair, Undefined, s.aggr[a].kind = "any")
    BY <1>6, UndefinedPlain, PlainCall
  <2>2. Good(n) /\ Grows(m, n)
    BY <1>6, <1>10, <2>1, ResolveGood
  <2>. QED  BY <1>6, <2>2, GrowsTransitive
<1>. QED  BY <1>8, <1>9, <1>10

LEMMA NextGood ==
  ASSUME NEW s, Good(s), NEW a \in Aggrs(s), s.aggr[a].index # Len(s.aggr[a].items),
         NEW n, n = NextElement(s, a)
  PROVE  Good(n) /\ Grows(s, n)
<1>1. s \in PromiseState /\ s.aggr[a] \in Aggregate
  BY StateParts DEF Good
<1>2. PICK i : i = s.aggr[a].index + 1
  OBVIOUS
<1>3. i \in Nat /\ i \in 1 .. Len(s.aggr[a].items)
  <2>1. s.aggr[a].index \in 0 .. Len(s.aggr[a].items)
    BY DEF Good, Refs
  <2>2. s.aggr[a].items \in Seq(Triples)
    BY <1>1 DEF Aggregate
  <2>3. Len(s.aggr[a].items) \in Nat
    BY <2>2, SeqParts
  <2>. QED  BY <1>2, <2>1, <2>3
<1>4. PICK g : g = [s.aggr[a] EXCEPT !.index = i, !.remaining = @ + 1]
  OBVIOUS
<1>5. /\ g \in Aggregate /\ g.pair = s.aggr[a].pair /\ g.items = s.aggr[a].items
      /\ g.index = i
  <2>1. PICK c : c = s.aggr[a].remaining + 1
    OBVIOUS
  <2>2. c \in Int
    BY <1>1, <2>1 DEF Aggregate
  <2>3. g = [[s.aggr[a] EXCEPT !.index = i] EXCEPT !.remaining = c]
    BY <1>4, <2>1
  <2>. QED  BY <1>1, <1>3, <2>2, <2>3 DEF Aggregate
<1>6. g.index \in 0 .. Len(g.items)
  BY <1>3, <1>5
<1>7. PICK m : m = [s EXCEPT !.aggr[a] = g]
  OBVIOUS
<1>8. /\ Good(m) /\ Grows(s, m) /\ a \in Aggrs(m)
      /\ g.pair \in Pairs(m) /\ ~ Internal(m, g.pair)
  BY <1>1, <1>5, <1>6, <1>7, CountGood
<1>9. m = [s EXCEPT !.aggr[a].index = i, !.aggr[a].remaining = @ + 1]
  <2>1. s.aggr \in Seq(Aggregate)
    BY <1>1, StateParts
  <2>. QED  BY <1>1, <1>4, <1>7, <2>1 DEF PromiseState, Aggrs
<1>10. PICK f : f = ElementFunctions(s, a, i)
  OBVIOUS
<1>11. PICK c : c = s.aggr[a].items[i]
  OBVIOUS
<1>12. Thenable(s, c)
  BY <1>3, <1>11 DEF Good, Refs
<1>13. /\ f[1] \in {<<"resolve", g.pair, 0>>, <<"fulfilled", a, i>>}
       /\ f[2] \in {<<"reject", g.pair, 0>>, <<"rejected", a, i>>}
  BY <1>5, <1>10 DEF ElementFunctions
<1>14. /\ \A h \in {f[1], f[2]} : Func(m, h)
       /\ \A h \in {f[1], f[2]} : \A k \in Pairs(m) : Internal(m, k) => ~ Uses(h, k)
  <2>1. g.pair \in Nat /\ a \in Nat
    BY <1>5 DEF Aggregate, Aggrs
  <2>2. \A h \in {<<"resolve", g.pair, 0>>, <<"reject", g.pair, 0>>} :
           Func(m, h) /\ \A k \in Pairs(m) : Internal(m, k) => ~ Uses(h, k)
    BY <1>8, <2>1 DEF Func, Uses, Triples
  <2>3. \A h \in {<<"fulfilled", a, i>>, <<"rejected", a, i>>} :
           Func(m, h) /\ \A k \in Pairs(m) : Internal(m, k) => ~ Uses(h, k)
    BY <1>3, <1>8, <2>1 DEF Func, Uses, Triples
  <2>. QED  BY <1>13, <2>2, <2>3
<1>15. n = IF c = Foreign THEN [m EXCEPT !.fns = @ \cup {f[1], f[2]}]
           ELSE perform_promise_then(m, c[2], f[1], f[2], 0)
  BY <1>2, <1>9, <1>10, <1>11 DEF NextElement
<1>16. CASE c = Foreign
  <2>1. PICK F : F = {f[1], f[2]}
    OBVIOUS
  <2>2. n = [m EXCEPT !.fns = @ \cup F]
    BY <1>15, <1>16, <2>1
  <2>3. Good(n) /\ Grows(m, n)
    BY <1>8, <1>14, <2>1, <2>2, GiveGood
  <2>. QED  BY <1>8, <2>3, GrowsTransitive
<1>17. CASE c # Foreign
  <2>1. n = perform_promise_then(m, c[2], f[1], f[2], 0)
    BY <1>15, <1>17
  <2>2. c[2] \in Proms(m)
    BY <1>8, <1>12, <1>17 DEF Thenable, Grows
  <2>3. MayThen(m, c[2], f[1], f[2], 0)
    <3>1. ~ Internal(m, 0)
      BY DEF Internal, Pairs
    <3>2. Handler(m, f[1]) /\ Handler(m, f[2])
      BY <1>14 DEF Handler
    <3>. QED  BY <1>14, <2>2, <3>1, <3>2 DEF MayThen
  <2>4. Good(n) /\ Grows(m, n)
    BY <1>8, <2>1, <2>3, ThenGood
  <2>. QED  BY <1>8, <2>4, GrowsTransitive
<1>. QED  BY <1>16, <1>17

LEMMA RoundGood ==
  ASSUME NEW r, Good(r.s), NEW a \in Aggrs(r.s), NEW n, n = LoopRound(r, a)
  PROVE  Good(n.s) /\ Grows(r.s, n.s) /\ a \in Aggrs(n.s)
<1>1. PICK s : s = r.s
  OBVIOUS
<1>2. \/ n = r
      \/ n.s = EndOfLoop(s, a)
      \/ s.aggr[a].index # Len(s.aggr[a].items) /\ n.s = NextElement(s, a)
  BY <1>1 DEF LoopRound
<1>3. Good(n.s) /\ Grows(r.s, n.s)
  <2>1. CASE n = r
    BY <2>1 DEF Grows
  <2>2. CASE n.s = EndOfLoop(s, a)
    BY <1>1, <2>2, EndGood
  <2>3. CASE s.aggr[a].index # Len(s.aggr[a].items) /\ n.s = NextElement(s, a)
    BY <1>1, <2>3, NextGood
  <2>. QED  BY <1>2, <2>1, <2>2, <2>3
<1>. QED  BY <1>3 DEF Grows

LEMMA AllGood ==
  ASSUME NEW s, Good(s), NEW a \in Aggrs(s), NEW n, n = js_promise_all(s, a)
  PROVE  Good(n.s) /\ Grows(s, n.s) /\ a \in Aggrs(n.s)
<1>1. PICK r : r = [s |-> s, calls |-> FALSE, left |-> FALSE]
  OBVIOUS
<1>2. PICK x : x = LoopRound(r, a)
  OBVIOUS
<1>3. PICK y : y = LoopRound(x, a)
  OBVIOUS
<1>4. n = LoopRound(y, a)
  BY <1>1, <1>2, <1>3 DEF js_promise_all
<1>5. r.s = s
  BY <1>1
<1>6. Good(x.s) /\ Grows(s, x.s) /\ a \in Aggrs(x.s)
  BY <1>2, <1>5, RoundGood
<1>7. Good(y.s) /\ Grows(x.s, y.s) /\ a \in Aggrs(y.s)
  BY <1>3, <1>6, RoundGood
<1>8. Good(n.s) /\ Grows(y.s, n.s) /\ a \in Aggrs(n.s)
  BY <1>4, <1>7, RoundGood
<1>. QED  BY <1>6, <1>7, <1>8, GrowsTransitive

\* The promise of a then, settled with what its handler gave.
LEMMA FinishGood ==
  ASSUME NEW s, Good(s), NEW i \in {0} \cup Pairs(s), ~ Internal(s, i), NEW v \in Triples,
         v[1] = "val", NEW rej \in BOOLEAN, NEW n, n = Finish(s, i, v, rej)
  PROVE  Good(n) /\ Grows(s, n)
<1>1. CASE i = 0
  <2>1. n = s
    BY <1>1 DEF Finish
  <2>. QED  BY <2>1 DEF Grows
<1>2. CASE i # 0
  <2>1. i \in Pairs(s) /\ n = js_promise_resolve_function_call(s, i, v, rej)
    BY <1>2 DEF Finish
  <2>2. MayCall(s, i, v, rej)
    BY <2>1, PlainCall
  <2>. QED  BY <2>1, <2>2, ResolveGood
<1>. QED  BY <1>1, <1>2

-----------------------------------------------------------------------------
(* The initial state.                                                      *)

Fresh == [state |-> "pending", result |-> Undefined, reactions |-> <<<<>>, <<>>>>, to |-> NoHandler]
Unused(p) == [p |-> p, done |-> FALSE]

\* A state of N promises, each with its pair, and no reaction.
Starting(s, N) ==
  /\ s \in PromiseState
  /\ Len(s.prom) = N /\ Len(s.pair) = N
  /\ \A p \in 1 .. N : s.prom[p] = Fresh /\ s.pair[p] = Unused(p)
  /\ s.aggr = <<>> /\ s.jobs = <<>> /\ s.regs = <<>> /\ s.log = <<>> /\ s.again = {}
  /\ s.fns = {<<"resolve", 2, 0>>, <<"reject", 2, 0>>}

LEMMA FreshData == Fresh \in JSPromiseData /\ \A p \in Nat : Unused(p) \in JSPromiseFunctionDataResolved
<1>1. <<>> \in Seq(JSPromiseReactionData) /\ "pending" \in States
  BY DEF States
<1>2. NoHandler \in Triples /\ Undefined \in Triples
  BY DEF NoHandler, Undefined, Triples
<1>3. Fresh \in JSPromiseData
  BY <1>1, <1>2 DEF Fresh, JSPromiseData
<1>4. \A p \in Nat : Unused(p) \in JSPromiseFunctionDataResolved
  BY DEF Unused, JSPromiseFunctionDataResolved
<1>. QED  BY <1>3, <1>4

LEMMA StartCapability ==
  ASSUME NEW N \in Nat, NEW s, Starting(s, N), NEW n, n = js_new_promise_capability(s)
  PROVE  Starting(n, N + 1)
<1>1. PICK P : P = Append(s.prom, Fresh)
  OBVIOUS
<1>2. /\ s.prom \in Seq(JSPromiseData) /\ s.pair \in Seq(JSPromiseFunctionDataResolved)
      /\ Len(s.prom) = N /\ Len(s.pair) = N
  BY StateParts DEF Starting
<1>3. /\ P \in Seq(JSPromiseData) /\ Len(P) = N + 1 /\ P[N + 1] = Fresh
      /\ \A p \in 1 .. N : P[p] = s.prom[p]
  BY <1>1, <1>2, AppendParts, FreshData
<1>4. PICK Q : Q = Append(s.pair, Unused(N + 1))
  OBVIOUS
<1>5. /\ Q \in Seq(JSPromiseFunctionDataResolved) /\ Len(Q) = N + 1 /\ Q[N + 1] = Unused(N + 1)
      /\ \A p \in 1 .. N : Q[p] = s.pair[p]
  <2>1. Unused(N + 1) \in JSPromiseFunctionDataResolved
    BY FreshData
  <2>. QED  BY <1>2, <1>4, <2>1, AppendParts
<1>6. PICK m : m = NewPromise(s)
  OBVIOUS
<1>7. m = [s EXCEPT !.prom = P]
  BY <1>1, <1>6 DEF NewPromise, Fresh
<1>8. m.prom = P /\ m.pair = s.pair
  BY <1>7 DEF Starting, PromiseState
<1>9. n = [m EXCEPT !.pair = Q]
  BY <1>3, <1>4, <1>6, <1>8 DEF js_new_promise_capability, js_create_resolving_functions, Unused
<1>10. m \in PromiseState
  BY <1>3, <1>7 DEF Starting, PromiseState
<1>11. /\ m.aggr = s.aggr /\ m.jobs = s.jobs /\ m.regs = s.regs /\ m.log = s.log
       /\ m.again = s.again /\ m.fns = s.fns
  BY <1>7 DEF Starting, PromiseState
<1>12. n \in PromiseState /\ n.prom = m.prom /\ n.pair = Q
  BY <1>5, <1>9, <1>10 DEF PromiseState
<1>13. /\ n.aggr = m.aggr /\ n.jobs = m.jobs /\ n.regs = m.regs /\ n.log = m.log
       /\ n.again = m.again /\ n.fns = m.fns
  BY <1>9, <1>10 DEF PromiseState
<1>14. \A p \in 1 .. N + 1 : P[p] = Fresh /\ Q[p] = Unused(p)
  <2>1. TAKE p \in 1 .. N + 1
  <2>2. CASE p \in 1 .. N
    BY <1>3, <1>5, <2>2 DEF Starting
  <2>3. CASE p = N + 1
    BY <1>3, <1>5, <2>3
  <2>. QED  BY <2>2, <2>3
<1>. QED  BY <1>3, <1>5, <1>8, <1>11, <1>12, <1>13, <1>14 DEF Starting

LEMMA InitStart == PromisesInit => Starting(st, 2)
<1>1. HAVE PromisesInit
<1>2. PICK s : s = [prom |-> <<>>, pair |-> <<>>, aggr |-> <<>>, jobs |-> <<>>, regs |-> <<>>, log |-> <<>>,
                    again |-> {}, fns |-> {<<"resolve", 2, 0>>, <<"reject", 2, 0>>}]
  OBVIOUS
<1>3. Starting(s, 0)
  <2>1. /\ s.prom = <<>> /\ s.pair = <<>> /\ s.aggr = <<>> /\ s.jobs = <<>> /\ s.regs = <<>>
        /\ s.log = <<>> /\ s.again = {}
        /\ s.fns = {<<"resolve", 2, 0>>, <<"reject", 2, 0>>}
    BY <1>2
  <2>2. s.fns \in SUBSET Triples
    <3>1. <<"resolve", 2, 0>> \in Triples /\ <<"reject", 2, 0>> \in Triples
      BY DEF Triples
    <3>. QED  BY <2>1, <3>1
  <2>3. /\ <<>> \in Seq(JSPromiseData) /\ <<>> \in Seq(JSPromiseFunctionDataResolved)
        /\ <<>> \in Seq(Aggregate) /\ <<>> \in Seq(PromiseJob) /\ <<>> \in Seq(Nat)
        /\ {} \in SUBSET Nat /\ Len(<<>>) = 0
    OBVIOUS
  <2>4. s \in PromiseState
    <3>1. PICK F : F = s.fns
      OBVIOUS
    <3>2. s = [prom |-> <<>>, pair |-> <<>>, aggr |-> <<>>, jobs |-> <<>>, regs |-> <<>>, log |-> <<>>,
               again |-> {}, fns |-> F]
      BY <1>2, <2>1, <3>1
    <3>3. F \in SUBSET Triples
      BY <2>2, <3>1
    <3>. QED  BY <2>3, <3>2, <3>3 DEF PromiseState
  <2>5. \A p \in 1 .. 0 : FALSE
    OBVIOUS
  <2>. QED  BY <2>1, <2>3, <2>4, <2>5 DEF Starting
<1>4. PICK m : m = js_new_promise_capability(s)
  OBVIOUS
<1>5. Starting(m, 0 + 1)
  BY <1>3, <1>4, StartCapability
<1>6. st = js_new_promise_capability(m)
  BY <1>1, <1>2, <1>4 DEF PromisesInit
<1>7. 0 + 1 = 1 /\ 1 + 1 = 2
  OBVIOUS
<1>8. Starting(st, 1 + 1)
  BY <1>5, <1>6, <1>7, StartCapability
<1>. QED  BY <1>7, <1>8

LEMMA StartGood ==
  ASSUME NEW s, Starting(s, 2)
  PROVE  Good(s) /\ ~ Internal(s, 1)
<1>1. /\ s.aggr = <<>> /\ s.jobs = <<>> /\ s.regs = <<>> /\ s.log = <<>> /\ s.again = {}
      /\ s.fns = {<<"resolve", 2, 0>>, <<"reject", 2, 0>>}
      /\ Len(s.pair) = 2 /\ Len(s.prom) = 2
  BY DEF Starting
<1>2. /\ Proms(s) = 1 .. 2 /\ Pairs(s) = 1 .. 2 /\ Aggrs(s) = {} /\ Jobs(s) = {}
      /\ Regs(s) = {} /\ Logged(s) = {}
  <2>1. Len(s.aggr) = 0 /\ Len(s.jobs) = 0 /\ Len(s.regs) = 0 /\ Len(s.log) = 0
    BY <1>1
  <2>2. 1 .. 0 = {}
    OBVIOUS
  <2>. QED  BY <1>1, <2>1, <2>2 DEF Proms, Pairs, Aggrs, Jobs, Regs, Logged
<1>3. /\ \A p \in Proms(s) : s.prom[p] = Fresh
      /\ \A i \in Pairs(s) : s.pair[i] = Unused(i)
  BY <1>2 DEF Starting
<1>4. /\ Fresh.state = "pending" /\ Fresh.result = Undefined /\ Fresh.reactions = <<<<>>, <<>>>>
      /\ Fresh.to = NoHandler
      /\ \A p : Unused(p).p = p /\ Unused(p).done = FALSE
  BY DEF Fresh, Unused
<1>5. \A p \in Proms(s), x \in {1, 2} : s.prom[p].reactions[x] = <<>> /\ List(s, p, x) = {}
  BY <1>3, <1>4 DEF List
<1>6. NoHandler[1] = "none" /\ Undefined[1] = "val" /\ NoHandler \in Triples /\ Undefined \in Triples
  BY DEF NoHandler, Undefined, Triples
<1>7. s \in PromiseState
  BY DEF Starting
<1>8. Refs(s)
  <2>1. \A i \in Pairs(s) : s.pair[i].p \in Proms(s)
    BY <1>2, <1>3, <1>4
  <2>2. \A f \in s.fns : Func(s, f)
    BY <1>1, <1>2 DEF Func, Triples
  <2>3. \A p \in Proms(s) : s.prom[p].to[1] # "prom"
    BY <1>3, <1>4, <1>6
  <2>. QED  BY <1>2, <1>5, <2>1, <2>2, <2>3 DEF Refs
<1>9. Plain(s)
  BY <1>2, <1>3, <1>4, <1>6 DEF Plain
<1>10. Once(s)
  BY <1>1, <1>2, <1>3, <1>4 DEF Once, Pending
<1>11. Queue(s)
  BY <1>2 DEF Queue
<1>12. Lists(s)
  BY <1>2, <1>5 DEF Lists
<1>13. \A i : ~ Internal(s, i)
  BY <1>2, <1>3, <1>4, <1>6 DEF Internal
<1>14. Owned(s)
  BY <1>13 DEF Owned
<1>15. Adopted(s)
  <2>1. \A p \in Proms(s) : Pending(s, p)
    BY <1>3, <1>4 DEF Pending
  <2>. QED  BY <2>1 DEF Adopted
<1>16. Len(s.pair) > 0
  BY <1>1
<1>. QED  BY <1>7, <1>8, <1>9, <1>10, <1>11, <1>12, <1>13, <1>14, <1>15, <1>16 DEF Good

-----------------------------------------------------------------------------
(* The scripts under way.                                                  *)

LEMMA FrameFirst ==
  ASSUME NEW s, NEW r, Frames(s, r), r # <<>>
  PROVE  FrameOK(s, r[1]) /\ Frames(s, Tail(r))
<1>1. PICK S : S = [kind : FrameKind, arg : Nat]
  OBVIOUS
<1>2. r \in Seq(S)
  BY <1>1 DEF Frames
<1>3. /\ Len(r) >= 1 /\ Len(r) \in Nat /\ Tail(r) \in Seq(S) /\ Len(Tail(r)) = Len(r) - 1
      /\ \A k \in 1 .. Len(Tail(r)) : Tail(r)[k] = r[k + 1]
  BY <1>2, TailParts, SeqParts
<1>4. \A k \in 1 .. Len(Tail(r)) : k + 1 \in 1 .. Len(r)
  BY <1>3
<1>. QED  BY <1>1, <1>3, <1>4 DEF Frames

LEMMA FrameOne ==
  ASSUME NEW s, NEW f, FrameOK(s, f)
  PROVE  Frames(s, <<f>>)
<1>1. f \in [kind : FrameKind, arg : Nat]
  BY DEF FrameOK
<1>2. /\ <<f>> \in Seq([kind : FrameKind, arg : Nat]) /\ Len(<<f>>) = 1 /\ <<f>>[1] = f
      /\ \A k \in 1 .. 1 : k = 1
  BY <1>1
<1>. QED  BY <1>2 DEF Frames

LEMMA FramePush ==
  ASSUME NEW s, NEW f, FrameOK(s, f), NEW r, Frames(s, r)
  PROVE  Frames(s, <<f>> \o r)
<1>1. PICK S : S = [kind : FrameKind, arg : Nat]
  OBVIOUS
<1>2. PICK q : q = <<f>>
  OBVIOUS
<1>3. q \in Seq(S) /\ Len(q) = 1 /\ q[1] = f /\ r \in Seq(S) /\ Len(r) \in Nat
  BY <1>1, <1>2, SeqParts DEF Frames, FrameOK
<1>4. /\ q \o r \in Seq(S) /\ Len(q \o r) = 1 + Len(r)
      /\ \A k \in 1 .. 1 : (q \o r)[k] = q[k]
      /\ \A k \in 1 .. Len(r) : (q \o r)[1 + k] = r[k]
  <2>1. /\ q \o r \in Seq(S) /\ Len(q \o r) = Len(q) + Len(r)
        /\ \A k \in 1 .. Len(q) : (q \o r)[k] = q[k]
        /\ \A k \in 1 .. Len(r) : (q \o r)[Len(q) + k] = r[k]
    <3>1. q \in Seq(S) /\ r \in Seq(S)
      BY <1>3
    <3>. QED  BY <3>1
  <2>. QED  BY <1>3, <2>1
<1>5. \A k \in 1 .. 1 + Len(r) : k = 1 \/ \E m \in 1 .. Len(r) : k = 1 + m
  <2>1. Split(1, Len(r), 1 + Len(r))
    BY <1>3, Ranges
  <2>. QED  BY <2>1 DEF Split
<1>6. \A k \in 1 .. 1 + Len(r) : FrameOK(s, (q \o r)[k])
  <2>1. TAKE k \in 1 .. 1 + Len(r)
  <2>2. CASE k = 1
    BY <1>3, <1>4, <2>2
  <2>3. CASE k # 1
    <3>1. PICK m \in 1 .. Len(r) : k = 1 + m
      BY <1>5, <2>3
    <3>. QED  BY <1>4, <3>1 DEF Frames
  <2>. QED  BY <2>2, <2>3
<1>. QED  BY <1>1, <1>2, <1>4, <1>6 DEF Frames

LEMMA InitInv == PromisesInit => Inv
<1>1. HAVE PromisesInit
<1>2. Good(st) /\ ~ Internal(st, 1)
  BY <1>1, InitStart, StartGood
<1>3. Frames(st, run)
  <2>1. run = <<Frame("async", 1)>>
    BY <1>1 DEF PromisesInit
  <2>2. 1 \in Pairs(st)
    BY <1>2, StateParts DEF Good, Pairs
  <2>3. FrameOK(st, Frame("async", 1))
    BY <1>2, <2>2 DEF FrameOK, Frame, FrameKind
  <2>. QED  BY <2>1, <2>3, FrameOne
<1>4. ops \in 0 .. MaxOps
  BY <1>1, PromisesAssumption DEF PromisesInit
<1>. QED  BY <1>2, <1>3, <1>4 DEF Inv

-----------------------------------------------------------------------------
(* The steps of scripts and of the job queue.                              *)

\* What every step does to the promises.
Keeps(s, n) == Good(n) /\ Grows(s, n)

LEMMA InvParts ==
  ASSUME Inv
  PROVE  /\ Good(st) /\ st \in PromiseState /\ Frames(st, run) /\ ops \in 0 .. MaxOps
         /\ Proms(st) = DOMAIN st.prom
<1>1. Good(st) /\ st \in PromiseState /\ Frames(st, run) /\ ops \in 0 .. MaxOps
  BY DEF Inv, Good
<1>2. Proms(st) = DOMAIN st.prom
  BY <1>1, StateParts, SeqParts DEF Proms
<1>. QED  BY <1>1, <1>2

LEMMA StepOps == ASSUME ops \in 0 .. MaxOps, Step PROVE ops' \in 0 .. MaxOps
BY PromisesAssumption DEF Step

\* A pair that is not internal, and the two functions of it.
LEMMA PairFunctions ==
  ASSUME NEW s, NEW i \in Pairs(s)
  PROVE  /\ \A f \in {<<"resolve", i, 0>>, <<"reject", i, 0>>} : Func(s, f)
         /\ ~ Internal(s, i) =>
              \A f \in {<<"resolve", i, 0>>, <<"reject", i, 0>>} :
                 \A k \in Pairs(s) : Internal(s, k) => ~ Uses(f, k)
<1>1. i \in Nat
  BY DEF Pairs
<1>2. \A f \in {<<"resolve", i, 0>>, <<"reject", i, 0>>} : Func(s, f)
  BY <1>1 DEF Func, Triples
<1>3. \A f \in {<<"resolve", i, 0>>, <<"reject", i, 0>>} : f[2] = i
  OBVIOUS
<1>4. \A f \in {<<"resolve", i, 0>>, <<"reject", i, 0>>} : \A k : Uses(f, k) => k = i
  BY <1>3 DEF Uses
<1>. QED  BY <1>2, <1>4

LEMMA WithResolversKeeps ==
  ASSUME Inv, js_promise_withResolvers
  PROVE  Keeps(st, st') /\ run' = run /\ ops' \in 0 .. MaxOps
<1>1. Good(st) /\ ops \in 0 .. MaxOps
  BY InvParts
<1>2. PICK s : s = js_new_promise_capability(st)
  OBVIOUS
<1>3. PICK i : i = Len(s.pair)
  OBVIOUS
<1>4. Good(s) /\ Grows(st, s) /\ i \in Pairs(s) /\ ~ Internal(s, i)
  BY <1>1, <1>2, <1>3, CapabilityGood
<1>5. PICK F : F = {<<"resolve", i, 0>>, <<"reject", i, 0>>}
  OBVIOUS
<1>6. st' = [s EXCEPT !.fns = @ \cup F] /\ Step /\ run' = run
  BY <1>2, <1>3, <1>5 DEF js_promise_withResolvers
<1>7. Good(st') /\ Grows(s, st')
  <2>1. \A f \in F : Func(s, f) /\ \A k \in Pairs(s) : Internal(s, k) => ~ Uses(f, k)
    BY <1>4, <1>5, PairFunctions
  <2>. QED  BY <1>4, <1>6, <2>1, GiveGood
<1>. QED  BY <1>1, <1>4, <1>6, <1>7, StepOps, GrowsTransitive DEF Keeps

LEMMA OnePlain == One \in Triples /\ One[1] = "val"
BY DEF One, Triples

\* An object that a script passes or returns is adopted, or fails to be.
LEMMA ObjectParts ==
  ASSUME Inv, NEW v \in Object
  PROVE  v \in Triples /\ (v[1] = "throwing" \/ Thenable(st, v))
<1>1. Good(st) /\ Proms(st) = DOMAIN st.prom
  BY InvParts
<1>2. CASE v = Foreign
  <2>1. Foreign \in Triples
    BY DEF Foreign, Triples
  <2>. QED  BY <1>2, <2>1 DEF Thenable
<1>3. CASE v = <<"throwing", 0, 0>>
  BY <1>3 DEF Triples
<1>4. CASE v \in Promised
  <2>1. PICK p \in DOMAIN st.prom : v = <<"prom", p, 0>>
    BY <1>4 DEF Promised
  <2>2. p \in Nat /\ p \in Proms(st)
    BY <1>1, <2>1 DEF Proms
  <2>3. v \in Triples /\ v[1] = "prom" /\ v[2] = p
    BY <2>1, <2>2 DEF Triples
  <2>. QED  BY <2>2, <2>3 DEF Thenable
<1>. QED  BY <1>2, <1>3, <1>4 DEF Object

\* Scripts do not hold functions of internal pairs.
LEMMA ScriptCalls ==
  ASSUME Inv, NEW f \in st.fns, NEW v \in Arguments(f)
  PROVE  MayCallFunction(st, f, v)
<1>1. Good(st) /\ Proms(st) = DOMAIN st.prom
  BY InvParts
<1>2. Func(st, f) /\ \A i \in Pairs(st) : Internal(st, i) => ~ Uses(f, i)
  BY <1>1 DEF Good, Refs, Owned
<1>3. v = One \/ (f[1] = "resolve" /\ (v[1] = "throwing" \/ Thenable(st, v)) /\ v \in Triples)
  BY ObjectParts DEF Arguments
<1>4. CASE f[1] = "resolve"
  <2>1. f[2] \in Pairs(st) /\ ~ Internal(st, f[2])
    BY <1>2, <1>4 DEF Func, Uses
  <2>2. MayCall(st, f[2], v, FALSE)
    BY <1>3, <2>1, OnePlain DEF MayCall
  <2>. QED  BY <1>2, <1>4, <2>2 DEF MayCallFunction
<1>5. CASE f[1] = "reject"
  <2>1. f[2] \in Pairs(st) /\ ~ Internal(st, f[2])
    BY <1>2, <1>5 DEF Func, Uses
  <2>2. MayCall(st, f[2], v, TRUE)
    BY <1>3, <1>5, <2>1, OnePlain DEF MayCall
  <2>. QED  BY <1>2, <1>5, <2>2 DEF MayCallFunction
<1>6. CASE f[1] # "resolve" /\ f[1] # "reject"
  BY <1>2, <1>6 DEF MayCallFunction
<1>. QED  BY <1>4, <1>5, <1>6

LEMMA CallKeeps ==
  ASSUME Inv, NEW f \in st.fns, NEW v \in Arguments(f), CallFunction(f, v)
  PROVE  Keeps(st, st') /\ run' = run /\ ops' \in 0 .. MaxOps
BY InvParts, ScriptCalls, CallGood, StepOps DEF CallFunction, Keeps

\* Handlers that are not functions of the engine use no pair.
LEMMA PlainHandlers ==
  ASSUME NEW h \in {NoHandler, Script, Resume}
  PROVE  (\A s : Handler(s, h)) /\ \A i : ~ Uses(h, i)
BY DEF Handler, Uses, NoHandler, Script, Resume

LEMMA ThenKeeps ==
  ASSUME Inv, NEW p \in DOMAIN st.prom, NEW onF \in {NoHandler, Script},
         NEW onR \in {NoHandler, Script}, Then(p, onF, onR)
  PROVE  Keeps(st, st') /\ run' = run /\ ops' \in 0 .. MaxOps
<1>1. Good(st) /\ ops \in 0 .. MaxOps /\ p \in Proms(st)
  BY InvParts
<1>2. PICK s : s = js_new_promise_capability(st)
  OBVIOUS
<1>3. PICK l : l = Len(s.pair)
  OBVIOUS
<1>4. Good(s) /\ Grows(st, s) /\ l \in Pairs(s) /\ ~ Internal(s, l)
  BY <1>1, <1>2, <1>3, CapabilityGood
<1>5. st' = perform_promise_then(s, p, onF, onR, l) /\ Step /\ run' = run
  BY <1>2, <1>3 DEF Then, js_promise_then
<1>6. MayThen(s, p, onF, onR, l)
  <2>1. Handler(s, onF) /\ Handler(s, onR) /\ \A i : ~ Uses(onF, i) /\ ~ Uses(onR, i)
    BY PlainHandlers
  <2>2. p \in Proms(s)
    BY <1>1, <1>4 DEF Grows
  <2>. QED  BY <1>4, <2>1, <2>2 DEF MayThen
<1>7. Good(st') /\ Grows(s, st')
  BY <1>4, <1>5, <1>6, ThenGood
<1>. QED  BY <1>1, <1>4, <1>5, <1>7, StepOps, GrowsTransitive DEF Keeps

\* A combinator: the capability, the first aggregate, and the loop.
Combines(s, l, g, m, r) ==
  /\ s = js_new_promise_capability(st) /\ l = Len(s.pair) /\ Good(s) /\ Grows(st, s)
  /\ g \in Aggregate /\ g.pair = l /\ g.index = 0 /\ g.remaining = 1 /\ g.called = {}
  /\ m.prom = s.prom /\ m.pair = s.pair /\ m.jobs = s.jobs /\ m.fns = s.fns
  /\ Len(m.aggr) = 1 /\ m.aggr[1] = g /\ Good(m) /\ Grows(s, m) /\ st.aggr = <<>>
  /\ r = js_promise_all(m, 1) /\ Good(r.s) /\ Grows(m, r.s) /\ 1 \in Aggrs(r.s)
  /\ st' = r.s /\ run' = IF r.calls THEN <<Frame("element", 1)>> \o run ELSE run

LEMMA CombineSteps ==
  ASSUME Inv, NEW kind \in Kinds, NEW x \in {Foreign} \cup Promised, NEW y \in {Foreign} \cup Promised,
         Combine(kind, <<x, y>>)
  PROVE  \E s, l, g, m, r : Combines(s, l, g, m, r)
<1>1. Good(st) /\ Proms(st) = DOMAIN st.prom
  BY InvParts
<1>2. PICK s : s = js_new_promise_capability(st)
  OBVIOUS
<1>3. PICK l : l = Len(s.pair)
  OBVIOUS
<1>4. /\ Good(s) /\ Grows(st, s) /\ l \in Pairs(s) /\ ~ Internal(s, l)
      /\ s.aggr = st.aggr
  BY <1>1, <1>2, <1>3, CapabilityGood
<1>5. PICK items : items = <<x, y>>
  OBVIOUS
<1>6. Thenable(s, x) /\ Thenable(s, y) /\ x \in Triples /\ y \in Triples
  <2>1. ASSUME NEW z \in {Foreign} \cup Promised PROVE Thenable(s, z) /\ z \in Triples
    <3>1. CASE z = Foreign
      BY <3>1 DEF Foreign, Thenable, Triples
    <3>2. CASE z \in Promised
      <4>1. PICK p \in DOMAIN st.prom : z = <<"prom", p, 0>>
        BY <3>2 DEF Promised
      <4>2. p \in Nat /\ p \in Proms(s)
        BY <1>1, <1>4, <4>1 DEF Proms, Grows
      <4>3. z \in Triples /\ z[1] = "prom" /\ z[2] = p
        BY <4>1, <4>2 DEF Triples
      <4>. QED  BY <4>2, <4>3 DEF Thenable
    <3>. QED  BY <3>1, <3>2
  <2>. QED  BY <2>1
<1>7. items \in Seq(Triples) /\ Len(items) = 2 /\ \A i \in 1 .. 2 : Thenable(s, items[i])
  BY <1>5, <1>6
<1>8. PICK g : g = [kind |-> kind, pair |-> l, items |-> items, index |-> 0, remaining |-> 1, called |-> {}]
  OBVIOUS
<1>9. /\ g \in Aggregate /\ g.pair = l /\ g.items = items /\ g.index = 0
      /\ g.remaining = 1 /\ g.called = {}
  <2>1. l \in Nat /\ {} \in SUBSET Triples
    BY <1>4 DEF Pairs
  <2>. QED  BY <1>7, <1>8, <2>1 DEF Aggregate
<1>10. PICK a : a = Len(s.aggr) + 1
  OBVIOUS
<1>11. PICK A : A = Append(s.aggr, g)
  OBVIOUS
<1>12. s.aggr = <<>> /\ s.aggr \in Seq(Aggregate) /\ Len(s.aggr) = 0
  BY <1>4, StateParts DEF Good, Combine
<1>13. A \in Seq(Aggregate) /\ Len(A) = 1 /\ A[1] = g /\ a = 1
  BY <1>9, <1>10, <1>11, <1>12, AppendParts
<1>14. PICK m : m = [s EXCEPT !.aggr = A]
  OBVIOUS
<1>15. \A b \in 1 .. Len(A) :
          /\ A[b].pair \in Pairs(s) /\ ~ Internal(s, A[b].pair)
          /\ A[b].index \in 0 .. Len(A[b].items)
          /\ \A i \in 1 .. Len(A[b].items) : Thenable(s, A[b].items[i])
  <2>1. \A b \in 1 .. Len(A) : A[b] = g
    BY <1>13
  <2>2. 0 \in 0 .. Len(items)
    BY <1>7
  <2>3. \A i \in 1 .. Len(items) : Thenable(s, items[i])
    BY <1>7
  <2>. QED  BY <1>4, <1>9, <2>1, <2>2, <2>3
<1>16. Good(m) /\ Grows(s, m)
  <2>1. Len(A) >= Len(s.aggr)
    BY <1>12, <1>13
  <2>. QED  BY <1>4, <1>13, <1>14, <1>15, <2>1, CombineGood
<1>17. /\ m.aggr = A /\ m.prom = s.prom /\ m.pair = s.pair /\ m.jobs = s.jobs /\ m.fns = s.fns
  BY <1>4, <1>14 DEF Good, PromiseState
<1>18. 1 \in Aggrs(m)
  <2>1. Aggrs(m) = 1 .. 1
    BY <1>13, <1>17 DEF Aggrs
  <2>. QED  BY <2>1
<1>19. PICK r : r = js_promise_all(m, 1)
  OBVIOUS
<1>20. Good(r.s) /\ Grows(m, r.s) /\ 1 \in Aggrs(r.s)
  BY <1>16, <1>18, <1>19, AllGood
<1>21. /\ st' = r.s /\ st.aggr = <<>>
       /\ run' = IF r.calls THEN <<Frame("element", a)>> \o run ELSE run
  <2>1. r = js_promise_all(m, a)
    BY <1>13, <1>19
  <2>. QED  BY <1>2, <1>3, <1>5, <1>8, <1>10, <1>11, <1>14, <2>1 DEF Combine
<1>22. Len(m.aggr) = 1 /\ m.aggr[1] = g
  BY <1>13, <1>17
<1>23. Combines(s, l, g, m, r)
  BY <1>2, <1>3, <1>4, <1>9, <1>13, <1>16, <1>17, <1>19, <1>20, <1>21, <1>22 DEF Combines
<1>. QED  BY <1>23

LEMMA CombineKeeps ==
  ASSUME Inv, NEW kind \in Kinds, NEW x \in {Foreign} \cup Promised, NEW y \in {Foreign} \cup Promised,
         Combine(kind, <<x, y>>)
  PROVE  Keeps(st, st') /\ Frames(st', run') /\ ops' \in 0 .. MaxOps
<1>1. st \in PromiseState /\ Frames(st, run) /\ ops \in 0 .. MaxOps
  BY InvParts
<1>2. PICK s, l, g, m, r : Combines(s, l, g, m, r)
  BY CombineSteps
<1>3. /\ Grows(st, s) /\ Grows(s, m) /\ Grows(m, r.s) /\ Good(r.s) /\ 1 \in Aggrs(r.s)
      /\ st' = r.s /\ run' = IF r.calls THEN <<Frame("element", 1)>> \o run ELSE run
  BY <1>2 DEF Combines
<1>4. Keeps(st, st')
  BY <1>3, GrowsTransitive DEF Keeps
<1>5. Frames(st', run)
  BY <1>1, <1>4, FramesGrow DEF Keeps
<1>6. Frames(st', run')
  <2>1. FrameOK(st', Frame("element", 1))
    BY <1>3 DEF FrameOK, Frame, FrameKind
  <2>2. Frames(st', <<Frame("element", 1)>> \o run)
    BY <1>5, <2>1, FramePush
  <2>. QED  BY <1>3, <1>5, <2>2
<1>7. ops' \in 0 .. MaxOps
  BY <1>1, StepOps DEF Combine
<1>. QED  BY <1>4, <1>6, <1>7

LEMMA NoFrames == \A s : Frames(s, <<>>)
BY DEF Frames

LEMMA AwaitKeeps ==
  ASSUME Inv, NEW p \in DOMAIN st.prom, Await(p)
  PROVE  Keeps(st, st') /\ Frames(st', run') /\ ops' \in 0 .. MaxOps
<1>1. Good(st) /\ ops \in 0 .. MaxOps /\ p \in Proms(st)
  BY InvParts
<1>2. MayThen(st, p, Resume, Resume, 0)
  <2>1. Handler(st, Resume) /\ \A i : ~ Uses(Resume, i)
    BY PlainHandlers
  <2>2. ~ Internal(st, 0)
    BY DEF Internal, Pairs
  <2>. QED  BY <1>1, <2>1, <2>2 DEF MayThen
<1>3. st' = perform_promise_then(st, p, Resume, Resume, 0) /\ Step /\ run' = <<>>
  BY DEF Await
<1>. QED  BY <1>1, <1>2, <1>3, ThenGood, StepOps, NoFrames DEF Keeps

LEMMA ReturnKeeps ==
  ASSUME Inv, NEW rej \in BOOLEAN, Return(One, rej)
  PROVE  Keeps(st, st') /\ Frames(st', run')
<1>1. Good(st) /\ st \in PromiseState /\ Frames(st, run) /\ ops \in 0 .. MaxOps
  BY InvParts
<1>2. PICK f : f = run[1]
  OBVIOUS
<1>3. run # <<>>
  BY DEF Return
<1>4. FrameOK(st, f) /\ Frames(st, Tail(run))
  BY <1>1, <1>2, <1>3, FrameFirst
<1>5. ASSUME Keeps(st, st') PROVE Frames(st', run) /\ Frames(st', Tail(run))
  BY <1>1, <1>4, <1>5, FramesGrow DEF Keeps
<1>6. f.kind \in {"async", "handler", "then", "element"}
  BY <1>4 DEF FrameOK, FrameKind
<1>7. CASE f.kind \in {"async", "handler", "then"}
  <2>1. f.arg \in {0} \cup Pairs(st) /\ ~ Internal(st, f.arg)
    BY <1>4, <1>7 DEF FrameOK
  <2>2. ASSUME NEW r \in BOOLEAN, NEW n, n = Finish(st, f.arg, One, r) PROVE Keeps(st, n)
    BY <1>1, <2>1, <2>2, FinishGood, OnePlain DEF Keeps
  <2>3. (\E r \in BOOLEAN : st' = Finish(st, f.arg, One, r)) \/ st' = st
    BY <1>2, <1>7 DEF Return
  <2>4. run' = Tail(run)
    BY <1>2, <1>7 DEF Return
  <2>5. Keeps(st, st)
    BY <1>1 DEF Keeps, Grows
  <2>6. Keeps(st, st')
    BY <2>2, <2>3, <2>5
  <2>. QED  BY <1>1, <1>3, <1>5, <2>4, <2>6
<1>8. CASE f.kind = "element"
  <2>1. f.arg \in Aggrs(st)
    BY <1>4, <1>8 DEF FrameOK
  <2>2. PICK r : r = js_promise_all(st, f.arg)
    OBVIOUS
  <2>3. PICK i : i = st.aggr[f.arg].pair
    OBVIOUS
  <2>4. /\ st' \in {js_promise_resolve_function_call(st, i, One, TRUE), r.s}
        /\ run' \in {run, Tail(run)}
    BY <1>2, <1>8, <2>2, <2>3 DEF Return
  <2>5. Keeps(st, r.s)
    BY <1>1, <2>1, <2>2, AllGood DEF Keeps
  <2>6. i \in Pairs(st) /\ ~ Internal(st, i)
    BY <1>1, <2>1, <2>3 DEF Good, Refs, Owned
  <2>7. MayCall(st, i, One, TRUE)
    BY <2>6, OnePlain, PlainCall
  <2>8. ASSUME NEW n, n = js_promise_resolve_function_call(st, i, One, TRUE) PROVE Keeps(st, n)
    BY <1>1, <2>7, <2>8, ResolveGood DEF Keeps
  <2>9. Keeps(st, st')
    BY <2>4, <2>5, <2>8
  <2>. QED  BY <1>1, <1>3, <1>5, <2>4, <2>9
<1>. QED  BY <1>6, <1>7, <1>8

\* A script returns an object: the promise of its frame, if there is one, is
\* resolved with it.
LEMMA ObjectReturned ==
  ASSUME Inv, NEW v \in Object, ReturnsObject(v)
  PROVE  /\ run # <<>> /\ run' = Tail(run) /\ run[1].kind # "element" /\ Step
         /\ \/ st' = st
            \/ /\ MayCall(st, run[1].arg, v, FALSE)
               /\ st' = js_promise_resolve_function_call(st, run[1].arg, v, FALSE)
<1>1. Frames(st, run)
  BY InvParts
<1>2. PICK f : f = run[1]
  OBVIOUS
<1>3. run # <<>> /\ f.kind \in {"async", "handler"} /\ Step /\ Return(v, FALSE)
  BY <1>2 DEF ReturnsObject, Step
<1>4. f.arg \in {0} \cup Pairs(st) /\ ~ Internal(st, f.arg)
  <2>1. FrameOK(st, f)
    BY <1>1, <1>2, <1>3, FrameFirst
  <2>. QED  BY <1>3, <2>1 DEF FrameOK
<1>5. st' = Finish(st, f.arg, v, FALSE) /\ run' = Tail(run)
  BY <1>2, <1>3 DEF Return
<1>6. CASE f.arg = 0
  BY <1>2, <1>3, <1>5, <1>6 DEF Finish
<1>7. CASE f.arg # 0
  <2>1. f.arg \in Pairs(st) /\ st' = js_promise_resolve_function_call(st, f.arg, v, FALSE)
    BY <1>4, <1>5, <1>7 DEF Finish
  <2>2. MayCall(st, f.arg, v, FALSE)
    BY <1>4, <2>1, ObjectParts DEF MayCall
  <2>. QED  BY <1>2, <1>3, <1>5, <2>1, <2>2
<1>. QED  BY <1>6, <1>7

LEMMA ObjectKeeps ==
  ASSUME Inv, NEW v \in Object, ReturnsObject(v)
  PROVE  Keeps(st, st') /\ Frames(st', run') /\ ops' \in 0 .. MaxOps
<1>1. Good(st) /\ Frames(st, run) /\ ops \in 0 .. MaxOps
  BY InvParts
<1>2. /\ run # <<>> /\ run' = Tail(run) /\ Step
      /\ \/ st' = st
         \/ /\ MayCall(st, run[1].arg, v, FALSE)
            /\ st' = js_promise_resolve_function_call(st, run[1].arg, v, FALSE)
  BY ObjectReturned
<1>3. Keeps(st, st')
  <2>1. CASE st' = st
    BY <1>1, <2>1 DEF Keeps, Grows
  <2>2. CASE /\ MayCall(st, run[1].arg, v, FALSE)
             /\ st' = js_promise_resolve_function_call(st, run[1].arg, v, FALSE)
    BY <1>1, <2>2, ResolveGood DEF Keeps
  <2>. QED  BY <1>2, <2>1, <2>2
<1>4. Frames(st, Tail(run))
  BY <1>1, <1>2, FrameFirst
<1>5. Frames(st', Tail(run))
  BY <1>1, <1>3, <1>4, FramesGrow DEF Keeps, Good
<1>. QED  BY <1>1, <1>2, <1>3, <1>5, StepOps

\* The handler of a reaction, if it is a function of the engine.
LEMMA ReactionCalls ==
  ASSUME NEW s, NEW n, NEW j, ReactionReady(s, n, j), j.handler \notin {Script, Resume, NoHandler}
  PROVE  MayCallFunction(n, j.handler, j.arg)
<1>1. /\ j.arg \in Triples /\ j.arg[1] = "val"
      /\ \A i \in Pairs(n) : Internal(n, i) /\ Uses(j.handler, i) =>
            /\ n.prom[Source(n, i)].state = Outcome(j.handler[1] = "reject")
            /\ n.prom[Source(n, i)].result = j.arg
  BY DEF ReactionReady
<1>2. Func(n, j.handler)
  BY DEF ReactionReady, Handler
<1>3. CASE j.handler[1] = "resolve"
  <2>1. j.handler[2] \in Pairs(n) /\ Uses(j.handler, j.handler[2]) /\ (j.handler[1] = "reject") = FALSE
    BY <1>2, <1>3 DEF Func, Uses
  <2>2. MayCall(n, j.handler[2], j.arg, FALSE)
    BY <1>1, <2>1 DEF MayCall
  <2>. QED  BY <1>2, <1>3, <2>2 DEF MayCallFunction
<1>4. CASE j.handler[1] = "reject"
  <2>1. j.handler[2] \in Pairs(n) /\ Uses(j.handler, j.handler[2]) /\ (j.handler[1] = "reject") = TRUE
    BY <1>2, <1>4 DEF Func, Uses
  <2>2. MayCall(n, j.handler[2], j.arg, TRUE)
    BY <1>1, <2>1 DEF MayCall
  <2>. QED  BY <1>2, <1>4, <2>2 DEF MayCallFunction
<1>5. CASE j.handler[1] # "resolve" /\ j.handler[1] # "reject"
  BY <1>2, <1>5 DEF MayCallFunction
<1>. QED  BY <1>3, <1>4, <1>5

\* A reaction runs, and is logged: its handler, and the promise of its then.
ReactionStep(n, j) ==
  /\ j.kind = "reaction"
  /\ j.handler = Script => st' = n /\ run' = <<Frame("handler", j.pair)>>
  /\ j.handler = Resume => st' = n /\ run' = <<Frame("async", 1)>>
  /\ j.handler = NoHandler => st' = Finish(n, j.pair, j.arg, j.rej) /\ run' = run
  /\ j.handler \notin {Script, Resume, NoHandler} =>
        st' = Finish(Call(n, j.handler, j.arg), j.pair, Undefined, FALSE) /\ run' = run

LEMMA ReactionSteps ==
  ASSUME NEW s, NEW j, promise_reaction_job(s, j), NEW n, n = [s EXCEPT !.log = Append(@, j.id)]
  PROVE  ReactionStep(n, j)
<1>1. Script # Resume /\ Script # NoHandler /\ Resume # NoHandler
  BY DEF Script, Resume, NoHandler
<1>2. j.kind = "reaction"
  BY DEF promise_reaction_job
<1>3. CASE j.handler = Script
  <2>1. PICK f : f = Frame("handler", j.pair)
    OBVIOUS
  <2>2. st' = n
    BY <1>1, <1>3 DEF promise_reaction_job
  <2>3. run' = <<f>>
    BY ONLY promise_reaction_job(s, j), <1>1, <1>3, <2>1 DEF promise_reaction_job
  <2>. QED  BY <1>1, <1>2, <1>3, <2>1, <2>2, <2>3 DEF ReactionStep
<1>4. CASE j.handler = Resume
  <2>1. PICK f : f = Frame("async", 1)
    OBVIOUS
  <2>2. st' = n
    BY <1>1, <1>4 DEF promise_reaction_job
  <2>3. run' = <<f>>
    BY ONLY promise_reaction_job(s, j), <1>1, <1>4, <2>1 DEF promise_reaction_job
  <2>. QED  BY <1>1, <1>2, <1>4, <2>1, <2>2, <2>3 DEF ReactionStep
<1>5. CASE j.handler = NoHandler
  <2>1. st' = Finish(n, j.pair, j.arg, j.rej) /\ run' = run
    BY <1>1, <1>5 DEF promise_reaction_job
  <2>. QED  BY <1>1, <1>2, <1>5, <2>1 DEF ReactionStep
<1>6. CASE j.handler \notin {Script, Resume, NoHandler}
  <2>1. st' = Finish(Call(n, j.handler, j.arg), j.pair, Undefined, FALSE) /\ run' = run
    BY <1>6 DEF promise_reaction_job
  <2>. QED  BY <1>2, <1>6, <2>1 DEF ReactionStep
<1>. QED  BY <1>3, <1>4, <1>5, <1>6

LEMMA PairStays ==
  ASSUME NEW n, NEW m, Grows(n, m), NEW i \in {0} \cup Pairs(n), ~ Internal(n, i)
  PROVE  i \in {0} \cup Pairs(m) /\ ~ Internal(m, i)
<1>1. ~ Internal(m, 0)
  <2>1. 0 \notin Pairs(m)
    BY DEF Pairs
  <2>. QED  BY <2>1 DEF Internal
<1>. QED  BY <1>1 DEF Grows

LEMMA ReactionKeeps ==
  ASSUME Inv, run = <<>>, st.jobs # <<>>, NEW s, s = [st EXCEPT !.jobs = Tail(@)],
         NEW j, j = Head(st.jobs), promise_reaction_job(s, j)
  PROVE  Keeps(st, st') /\ Frames(st', run')
<1>1. Good(st)
  BY InvParts
<1>2. PICK n : n = [s EXCEPT !.log = Append(@, j.id)]
  OBVIOUS
<1>3. /\ j.kind = "reaction"
      /\ j.handler = Script => st' = n /\ run' = <<Frame("handler", j.pair)>>
      /\ j.handler = Resume => st' = n /\ run' = <<Frame("async", 1)>>
      /\ j.handler = NoHandler => st' = Finish(n, j.pair, j.arg, j.rej) /\ run' = run
      /\ j.handler \notin {Script, Resume, NoHandler} =>
            st' = Finish(Call(n, j.handler, j.arg), j.pair, Undefined, FALSE) /\ run' = run
  <2>1. ReactionStep(n, j)
    BY <1>2, ReactionSteps
  <2>. QED  BY <2>1 DEF ReactionStep
<1>4. ReactionReady(st, n, j)
  BY <1>1, <1>2, <1>3, PopReaction, Zenon
<1>5. /\ Good(n) /\ Grows(st, n) /\ j.arg \in Triples /\ j.rej \in BOOLEAN
      /\ Handler(n, j.handler) /\ j.pair \in {0} \cup Pairs(n) /\ ~ Internal(n, j.pair)
      /\ j.arg[1] = "val"
  BY <1>4 DEF ReactionReady
<1>6. Keeps(st, n) /\ j.pair \in Nat
  BY <1>5 DEF Keeps, Pairs
<1>7. CASE j.handler = Script
  <2>1. FrameOK(n, Frame("handler", j.pair))
    BY <1>5, <1>6 DEF FrameOK, Frame, FrameKind
  <2>. QED  BY <1>3, <1>6, <1>7, <2>1, FrameOne
<1>8. CASE j.handler = Resume
  <2>1. 1 \in Pairs(n) /\ ~ Internal(n, 1)
    <3>1. Len(n.pair) > 0 /\ Len(n.pair) \in Nat /\ Owned(n)
      BY <1>5, StateParts DEF Good
    <3>2. 1 \in Pairs(n)
      BY <3>1 DEF Pairs
    <3>. QED  BY <3>1, <3>2 DEF Owned
  <2>2. FrameOK(n, Frame("async", 1))
    BY <2>1 DEF FrameOK, Frame, FrameKind
  <2>. QED  BY <1>3, <1>6, <1>8, <2>2, FrameOne
<1>9. CASE j.handler = NoHandler
  <2>1. Good(st') /\ Grows(n, st')
    BY <1>3, <1>5, <1>9, FinishGood
  <2>. QED  BY <1>3, <1>5, <1>9, <2>1, NoFrames, GrowsTransitive DEF Keeps
<1>10. CASE j.handler \notin {Script, Resume, NoHandler}
  <2>1. PICK m : m = Call(n, j.handler, j.arg)
    OBVIOUS
  <2>2. st' = Finish(m, j.pair, Undefined, FALSE) /\ run' = <<>>
    BY <1>3, <1>10, <2>1
  <2>3. MayCallFunction(n, j.handler, j.arg)
    BY <1>4, <1>10, ReactionCalls
  <2>4. Good(m) /\ Grows(n, m)
    BY <1>5, <2>1, <2>3, CallGood
  <2>5. j.pair \in {0} \cup Pairs(m) /\ ~ Internal(m, j.pair)
    BY <1>5, <2>4, PairStays
  <2>6. Good(st') /\ Grows(m, st')
    BY <2>2, <2>4, <2>5, FinishGood, UndefinedPlain
  <2>. QED  BY <1>5, <2>2, <2>4, <2>6, NoFrames, GrowsTransitive DEF Keeps
<1>. QED  BY <1>7, <1>8, <1>9, <1>10

\* A thenable: the promise gets a fresh pair, which is an internal one if the
\* thenable is a promise.
LEMMA ThenableKeeps ==
  ASSUME Inv, run = <<>>, st.jobs # <<>>, NEW s, s = [st EXCEPT !.jobs = Tail(@)],
         NEW j, j = Head(st.jobs), js_promise_resolve_thenable_job(s, j)
  PROVE  Keeps(st, st') /\ Frames(st', run')
<1>1. Good(st)
  BY InvParts
<1>2. j.kind = "thenable"
  BY DEF js_promise_resolve_thenable_job
<1>3. /\ Good(s) /\ Grows(st, s)
      /\ j.p \in Proms(s) /\ Pending(s, j.p) /\ Thenable(s, j.v) /\ s.prom[j.p].to = j.v
      /\ \A k \in Pairs(s) : s.pair[k].p = j.p => s.pair[k].done
      /\ \A k \in Jobs(s) : IsThenable(s, k) => s.jobs[k].p # j.p
  <2>1. ThenableReady(st, s, j)
    BY <1>1, <1>2, PopThenable, Zenon
  <2>. QED  BY <2>1 DEF ThenableReady
<1>4. PICK n : n = js_create_resolving_functions(s, j.p)
  OBVIOUS
<1>5. PICK i : i = Len(n.pair)
  OBVIOUS
<1>6. /\ Good(n) /\ Grows(s, n) /\ i \in Pairs(n) /\ n.prom = s.prom
      /\ n.pair[i].p = j.p /\ ~ n.pair[i].done
  <2>1. PICK p : p = j.p
    OBVIOUS
  <2>2. /\ Good(s) /\ p \in Proms(s) /\ Pending(s, p) /\ n = js_create_resolving_functions(s, p)
        /\ \A k \in Pairs(s) : s.pair[k].p = p => s.pair[k].done
        /\ \A k \in Jobs(s) : IsThenable(s, k) => s.jobs[k].p # p
    BY <1>3, <1>4, <2>1
  <2>3. /\ Good(n) /\ Grows(s, n) /\ i \in Pairs(n) /\ n.prom = s.prom
        /\ n.pair[i].p = p /\ ~ n.pair[i].done
    BY ONLY <1>5, <2>2, PairGood
  <2>. QED  BY <2>1, <2>3
<1>7. PICK f : f = <<"resolve", i, 0>>
  OBVIOUS
<1>8. PICK g : g = <<"reject", i, 0>>
  OBVIOUS
<1>9. /\ Func(n, f) /\ Func(n, g) /\ f[1] = "resolve" /\ g[1] = "reject"
      /\ \A k : (Uses(f, k) => k = i) /\ (Uses(g, k) => k = i)
  <2>1. Func(n, f) /\ Func(n, g)
    BY <1>6, <1>7, <1>8, PairFunctions
  <2>2. f[1] = "resolve" /\ g[1] = "reject" /\ f[2] = i /\ g[2] = i
    BY <1>7, <1>8
  <2>. QED  BY <2>1, <2>2 DEF Uses
<1>10. Grows(st, n)
  BY <1>3, <1>6, GrowsTransitive
<1>11. CASE j.v = Foreign
  <2>1. PICK F : F = {f, g}
    OBVIOUS
  <2>2. st' = [n EXCEPT !.fns = @ \cup F] /\ run' = <<Frame("then", i)>>
    BY <1>4, <1>5, <1>7, <1>8, <1>11, <2>1 DEF js_promise_resolve_thenable_job
  <2>3. n.prom[j.p].to = Foreign /\ Foreign[1] # "prom"
    BY <1>3, <1>6, <1>11 DEF Foreign
  <2>4. ~ Internal(n, i)
    BY <1>6, <2>3 DEF Internal
  <2>5. /\ \A h \in F : Func(n, h)
        /\ \A h \in F : \A k \in Pairs(n) : Internal(n, k) => ~ Uses(h, k)
    <3>1. \A h \in F : h = f \/ h = g
      BY <2>1
    <3>. QED  BY <1>9, <2>4, <3>1
  <2>6. Good(st') /\ Grows(n, st')
    BY ONLY <1>6, <2>2, <2>5, GiveGood
  <2>7. i \in Nat /\ i \in Pairs(st') /\ ~ Internal(st', i)
    BY <1>6, <2>4, <2>6 DEF Grows, Pairs
  <2>8. FrameOK(st', Frame("then", i))
    BY <2>7 DEF FrameOK, Frame, FrameKind
  <2>9. Frames(st', run')
    BY <2>2, <2>8, FrameOne
  <2>. QED  BY <1>10, <2>6, <2>9, GrowsTransitive DEF Keeps
<1>12. CASE j.v # Foreign
  <2>1. PICK p : p = j.v[2]
    OBVIOUS
  <2>2. st' = perform_promise_then(n, p, f, g, 0) /\ run' = <<>>
    BY <1>4, <1>5, <1>7, <1>8, <1>12, <2>1 DEF js_promise_resolve_thenable_job
  <2>3. p \in Proms(n)
    BY <1>3, <1>6, <1>12, <2>1 DEF Thenable, Grows
  <2>4. Source(n, i) = p
    BY <1>3, <1>6, <2>1 DEF Source
  <2>5. MayThen(n, p, f, g, 0)
    <3>1. Handler(n, f) /\ Handler(n, g) /\ ~ Internal(n, 0)
      BY <1>9 DEF Handler, Internal, Pairs
    <3>. QED  BY <1>9, <2>3, <2>4, <3>1 DEF MayThen
  <2>6. Good(st') /\ Grows(n, st')
    BY <1>6, <2>2, <2>5, ThenGood
  <2>. QED  BY <1>10, <2>2, <2>6, NoFrames, GrowsTransitive DEF Keeps
<1>. QED  BY <1>11, <1>12

LEMMA NextInv == Inv /\ [PromisesNext]_promisesVars => Inv'
<1>1. SUFFICES ASSUME Inv, [PromisesNext]_promisesVars PROVE Inv'
  OBVIOUS
<1>2. st \in PromiseState /\ Frames(st, run) /\ ops \in 0 .. MaxOps
  BY <1>1, InvParts
<1>3. ASSUME Keeps(st, st'), Frames(st', run'), ops' \in 0 .. MaxOps PROVE Inv'
  BY <1>3 DEF Inv, Keeps
<1>4. ASSUME Keeps(st, st'), run' = run, ops' \in 0 .. MaxOps PROVE Inv'
  <2>1. Frames(st', run)
    BY <1>2, <1>4, FramesGrow DEF Keeps
  <2>. QED  BY <1>3, <1>4, <2>1
<1>5. CASE js_promise_withResolvers
  BY <1>1, <1>4, <1>5, WithResolversKeeps
<1>6. CASE \E f \in st.fns : \E v \in Arguments(f) : CallFunction(f, v)
  <2>1. PICK f \in st.fns : \E v \in Arguments(f) : CallFunction(f, v)
    BY <1>6
  <2>2. PICK v \in Arguments(f) : CallFunction(f, v)
    BY <2>1
  <2>. QED  BY <1>1, <1>4, <2>2, CallKeeps
<1>7. CASE \E p \in DOMAIN st.prom, onF \in {NoHandler, Script}, onR \in {NoHandler, Script} : Then(p, onF, onR)
  BY <1>1, <1>4, <1>7, ThenKeeps
<1>8. CASE \E kind \in Kinds, x, y \in {Foreign} \cup Promised : Combine(kind, <<x, y>>)
  BY <1>1, <1>3, <1>8, CombineKeeps
<1>9. CASE \E p \in DOMAIN st.prom : Await(p)
  BY <1>1, <1>3, <1>9, AwaitKeeps
<1>10. CASE Returns
  <2>1. ops' = ops /\ \E rej \in BOOLEAN : Return(One, rej)
    BY <1>10 DEF Returns
  <2>2. PICK rej \in BOOLEAN : Return(One, rej)
    BY <2>1
  <2>. QED  BY <1>1, <1>2, <1>3, <2>1, <2>2, ReturnKeeps
<1>13. CASE \E v \in Object : ReturnsObject(v)
  BY <1>1, <1>3, <1>13, ObjectKeeps
<1>11. CASE JS_ExecutePendingJob
  <2>1. PICK s : s = [st EXCEPT !.jobs = Tail(@)]
    OBVIOUS
  <2>2. PICK j : j = Head(st.jobs)
    OBVIOUS
  <2>3. /\ run = <<>> /\ st.jobs # <<>> /\ ops' = ops
        /\ promise_reaction_job(s, j) \/ js_promise_resolve_thenable_job(s, j)
    BY <1>11, <2>1, <2>2 DEF JS_ExecutePendingJob
  <2>4. Keeps(st, st') /\ Frames(st', run')
    BY <1>1, <2>1, <2>2, <2>3, ReactionKeeps, ThenableKeeps
  <2>. QED  BY <1>2, <1>3, <2>3, <2>4
<1>12. CASE UNCHANGED promisesVars
  BY <1>1, <1>12 DEF promisesVars, Inv
<1>. QED  BY <1>1, <1>5, <1>6, <1>7, <1>8, <1>9, <1>10, <1>11, <1>12, <1>13 DEF PromisesNext

-----------------------------------------------------------------------------
(* The theorems.                                                           *)

LEMMA AtMostOne ==
  ASSUME NEW S, \A x, y \in S : x = y
  PROVE  /\ Cardinality(S) \in {0, 1}
         /\ S = {} <=> Cardinality(S) = 0
<1>1. CASE S = {}
  BY <1>1, FS_EmptySet
<1>2. CASE S # {}
  <2>1. PICK x : x \in S
    BY <1>2
  <2>2. S = {x}
    BY <2>1
  <2>3. Cardinality({x}) = 1
    BY FS_Singleton
  <2>4. Cardinality(S) = 1
    BY <2>2, <2>3
  <2>. QED  BY <1>2, <2>4
<1>. QED  BY <1>1, <1>2

LEMMA Domains ==
  ASSUME Inv
  PROVE  /\ DOMAIN st.prom = Proms(st) /\ DOMAIN st.pair = Pairs(st) /\ DOMAIN st.jobs = Jobs(st)
         /\ DOMAIN st.regs = Regs(st) /\ DOMAIN st.log = Logged(st)
<1>1. /\ st.prom \in Seq(JSPromiseData) /\ st.pair \in Seq(JSPromiseFunctionDataResolved)
      /\ st.jobs \in Seq(PromiseJob) /\ st.regs \in Seq(Nat) /\ st.log \in Seq(Nat)
  BY InvParts, StateParts
<1>. QED  BY <1>1, SeqParts DEF Proms, Pairs, Jobs, Regs, Logged

LEMMA InvTypeOK == ASSUME Inv PROVE PromisesTypeOK
<1>1. Refs(st) /\ st \in PromiseState /\ Frames(st, run) /\ ops \in 0 .. MaxOps
  BY InvParts DEF Good
<1>2. run \in Seq([kind : {"async", "handler", "then", "element"}, arg : Nat])
  BY <1>1 DEF Frames, FrameKind
<1>. QED  BY <1>1, <1>2, Domains DEF Refs, PromisesTypeOK

\* The jobs and the log hold a reaction once, if its promise is settled, and
\* else not at all.
LEMMA InvCopies ==
  ASSUME Inv, NEW id \in Regs(st)
  PROVE  Copies(id) = IF Settled(st.regs[id]) THEN 1 ELSE 0
<1>1. Queue(st) /\ st \in PromiseState
  BY InvParts DEF Good
<1>2. PICK J : J = {k \in Jobs(st) : IsReaction(st, k) /\ st.jobs[k].id = id}
  OBVIOUS
<1>3. PICK L : L = {k \in Logged(st) : st.log[k] = id}
  OBVIOUS
<1>4. Copies(id) = Cardinality(J) + Cardinality(L)
  BY <1>2, <1>3, Domains DEF Copies, IsReaction
<1>5. \A k \in J : k \in Nat /\ k \in Jobs(st) /\ IsReaction(st, k) /\ PromiseOf(st, k) = st.regs[id]
  BY <1>2 DEF Jobs, PromiseOf
<1>6. \A k \in L : k \in Nat /\ k \in Logged(st) /\ st.regs[st.log[k]] = st.regs[id]
  BY <1>3 DEF Logged
<1>7. ~ (id < id)
  BY DEF Regs
<1>8. \A k, l \in J : ~ (k < l)
  BY <1>1, <1>2, <1>5, <1>7 DEF Queue
<1>9. \A k, l \in L : ~ (k < l)
  BY <1>1, <1>3, <1>6, <1>7 DEF Queue
<1>10. \A k \in L, l \in J : FALSE
  BY <1>1, <1>2, <1>3, <1>5, <1>6, <1>7 DEF Queue
<1>11. /\ \A k, l \in J : k = l
       /\ \A k, l \in L : k = l
  <2>1. \A k, l \in Nat : ~ (k < l) /\ ~ (l < k) => k = l
    OBVIOUS
  <2>. QED  BY <1>5, <1>6, <1>8, <1>9, <2>1
<1>12. /\ Cardinality(J) \in {0, 1} /\ Cardinality(L) \in {0, 1}
       /\ J = {} <=> Cardinality(J) = 0
       /\ L = {} <=> Cardinality(L) = 0
  BY <1>11, AtMostOne
<1>13. CASE Pending(st, st.regs[id])
  <2>1. J = {}
    BY <1>1, <1>2, <1>5, <1>13 DEF Queue
  <2>2. L = {}
    BY <1>1, <1>3, <1>6, <1>13 DEF Queue
  <2>. QED  BY <1>4, <1>12, <1>13, <2>1, <2>2 DEF Pending, Settled
<1>14. CASE ~ Pending(st, st.regs[id])
  <2>1. J # {} \/ L # {}
    BY <1>1, <1>2, <1>3, <1>14 DEF Queue
  <2>2. J = {} \/ L = {}
    BY <1>10
  <2>. QED  BY <1>4, <1>12, <1>14, <2>1, <2>2 DEF Pending, Settled
<1>. QED  BY <1>13, <1>14

\* The lists of a promise hold its reactions while it is pending.
LEMMA InvLists ==
  ASSUME Inv, NEW id \in Regs(st), NEW x \in {1, 2}
  PROVE  InList(id, st.regs[id], x) <=> ~ Settled(st.regs[id])
<1>1. Lists(st) /\ Refs(st) /\ st \in PromiseState
  BY InvParts DEF Good
<1>2. PICK p : p = st.regs[id]
  OBVIOUS
<1>3. p \in Proms(st)
  BY <1>1, <1>2 DEF Refs
<1>4. PICK q : q = st.prom[p].reactions[x]
  OBVIOUS
<1>5. DOMAIN q = 1 .. Len(q) /\ List(st, p, x) = 1 .. Len(q)
  BY <1>1, <1>3, <1>4, ListParts, SeqParts DEF List
<1>6. InList(id, p, x) <=> \E k \in 1 .. Len(q) : q[k].id = id
  BY <1>4, <1>5 DEF InList, ToSet
<1>7. CASE Pending(st, p)
  <2>1. \E k \in List(st, p, x) : q[k].id = id
    BY <1>1, <1>2, <1>4, <1>7, SMTT(60) DEF Lists
  <2>. QED  BY <1>2, <1>5, <1>6, <1>7, <2>1 DEF Pending, Settled
<1>8. CASE ~ Pending(st, p)
  <2>1. q = <<>>
    BY <1>1, <1>3, <1>4, <1>8 DEF Lists
  <2>2. 1 .. Len(q) = {}
    BY <2>1
  <2>. QED  BY <1>2, <1>6, <1>8, <2>2 DEF Pending, Settled
<1>. QED  BY <1>7, <1>8

LEMMA InvReactionsOnce == ASSUME Inv PROVE ReactionsOnce
<1>1. Once(st) /\ Queue(st) /\ Refs(st)
  BY InvParts DEF Good
<1>2. st.again = {}
  BY <1>1 DEF Once
<1>3. ASSUME NEW p \in DOMAIN st.prom
      PROVE  Cardinality({i \in DOMAIN st.pair : st.pair[i].p = p /\ ~ st.pair[i].done}) <= 1
  <2>1. PICK S : S = {i \in DOMAIN st.pair : st.pair[i].p = p /\ ~ st.pair[i].done}
    OBVIOUS
  <2>2. \A i, k \in S : i = k
    BY <1>1, <2>1, Domains DEF Once
  <2>3. Cardinality(S) \in {0, 1}
    BY <2>2, AtMostOne
  <2>4. Cardinality(S) <= 1
    BY <2>3
  <2>. QED  BY <2>1, <2>4
<1>4. ASSUME NEW id \in DOMAIN st.regs
      PROVE  IF Settled(st.regs[id])
             THEN /\ Copies(id) = 1
                  /\ ~ InList(id, st.regs[id], 1) /\ ~ InList(id, st.regs[id], 2)
             ELSE /\ Copies(id) = 0
                  /\ InList(id, st.regs[id], 1) /\ InList(id, st.regs[id], 2)
  <2>1. id \in Regs(st)
    BY Domains
  <2>2. Copies(id) = IF Settled(st.regs[id]) THEN 1 ELSE 0
    BY <2>1, InvCopies
  <2>3. \A x \in {1, 2} : InList(id, st.regs[id], x) <=> ~ Settled(st.regs[id])
    BY <2>1, InvLists
  <2>. QED  BY <2>2, <2>3
<1>5. \A i, k \in DOMAIN st.log :
         i < k /\ st.regs[st.log[i]] = st.regs[st.log[k]] => st.log[i] < st.log[k]
  BY <1>1, Domains DEF Queue
<1>. QED  BY <1>2, <1>3, <1>4, <1>5 DEF ReactionsOnce

LEMMA InvAdoption == ASSUME Inv PROVE Adoption
<1>1. Plain(st) /\ Adopted(st)
  BY InvParts DEF Good
<1>. QED  BY <1>1, Domains DEF Plain, Adopted, Adoption, Settled, Pending

\* The inductive invariant: every step of a script and of the job queue leaves
\* one pair or one job to settle a pending promise, keeps every reaction in one
\* place, and keeps the functions of an internal pair out of reach of scripts.
THEOREM InvHolds == PromisesSpec => []Inv
<1>1. PromisesInit => Inv
  BY InitInv
<1>2. Inv /\ [PromisesNext]_promisesVars => Inv'
  BY NextInv
<1>. QED  BY <1>1, <1>2, PTL DEF PromisesSpec

\* The shape of the promises, the pairs, the jobs and the scripts under way, for
\* any number of promises and operations.
THEOREM PromisesTypeCorrect == PromisesSpec => []PromisesTypeOK
<1>1. Inv => PromisesTypeOK
  BY InvTypeOK
<1>. QED  BY <1>1, InvHolds, PTL

\* perform_promise_then, fulfill_or_reject_promise and promise_reaction_job
\* together run every reaction once, in the order of the calls of then, and a
\* promise is settled once, for any number of promises, whatever scripts call.
THEOREM ReactionsRunOnce == PromisesSpec => []ReactionsOnce
<1>1. Inv => ReactionsOnce
  BY InvReactionsOnce
<1>. QED  BY <1>1, InvHolds, PTL

\* js_promise_resolve_function_call and js_promise_resolve_thenable_job: a
\* promise that was resolved with another one ends as that one did, for any
\* number of promises, whatever scripts call.
THEOREM AdoptionHolds == PromisesSpec => []Adoption
<1>1. Inv => Adoption
  BY InvAdoption
<1>. QED  BY <1>1, InvHolds, PTL

-----------------------------------------------------------------------------
(* AllReported.  The promise of an aggregate is settled by the count alone, *)
(* unless one of the functions that were given out did it: Sealed are the   *)
(* pairs whose resolve nobody got, and a rejection with Undefined comes     *)
(* from the count of an aggregate of kind any.                              *)

\* Every element has reported, or one of them twice.
Done(g, a) ==
  \/ g.index = Len(g.items) /\ Cardinality(g.called) = Len(g.items)
  \/ CalledTwice(g, a)

Reported(s) == \E a \in Aggrs(s) : Done(s.aggr[a], a)
AnyReported(s) == \E a \in Aggrs(s) : s.aggr[a].kind = "any" /\ Done(s.aggr[a], a)
Sealed(s, i) == \E a \in Aggrs(s) : s.aggr[a].kind # "any" /\ s.aggr[a].pair = i
SealedPromise(s, p) ==
  \E a \in Aggrs(s) : s.aggr[a].kind # "any" /\ s.pair[s.aggr[a].pair].p = p

\* The count; L is 1 as long as the loop holds a count of its own.
Tally(g, a, L) ==
  /\ g.pair # 1 /\ IsFiniteSet(g.called)
  /\ \A f \in g.called : f[1] \in {"fulfilled", "rejected"} /\ f[2] = a /\ f[3] \in 1 .. g.index
  /\ g.remaining = L + g.index - Cardinality(g.called)
  /\ L = 0 => g.index = Len(g.items)

\* Functions and values that may be where they are.
GivenFunction(s, f) ==
  /\ f[1] \in {"fulfilled", "rejected"} =>
        f[2] \in Aggrs(s) /\ f[3] \in 1 .. s.aggr[f[2]].index
  /\ f[1] = "resolve" => ~ Sealed(s, f[2])
GivenHandler(s, h, x) == GivenFunction(s, h) /\ (h[1] = "reject" => x = 2)
GivenReaction(s, r, x) == GivenHandler(s, r.handler, x) /\ ~ Sealed(s, r.pair)
GivenJob(s, j) ==
  /\ j.kind = "reaction" =>
        /\ GivenHandler(s, j.handler, IF j.rej THEN 2 ELSE 1) /\ ~ Sealed(s, j.pair)
        /\ j.rej /\ j.arg = Undefined => AnyReported(s)
  /\ j.kind = "thenable" => ~ SealedPromise(s, j.p)
GivenPair(s, i, p) == SealedPromise(s, p) => Sealed(s, i)
GivenPromise(s, p, state, result) ==
  /\ SealedPromise(s, p) /\ state = "fulfilled" => Reported(s)
  /\ state = "rejected" /\ result = Undefined => AnyReported(s)

\* All that is in n may be there, as far as the aggregates of s are concerned.
Given(s, n) ==
  /\ \A f \in n.fns : GivenFunction(s, f)
  /\ \A p \in Proms(n), x \in {1, 2} : \A k \in List(n, p, x) :
        GivenReaction(s, n.prom[p].reactions[x][k], x)
  /\ \A k \in Jobs(n) : GivenJob(s, n.jobs[k])
  /\ \A i \in Pairs(n) : GivenPair(s, i, n.pair[i].p)
  /\ \A p \in Proms(n) : GivenPromise(s, p, n.prom[p].state, n.prom[p].result)

Tallied(s, L) ==
  /\ L \in {0, 1} /\ Len(s.aggr) <= 1
  /\ \A a \in Aggrs(s) : Tally(s.aggr[a], a, L)
  /\ Given(s, s)

\* The loop holds its count while a script runs that it called.
LoopFrames(s, r, L) ==
  /\ \A k \in 1 .. Len(r) : r[k].kind = "element" => L = 1
  /\ \A k \in 1 .. Len(r) : r[k].kind # "element" => ~ Sealed(s, r[k].arg)
  /\ \A k, l \in 1 .. Len(r) : r[k].kind = "element" /\ r[l].kind = "element" => k = l

Reporting(s, r) == \E L \in {0, 1} : Tallied(s, L) /\ LoopFrames(s, r, L)
ReportInv == Inv /\ Reporting(st, run)

-----------------------------------------------------------------------------
(* A step keeps the pairs and kinds of the aggregates, and what was counted. *)

Onward(s, n) ==
  /\ Len(n.aggr) = Len(s.aggr)
  /\ \A i \in Pairs(s) : i \in Pairs(n) /\ n.pair[i].p = s.pair[i].p
  /\ \A a \in Aggrs(s) :
        /\ n.aggr[a].kind = s.aggr[a].kind /\ n.aggr[a].pair = s.aggr[a].pair
        /\ \A i \in 1 .. s.aggr[a].index : i \in 1 .. n.aggr[a].index
        /\ Done(s.aggr[a], a) => Done(n.aggr[a], a)

LEMMA OnwardTransitive ==
  ASSUME NEW s, NEW n, NEW m, Onward(s, n), Onward(n, m)
  PROVE  Onward(s, m)
BY DEF Onward, Aggrs

LEMMA OnwardSame ==
  ASSUME NEW s, NEW n, n.aggr = s.aggr, n.pair = s.pair
  PROVE  Onward(s, n)
BY DEF Onward, Pairs

LEMMA OnwardSealed ==
  ASSUME NEW s, Good(s), NEW n, Onward(s, n)
  PROVE  /\ \A i : Sealed(n, i) <=> Sealed(s, i)
         /\ \A p : SealedPromise(n, p) <=> SealedPromise(s, p)
         /\ Reported(s) => Reported(n)
         /\ AnyReported(s) => AnyReported(n)
<1>1. Aggrs(n) = Aggrs(s)
  BY DEF Onward, Aggrs
<1>2. \A a \in Aggrs(s) : /\ n.aggr[a].kind = s.aggr[a].kind /\ n.aggr[a].pair = s.aggr[a].pair
                          /\ n.pair[s.aggr[a].pair].p = s.pair[s.aggr[a].pair].p
  BY DEF Onward, Good, Refs
<1>3. \A a \in Aggrs(s) : Done(s.aggr[a], a) => Done(n.aggr[a], a)
  BY DEF Onward
<1>4. \A i : Sealed(n, i) <=> Sealed(s, i)
  BY <1>1, <1>2 DEF Sealed
<1>5. \A p : SealedPromise(n, p) <=> SealedPromise(s, p)
  BY <1>1, <1>2 DEF SealedPromise
<1>6. Reported(s) => Reported(n)
  BY <1>1, <1>3 DEF Reported
<1>7. AnyReported(s) => AnyReported(n)
  BY <1>1, <1>2, <1>3 DEF AnyReported
<1>. QED  BY <1>4, <1>5, <1>6, <1>7

LEMMA OnwardGiven ==
  ASSUME NEW s, Good(s), NEW n, Onward(s, n)
  PROVE  /\ \A f : GivenFunction(s, f) => GivenFunction(n, f)
         /\ \A h, x : GivenHandler(s, h, x) => GivenHandler(n, h, x)
         /\ \A r, x : GivenReaction(s, r, x) => GivenReaction(n, r, x)
         /\ \A j : GivenJob(s, j) => GivenJob(n, j)
         /\ \A i, p : GivenPair(s, i, p) => GivenPair(n, i, p)
         /\ \A p, x, v : GivenPromise(s, p, x, v) => GivenPromise(n, p, x, v)
<1>1. /\ \A i : Sealed(n, i) <=> Sealed(s, i)
      /\ \A p : SealedPromise(n, p) <=> SealedPromise(s, p)
      /\ Reported(s) => Reported(n)
      /\ AnyReported(s) => AnyReported(n)
  BY OnwardSealed
<1>2. ASSUME NEW f, GivenFunction(s, f) PROVE GivenFunction(n, f)
  <2>1. Aggrs(n) = Aggrs(s)
    BY DEF Onward, Aggrs
  <2>2. f[1] \in {"fulfilled", "rejected"} => f[2] \in Aggrs(n) /\ f[3] \in 1 .. n.aggr[f[2]].index
    BY <1>2, <2>1 DEF Onward, GivenFunction
  <2>. QED  BY <1>1, <1>2, <2>2 DEF GivenFunction
<1>3. \A h, x : GivenHandler(s, h, x) => GivenHandler(n, h, x)
  BY <1>2 DEF GivenHandler
<1>4. \A r, x : GivenReaction(s, r, x) => GivenReaction(n, r, x)
  BY <1>1, <1>3 DEF GivenReaction
<1>5. \A j : GivenJob(s, j) => GivenJob(n, j)
  BY <1>1, <1>3 DEF GivenJob
<1>6. \A i, p : GivenPair(s, i, p) => GivenPair(n, i, p)
  BY <1>1 DEF GivenPair
<1>7. \A p, x, v : GivenPromise(s, p, x, v) => GivenPromise(n, p, x, v)
  BY <1>1 DEF GivenPromise
<1>. QED  BY <1>2, <1>3, <1>4, <1>5, <1>6, <1>7

LEMMA GivenOn ==
  ASSUME NEW s, Good(s), NEW n, Onward(s, n), NEW m, Given(s, m)
  PROVE  Given(n, m)
<1>1. /\ \A f : GivenFunction(s, f) => GivenFunction(n, f)
      /\ \A r, x : GivenReaction(s, r, x) => GivenReaction(n, r, x)
      /\ \A j : GivenJob(s, j) => GivenJob(n, j)
      /\ \A i, p : GivenPair(s, i, p) => GivenPair(n, i, p)
      /\ \A p, x, v : GivenPromise(s, p, x, v) => GivenPromise(n, p, x, v)
  BY OnwardGiven
<1>. QED  BY <1>1 DEF Given

\* The aggregates are as they were, and what is new may be there.
LEMMA TalliedSame ==
  ASSUME NEW s, Good(s), NEW L, Tallied(s, L), NEW n, Onward(s, n), n.aggr = s.aggr, Given(s, n)
  PROVE  Tallied(n, L)
<1>1. Given(n, n)
  BY GivenOn
<1>2. Aggrs(n) = Aggrs(s)
  BY DEF Aggrs
<1>. QED  BY <1>1, <1>2 DEF Tallied

\* An aggregate counts.
LEMMA TalliedCount ==
  ASSUME NEW s, Good(s), NEW L, Tallied(s, L), NEW n, Onward(s, n), NEW M \in {0, 1},
         \A a \in Aggrs(s) : Tally(n.aggr[a], a, M),
         n.prom = s.prom, n.pair = s.pair, n.jobs = s.jobs, n.fns = s.fns
  PROVE  Tallied(n, M)
<1>1. Given(s, n)
  BY DEF Tallied, Given, Proms, Pairs, Jobs, List
<1>2. Given(n, n)
  BY <1>1, GivenOn
<1>3. Aggrs(n) = Aggrs(s) /\ Len(n.aggr) = Len(s.aggr)
  BY DEF Onward, Aggrs
<1>. QED  BY <1>2, <1>3 DEF Tallied

\* Elements that report once each are not more than the loop has gone through.
LEMMA Pigeonhole ==
  ASSUME NEW g, NEW a, g \in Aggregate, g.index \in 0 .. Len(g.items), IsFiniteSet(g.called),
         \A f \in g.called : f[1] \in {"fulfilled", "rejected"} /\ f[2] = a /\ f[3] \in 1 .. g.index,
         ~ CalledTwice(g, a)
  PROVE  Cardinality(g.called) <= g.index
<1>1. g.called \subseteq Triples /\ g.index \in Nat /\ DOMAIN g.items = 1 .. Len(g.items)
      /\ Len(g.items) \in Nat
  BY DEF Aggregate
<1>2. PICK F : F = [f \in g.called |-> f[3]]
  OBVIOUS
<1>3. F \in [g.called -> 1 .. g.index]
  BY <1>2
<1>4. IsFiniteSet(1 .. g.index) /\ Cardinality(1 .. g.index) = g.index
  <2>1. 1 \in Int /\ g.index \in Int
    BY <1>1
  <2>2. /\ IsFiniteSet(1 .. g.index)
        /\ Cardinality(1 .. g.index) = IF 1 > g.index THEN 0 ELSE g.index - 1 + 1
    BY <2>1, FS_Interval, Zenon
  <2>. QED  BY <1>1, <2>2
<1>5. ASSUME NEW f \in g.called, NEW h \in g.called, f # h, F[f] = F[h] PROVE FALSE
  <2>1. f = <<f[1], f[2], f[3]>> /\ h = <<h[1], h[2], h[3]>>
    BY <1>1, <1>5 DEF Triples
  <2>2. f[2] = a /\ h[2] = a /\ f[3] = h[3] /\ f[3] \in 1 .. g.index
    BY <1>2, <1>5
  <2>3. f[1] # h[1] /\ f[1] \in {"fulfilled", "rejected"} /\ h[1] \in {"fulfilled", "rejected"}
    BY <1>5, <2>1, <2>2
  <2>4. PICK i : i = f[3]
    OBVIOUS
  <2>5. f = <<f[1], a, i>> /\ h = <<h[1], a, i>> /\ i \in DOMAIN g.items
    BY <1>1, <2>1, <2>2, <2>4
  <2>6. {<<"fulfilled", a, i>>, <<"rejected", a, i>>} \subseteq g.called
    BY <1>5, <2>3, <2>5
  <2>. QED  BY <2>5, <2>6 DEF CalledTwice
<1>6. ~ (g.index < Cardinality(g.called))
  BY <1>3, <1>4, <1>5, FS_PigeonHole
<1>7. Cardinality(g.called) \in Nat
  BY FS_CardinalityType
<1>. QED  BY <1>1, <1>6, <1>7

\* Nothing is left to report.
LEMMA TallyDone ==
  ASSUME NEW g, NEW a, g \in Aggregate, g.index \in 0 .. Len(g.items), NEW L \in {0, 1},
         Tally(g, a, L), g.remaining = 0
  PROVE  Done(g, a)
<1>1. Cardinality(g.called) \in Nat /\ g.index \in Nat /\ Len(g.items) \in Nat
  BY FS_CardinalityType DEF Tally, Aggregate
<1>2. Cardinality(g.called) = L + g.index
  BY <1>1 DEF Tally
<1>3. CalledTwice(g, a) \/ Cardinality(g.called) <= g.index
  BY Pigeonhole DEF Tally
<1>4. CalledTwice(g, a) \/ L = 0
  BY <1>1, <1>2, <1>3
<1>. QED  BY <1>1, <1>2, <1>4 DEF Tally, Done

\* What was done stays done.
LEMMA DoneStays ==
  ASSUME NEW g, NEW h, NEW a, h \in Aggregate, h.index \in 0 .. Len(h.items), NEW L,
         Tally(h, a, L), IsFiniteSet(g.called), g.called \subseteq h.called,
         g.items = h.items, g.index \in 0 .. h.index, Done(g, a)
  PROVE  Done(h, a)
<1>1. /\ Cardinality(h.called) \in Nat /\ Cardinality(g.called) \in Nat
      /\ h.index \in Nat /\ g.index \in Nat /\ Len(h.items) \in Nat
  BY FS_CardinalityType DEF Tally, Aggregate
<1>2. CASE CalledTwice(g, a)
  BY <1>2 DEF CalledTwice, Done
<1>3. CASE g.index = Len(g.items) /\ Cardinality(g.called) = Len(g.items)
  <2>1. h.index = Len(h.items)
    BY <1>1, <1>3
  <2>2. Cardinality(g.called) <= Cardinality(h.called)
    BY FS_Subset DEF Tally
  <2>3. CalledTwice(h, a) \/ Cardinality(h.called) <= h.index
    BY Pigeonhole DEF Tally
  <2>. QED  BY <1>1, <1>3, <2>1, <2>2, <2>3 DEF Done
<1>. QED  BY <1>2, <1>3 DEF Done

-----------------------------------------------------------------------------
(* The functions of the engine keep the count.                             *)

\* A state whose aggregates are counted, and that goes on from s.
Follows(s, n, L) == Tallied(n, L) /\ Onward(s, n)

LEMMA SettleTallied ==
  ASSUME NEW s, Good(s), NEW L, Tallied(s, L), NEW p, NEW v, NEW rej, MaySettle(s, p, v, rej),
         GivenPromise(s, p, Outcome(rej), v), NEW n, n = fulfill_or_reject_promise(s, p, v, rej)
  PROVE  Follows(s, n, L)
<1>1. PICK x : x = IF rej THEN 2 ELSE 1
  OBVIOUS
<1>2. Settling(s, n, p, v, rej, x)
  BY <1>1, SettleEffect
<1>3. Onward(s, n)
  BY <1>2, OnwardSame DEF Settling
<1>4. Given(s, s) /\ p \in Proms(s) /\ rej \in BOOLEAN
  BY DEF Tallied, MaySettle
<1>5. \A f \in n.fns : GivenFunction(s, f)
  BY <1>2, <1>4 DEF Settling, Given
<1>6. ASSUME NEW q \in Proms(n), NEW y \in {1, 2}, NEW k \in List(n, q, y)
      PROVE  GivenReaction(s, n.prom[q].reactions[y][k], y)
  <2>1. q \in Proms(s)
    BY <1>2 DEF Settling
  <2>2. CASE q = p
    <3>1. n.prom[q].reactions[y] = <<>>
      BY <1>2, <2>2 DEF Settling
    <3>. QED  BY <1>6, <3>1 DEF List
  <2>3. CASE q # p
    <3>1. n.prom[q] = s.prom[q]
      BY <1>2, <2>1, <2>3 DEF Settling
    <3>2. k \in List(s, q, y)
      BY <1>6, <3>1 DEF List
    <3>. QED  BY <1>4, <2>1, <3>1, <3>2 DEF Given
  <2>. QED  BY <2>2, <2>3
<1>7. ASSUME NEW k \in Jobs(n) PROVE GivenJob(s, n.jobs[k])
  <2>1. CASE k \in Jobs(s)
    <3>1. n.jobs[k] = s.jobs[k]
      BY <1>2, <2>1 DEF Settling
    <3>. QED  BY <1>4, <2>1, <3>1 DEF Given
  <2>2. CASE k \notin Jobs(s)
    <3>1. PICK m \in List(s, p, x) : k = Len(s.jobs) + m
      BY <1>2, <1>7, <2>2 DEF Settling
    <3>2. PICK r : r = s.prom[p].reactions[x][m]
      OBVIOUS
    <3>3. PICK j : j = n.jobs[k]
      OBVIOUS
    <3>4. /\ j.kind = "reaction" /\ j.pair = r.pair /\ j.handler = r.handler
          /\ j.arg = v /\ j.rej = rej
      BY <1>2, <3>1, <3>2, <3>3 DEF Settling, IsReaction
    <3>5. GivenReaction(s, r, x)
      BY <1>1, <1>4, <3>1, <3>2 DEF Given
    <3>6. rej /\ v = Undefined => AnyReported(s)
      BY DEF GivenPromise, Outcome
    <3>7. GivenJob(s, j)
      BY <1>1, <3>4, <3>5, <3>6 DEF GivenJob, GivenReaction
    <3>. QED  BY <3>3, <3>7
  <2>. QED  BY <2>1, <2>2
<1>8. \A i \in Pairs(n) : GivenPair(s, i, n.pair[i].p)
  BY <1>2, <1>4 DEF Settling, Given
<1>9. ASSUME NEW q \in Proms(n) PROVE GivenPromise(s, q, n.prom[q].state, n.prom[q].result)
  <2>1. q \in Proms(s)
    BY <1>2 DEF Settling
  <2>2. CASE q = p
    <3>1. n.prom[p].state = Outcome(rej) /\ n.prom[p].result = v
      BY <1>2 DEF Settling
    <3>. QED  BY <2>2, <3>1
  <2>3. CASE q # p
    <3>1. n.prom[q] = s.prom[q]
      BY <1>2, <2>1, <2>3 DEF Settling
    <3>. QED  BY <1>4, <2>1, <3>1 DEF Given
  <2>. QED  BY <2>2, <2>3
<1>10. Given(s, n)
  BY <1>5, <1>6, <1>7, <1>8, <1>9 DEF Given
<1>11. n.aggr = s.aggr
  BY <1>2 DEF Settling
<1>. QED  BY <1>3, <1>10, <1>11, TalliedSame DEF Follows

LEMMA SpendTallied ==
  ASSUME NEW s, Good(s), NEW L, Tallied(s, L), NEW i, NEW v, NEW rej, NEW n,
         Spending(s, n, i, v, rej)
  PROVE  Follows(s, n, L)
<1>1. Onward(s, n)
  BY DEF Spending, Onward
<1>2. Given(s, s) /\ n.aggr = s.aggr
  BY DEF Tallied, Spending
<1>3. \A f \in n.fns : GivenFunction(s, f)
  BY <1>2 DEF Spending, Given
<1>4. ASSUME NEW q \in Proms(n), NEW y \in {1, 2}, NEW k \in List(n, q, y)
      PROVE  GivenReaction(s, n.prom[q].reactions[y][k], y)
  <2>1. q \in Proms(s) /\ n.prom[q].reactions = s.prom[q].reactions
    BY DEF Spending
  <2>2. k \in List(s, q, y)
    BY <1>4, <2>1 DEF List
  <2>. QED  BY <1>2, <2>1, <2>2 DEF Given
<1>5. \A k \in Jobs(n) : GivenJob(s, n.jobs[k])
  BY <1>2 DEF Spending, Given, Jobs
<1>6. \A k \in Pairs(n) : GivenPair(s, k, n.pair[k].p)
  BY <1>2 DEF Spending, Given
<1>7. \A q \in Proms(n) : GivenPromise(s, q, n.prom[q].state, n.prom[q].result)
  BY <1>2 DEF Spending, Given
<1>8. Given(s, n)
  BY <1>3, <1>4, <1>5, <1>6, <1>7 DEF Given
<1>. QED  BY <1>1, <1>2, <1>8, TalliedSame DEF Follows

LEMMA EnqueueTallied ==
  ASSUME NEW s, Good(s), NEW L, Tallied(s, L), NEW j, GivenJob(s, j), NEW n, Enqueues(s, n, j)
  PROVE  Follows(s, n, L)
<1>1. n.prom = s.prom /\ n.pair = s.pair /\ n.aggr = s.aggr /\ n.fns = s.fns
  BY DEF Enqueues
<1>2. Onward(s, n) /\ Given(s, s)
  BY <1>1, OnwardSame DEF Tallied
<1>3. \A k \in Jobs(n) : GivenJob(s, n.jobs[k])
  BY <1>2 DEF Enqueues, Given
<1>4. Given(s, n)
  BY <1>1, <1>2, <1>3 DEF Given, Proms, Pairs, List
<1>. QED  BY <1>1, <1>2, <1>4, TalliedSame DEF Follows

\* What pair i of s may be called with.
MayReport(s, i, v, rej) ==
  /\ rej /\ v = Undefined => AnyReported(s)
  /\ ~ rej /\ Sealed(s, i) => v[1] = "val" /\ Reported(s)

LEMMA FollowsOn ==
  ASSUME NEW s, NEW n, NEW m, NEW L, NEW M, Follows(s, n, L), Follows(n, m, M)
  PROVE  Follows(s, m, M)
BY OnwardTransitive DEF Follows

LEMMA FollowsSelf ==
  ASSUME NEW s, NEW L, Tallied(s, L)
  PROVE  Follows(s, s, L)
BY OnwardSame DEF Follows

LEMMA ResolveTallied ==
  ASSUME NEW s, Good(s), NEW L, Tallied(s, L), NEW i, NEW v, NEW rej, MayCall(s, i, v, rej),
         MayReport(s, i, v, rej), NEW n, n = js_promise_resolve_function_call(s, i, v, rej)
  PROVE  Follows(s, n, L)
<1>1. CASE n = s
  BY <1>1, FollowsSelf
<1>2. CASE \E m, p : Resolves(s, m, n, p, i, v, rej)
  <2>1. PICK m, p : Resolves(s, m, n, p, i, v, rej)
    BY <1>2
  <2>2. p = s.pair[i].p /\ Good(m) /\ Spending(s, m, i, v, rej) /\ i \in Pairs(s) /\ rej \in BOOLEAN
    BY <2>1 DEF Resolves, Spends, MayCall
  <2>3. Follows(s, m, L)
    BY <2>2, SpendTallied
  <2>4. Tallied(m, L) /\ Onward(s, m)
    BY <2>3 DEF Follows
  <2>5. /\ \A q : SealedPromise(m, q) <=> SealedPromise(s, q)
        /\ Reported(s) => Reported(m)
        /\ AnyReported(s) => AnyReported(m)
    BY <2>4, OnwardSealed
  <2>6. SealedPromise(s, p) => Sealed(s, i)
    BY <2>2 DEF Tallied, Given, GivenPair
  <2>7. CASE \E w, x : SettlesWith(m, n, p, v, rej, w, x)
    <3>1. PICK w, x : SettlesWith(m, n, p, v, rej, w, x)
      BY <2>7
    <3>2. MaySettle(m, p, w, x) /\ n = fulfill_or_reject_promise(m, p, w, x)
      BY <3>1 DEF SettlesWith
    <3>3. GivenPromise(m, p, Outcome(x), w)
      <4>1. CASE w = v /\ x = rej
        BY <2>2, <2>5, <2>6, <4>1 DEF MayReport, GivenPromise, Outcome
      <4>2. CASE w = Thrown /\ x = TRUE
        BY <4>2 DEF GivenPromise, Outcome, Thrown, Undefined
      <4>. QED  BY <3>1, <4>1, <4>2 DEF SettlesWith
    <3>4. Follows(m, n, L)
      BY ONLY <2>2, <2>4, <3>2, <3>3, SettleTallied
    <3>. QED  BY <2>3, <3>4, FollowsOn
  <2>8. CASE /\ ~ rej /\ MayAdopt(m, p, v)
             /\ n = JS_EnqueueJob(m, [kind |-> "thenable", p |-> p, v |-> v])
    <3>1. PICK j : j = [kind |-> "thenable", p |-> p, v |-> v]
      OBVIOUS
    <3>2. n = JS_EnqueueJob(m, j)
      BY ONLY <2>8, <3>1
    <3>3. p \in Nat /\ v \in Triples /\ v[1] # "val" /\ ~ rej /\ m \in PromiseState
      BY <2>2, <2>8 DEF MayAdopt, Proms, Good
    <3>4. j \in PromiseJob /\ j.kind = "thenable" /\ j.p = p
      BY ONLY <3>1, <3>3 DEF PromiseJob, ThenableJob
    <3>5. Enqueues(m, n, j)
      BY ONLY <3>2, <3>3, <3>4, EnqueueParts
    <3>6. GivenJob(m, j)
      BY <2>5, <2>6, <3>3, <3>4 DEF MayReport, GivenJob
    <3>7. Follows(m, n, L)
      BY ONLY <2>2, <2>4, <3>5, <3>6, EnqueueTallied
    <3>. QED  BY <2>3, <3>7, FollowsOn
  <2>. QED  BY <2>1, <2>7, <2>8 DEF Resolves
<1>. QED  BY <1>1, <1>2, ResolveParts

LEMMA PairTallied ==
  ASSUME NEW s, Good(s), NEW L, Tallied(s, L), NEW n, NEW l, l \notin Pairs(s),
         n.prom = s.prom, n.aggr = s.aggr, n.fns = s.fns, n.jobs = s.jobs,
         \A k \in Pairs(n) : k \in Pairs(s) \/ k = l,
         \A k \in Pairs(s) : k \in Pairs(n) /\ n.pair[k] = s.pair[k],
         ~ SealedPromise(s, n.pair[l].p)
  PROVE  Follows(s, n, L)
<1>1. Onward(s, n) /\ Given(s, s)
  BY DEF Onward, Tallied
<1>2. \A k \in Pairs(n) : GivenPair(s, k, n.pair[k].p)
  BY <1>1 DEF Given, GivenPair
<1>3. Given(s, n)
  BY <1>1, <1>2 DEF Given, Proms, Jobs, List
<1>. QED  BY <1>1, <1>3, TalliedSame DEF Follows

LEMMA PromiseTallied ==
  ASSUME NEW s, Good(s), NEW L, Tallied(s, L), NEW n, NEW l,
         n.pair = s.pair, n.aggr = s.aggr, n.fns = s.fns, n.jobs = s.jobs,
         \A k \in Proms(n) : k \in Proms(s) \/ k = l,
         \A k \in Proms(s) : n.prom[k] = s.prom[k],
         Pending(n, l), n.prom[l].reactions = <<<<>>, <<>>>>
  PROVE  Follows(s, n, L)
<1>1. Onward(s, n) /\ Given(s, s)
  BY OnwardSame DEF Tallied
<1>2. ASSUME NEW q \in Proms(n), NEW y \in {1, 2}, NEW k \in List(n, q, y)
      PROVE  GivenReaction(s, n.prom[q].reactions[y][k], y)
  <2>1. CASE q \in Proms(s)
    <3>1. k \in List(s, q, y)
      BY <1>2, <2>1 DEF List
    <3>. QED  BY <1>1, <2>1, <3>1 DEF Given
  <2>2. CASE q = l
    BY <1>2, <2>2 DEF List
  <2>. QED  BY <2>1, <2>2
<1>3. \A q \in Proms(n) : GivenPromise(s, q, n.prom[q].state, n.prom[q].result)
  BY <1>1 DEF Given, GivenPromise, Pending
<1>4. Given(s, n)
  BY <1>1, <1>2, <1>3 DEF Given, Pairs, Jobs
<1>. QED  BY <1>1, <1>4, TalliedSame DEF Follows

\* A promise and its pair l are made, to which nothing refers.
Enlarges(s, n, l) ==
  /\ l \notin Pairs(s) /\ n.pair[l].p \notin Proms(s) /\ n.jobs = s.jobs
  /\ \A k \in Pairs(n) : k \in Pairs(s) \/ k = l
  /\ \A k \in Pairs(s) : n.pair[k] = s.pair[k]
  /\ \A q \in Proms(n) : q \in Proms(s) \/ q = n.pair[l].p
  /\ \A q \in Proms(s) : n.prom[q] = s.prom[q]
  /\ n.prom[n.pair[l].p].state = "pending" /\ n.prom[n.pair[l].p].reactions = <<<<>>, <<>>>>

LEMMA CapabilityTallied ==
  ASSUME NEW s, Good(s), NEW L, Tallied(s, L), NEW n, n = js_new_promise_capability(s),
         NEW l, l = Len(n.pair)
  PROVE  Follows(s, n, L) /\ Enlarges(s, n, l)
<1>1. PICK m : m = NewPromise(s)
  OBVIOUS
<1>2. PICK p : p = Len(m.prom)
  OBVIOUS
<1>3. /\ Good(m) /\ Grows(s, m) /\ p \in Proms(m) /\ p \notin Proms(s)
      /\ m.pair = s.pair /\ m.aggr = s.aggr /\ m.fns = s.fns /\ m.jobs = s.jobs
      /\ Pending(m, p) /\ m.prom[p].to[1] # "prom"
      /\ m.prom[p].reactions = <<<<>>, <<>>>>
      /\ \A k \in Proms(m) : k \in Proms(s) \/ k = p
      /\ \A k \in Proms(s) : m.prom[k] = s.prom[k]
  BY <1>1, <1>2, PromiseGood
<1>4. n = js_create_resolving_functions(m, p)
  BY <1>1, <1>2 DEF js_new_promise_capability
<1>5. \A k \in Pairs(m) : m.pair[k].p = p => m.pair[k].done
  BY <1>3, SMTT(60) DEF Good, Refs, Pairs
<1>6. \A k \in Jobs(m) : IsThenable(m, k) => m.jobs[k].p # p
  BY <1>3 DEF Good, Refs, Jobs, IsThenable
<1>7. /\ Good(n) /\ Grows(m, n) /\ l \in Pairs(n) /\ l \notin Pairs(m)
      /\ n.prom = m.prom /\ n.aggr = m.aggr /\ n.fns = m.fns
      /\ n.jobs = m.jobs /\ n.regs = m.regs
      /\ n.pair[l].p = p /\ ~ n.pair[l].done
      /\ \A k \in Pairs(n) : k \in Pairs(m) \/ k = l
      /\ \A k \in Pairs(m) : n.pair[k] = m.pair[k]
  BY <1>3, <1>4, <1>5, <1>6, PairGood
<1>8. Follows(s, m, L)
  BY ONLY <1>3, Good(s), Tallied(s, L), PromiseTallied
<1>9. ~ SealedPromise(m, p)
  BY <1>3, SMTT(60) DEF SealedPromise, Aggrs, Good, Refs, Pairs
<1>10. Follows(m, n, L)
  <2>1. Tallied(m, L) /\ \A k \in Pairs(m) : k \in Pairs(n)
    BY <1>7, <1>8 DEF Follows, Grows
  <2>. QED  BY ONLY <1>3, <1>7, <1>9, <2>1, PairTallied
<1>11. Pairs(m) = Pairs(s) /\ Proms(n) = Proms(m)
  BY <1>3, <1>7 DEF Pairs, Proms
<1>12. Follows(s, n, L)
  BY <1>8, <1>10, FollowsOn
<1>. QED  BY <1>3, <1>7, <1>11, <1>12 DEF Pending, Enlarges

LEMMA ThenTallied ==
  ASSUME NEW s, Good(s), NEW L, Tallied(s, L), NEW p, NEW onF, NEW onR, NEW pair,
         MayThen(s, p, onF, onR, pair), GivenHandler(s, onF, 1), GivenHandler(s, onR, 2),
         ~ Sealed(s, pair), NEW n, n = perform_promise_then(s, p, onF, onR, pair)
  PROVE  Follows(s, n, L)
<1>1. PICK l : l = Len(s.regs) + 1
  OBVIOUS
<1>2. Given(s, s) /\ p \in Proms(s)
  BY DEF Tallied, MayThen
<1>3. CASE Pending(s, p)
  <2>1. Waits(s, n, p, onF, onR, pair, l)
    BY <1>1, <1>3, WaitParts
  <2>2. Onward(s, n) /\ n.aggr = s.aggr
    BY <2>1, OnwardSame DEF Waits
  <2>3. \A f \in n.fns : GivenFunction(s, f)
    BY <1>2, <2>1 DEF Waits, Given
  <2>4. ASSUME NEW q \in Proms(n), NEW y \in {1, 2}, NEW k \in List(n, q, y)
        PROVE  GivenReaction(s, n.prom[q].reactions[y][k], y)
    <3>1. q \in Proms(s)
      BY <2>1 DEF Waits
    <3>2. CASE q # p
      <4>1. n.prom[q] = s.prom[q]
        BY <2>1, <3>1, <3>2 DEF Waits
      <4>2. k \in List(s, q, y)
        BY <2>4, <4>1 DEF List
      <4>. QED  BY <1>2, <3>1, <4>1, <4>2 DEF Given
    <3>3. CASE q = p
      <4>1. PICK h : h = IF y = 1 THEN onF ELSE onR
        OBVIOUS
      <4>2. PICK r : r = [id |-> l, pair |-> pair, handler |-> h]
        OBVIOUS
      <4>3. GivenReaction(s, r, y)
        BY <2>4, <4>1, <4>2 DEF GivenReaction
      <4>4. Lengthens(s, n, p, y, r)
        BY <2>1, <2>4, <4>1, <4>2 DEF Waits
      <4>5. CASE k \in List(s, p, y)
        <5>1. n.prom[p].reactions[y][k] = s.prom[p].reactions[y][k]
          BY <4>4, <4>5 DEF Lengthens
        <5>. QED  BY <1>2, <2>4, <3>3, <4>5, <5>1 DEF Given
      <4>6. CASE k \notin List(s, p, y)
        <5>1. n.prom[p].reactions[y][k] = r
          BY <2>4, <3>3, <4>4, <4>6 DEF Lengthens
        <5>. QED  BY <3>3, <4>3, <5>1
      <4>. QED  BY <4>5, <4>6
    <3>. QED  BY <3>2, <3>3
  <2>5. \A k \in Jobs(n) : GivenJob(s, n.jobs[k])
    BY <1>2, <2>1 DEF Waits, Given
  <2>6. \A i \in Pairs(n) : GivenPair(s, i, n.pair[i].p)
    BY <1>2, <2>1 DEF Waits, Given
  <2>7. \A q \in Proms(n) : GivenPromise(s, q, n.prom[q].state, n.prom[q].result)
    BY <1>2, <2>1 DEF Waits, Given
  <2>8. Given(s, n)
    BY <2>3, <2>4, <2>5, <2>6, <2>7 DEF Given
  <2>. QED  BY <2>2, <2>8, TalliedSame DEF Follows
<1>4. CASE ~ Pending(s, p)
  <2>1. PICK e : e = Len(s.jobs) + 1
    OBVIOUS
  <2>2. PICK j : /\ Runs(s, n, p, j, l, e) /\ j.kind = "reaction" /\ j.id = l /\ j.pair = pair
                 /\ j.arg = s.prom[p].result /\ j.rej = (s.prom[p].state = "rejected")
                 /\ j.handler = IF s.prom[p].state = "rejected" THEN onR ELSE onF
    BY <1>1, <1>4, <2>1, RunParts
  <2>3. n.prom = s.prom /\ n.pair = s.pair /\ n.aggr = s.aggr /\ n.fns = s.fns
    BY <2>2 DEF Runs
  <2>4. Onward(s, n)
    BY <2>3, OnwardSame
  <2>5. GivenJob(s, j)
    <3>1. s.prom[p].state = "rejected" /\ s.prom[p].result = Undefined => AnyReported(s)
      BY <1>2 DEF Given, GivenPromise
    <3>2. GivenHandler(s, j.handler, IF j.rej THEN 2 ELSE 1)
      BY <2>2
    <3>. QED  BY <2>2, <3>1, <3>2 DEF GivenJob
  <2>6. \A k \in Jobs(n) : GivenJob(s, n.jobs[k])
    BY <1>2, <2>2, <2>5 DEF Runs, Given
  <2>7. Given(s, n)
    BY <1>2, <2>3, <2>6 DEF Given, Proms, Pairs, List
  <2>. QED  BY <2>3, <2>4, <2>7, TalliedSame DEF Follows
<1>. QED  BY <1>3, <1>4

LEMMA GiveTallied ==
  ASSUME NEW s, Good(s), NEW L, Tallied(s, L), NEW F, \A f \in F : GivenFunction(s, f),
         NEW n, n = [s EXCEPT !.fns = @ \cup F]
  PROVE  Follows(s, n, L)
<1>1. /\ n.prom = s.prom /\ n.pair = s.pair /\ n.jobs = s.jobs /\ n.aggr = s.aggr
      /\ n.fns = s.fns \cup F
  BY DEF Good, PromiseState
<1>2. Onward(s, n) /\ Given(s, s)
  BY <1>1, OnwardSame DEF Tallied
<1>3. Given(s, n)
  BY <1>1, <1>2 DEF Given, Proms, Pairs, Jobs, List
<1>. QED  BY <1>1, <1>2, <1>3, TalliedSame DEF Follows

\* There is one aggregate.
LEMMA OnlyAggregate ==
  ASSUME NEW s, Good(s), NEW L, Tallied(s, L), NEW a \in Aggrs(s), NEW b \in Aggrs(s)
  PROVE  a = b
<1>1. Len(s.aggr) \in Nat /\ Len(s.aggr) <= 1
  BY StateParts DEF Good, Tallied
<1>. QED  BY <1>1 DEF Aggrs

\* The aggregate goes on counting.
Counts(g, h) ==
  /\ h \in Aggregate /\ h.kind = g.kind /\ h.pair = g.pair /\ h.items = g.items
  /\ h.index \in 0 .. Len(h.items) /\ g.index \in 0 .. h.index /\ g.called \subseteq h.called

LEMMA CountTallied ==
  ASSUME NEW s, Good(s), NEW L, Tallied(s, L), NEW a \in Aggrs(s), NEW g, Counts(s.aggr[a], g),
         NEW M \in {0, 1}, Tally(g, a, M), NEW n, Recounts(s, n), n.aggr[a] = g
  PROVE  Follows(s, n, M)
<1>1. \A b \in Aggrs(s) : b = a
  BY OnlyAggregate
<1>2. Done(s.aggr[a], a) => Done(g, a)
  <2>1. IsFiniteSet(s.aggr[a].called)
    BY DEF Tallied, Tally
  <2>. QED  BY <2>1, DoneStays DEF Counts
<1>3. \A i \in 1 .. s.aggr[a].index : i \in 1 .. g.index
  <2>1. s.aggr[a].index \in 0 .. g.index /\ g.index \in Nat
    BY DEF Counts, Aggregate
  <2>. QED  BY <2>1
<1>4. Onward(s, n)
  BY <1>1, <1>2, <1>3 DEF Onward, Pairs, Counts, Recounts
<1>5. Tallied(n, M)
  BY <1>1, <1>4, TalliedCount DEF Recounts
<1>. QED  BY <1>4, <1>5 DEF Follows

\* The count settles the result, if nothing is left.
LEMMA CountSettles ==
  ASSUME NEW s, Good(s), NEW L, Tallied(s, L), NEW a \in Aggrs(s), NEW g, g = s.aggr[a],
         ~ Internal(s, g.pair), g.remaining = 0,
         NEW n, n = js_promise_resolve_function_call(s, g.pair, Undefined, g.kind = "any")
  PROVE  Good(n) /\ Grows(s, n) /\ Follows(s, n, L)
<1>1. /\ g \in Aggregate /\ g.pair \in Pairs(s) /\ g.index \in 0 .. Len(g.items) /\ L \in {0, 1}
      /\ Tally(g, a, L)
  BY StateParts DEF Good, Refs, Tallied
<1>2. Done(g, a)
  BY <1>1, TallyDone
<1>3. PICK rej : rej = (g.kind = "any")
  OBVIOUS
<1>4. MayReport(s, g.pair, Undefined, rej)
  BY <1>2, <1>3 DEF MayReport, AnyReported, Reported, Undefined
<1>5. MayCall(s, g.pair, Undefined, rej)
  BY <1>1, <1>3, UndefinedPlain, PlainCall
<1>6. n = js_promise_resolve_function_call(s, g.pair, Undefined, rej)
  BY <1>3
<1>7. Good(n) /\ Grows(s, n)
  BY <1>5, <1>6, ResolveGood
<1>8. Follows(s, n, L)
  BY <1>4, <1>5, <1>6, ResolveTallied
<1>. QED  BY <1>7, <1>8

\* An element reports.
LEMMA ElementTallied ==
  ASSUME NEW s, Good(s), NEW L, Tallied(s, L), NEW f, f \in Triples,
         f[1] \in {"fulfilled", "rejected"}, GivenFunction(s, f), NEW v,
         NEW n, n = js_promise_all_resolve_element(s, f, v)
  PROVE  Follows(s, n, L)
<1>1. PICK a : a = f[2]
  OBVIOUS
<1>2. /\ s \in PromiseState /\ a \in Aggrs(s) /\ s.aggr[a] \in Aggregate /\ L \in {0, 1}
      /\ f[3] \in 1 .. s.aggr[a].index /\ Tally(s.aggr[a], a, L)
      /\ s.aggr[a].index \in 0 .. Len(s.aggr[a].items)
  BY <1>1, StateParts DEF Good, Refs, GivenFunction, Tallied
<1>3. PICK C : C = s.aggr[a].called \cup {f}
  OBVIOUS
<1>4. PICK c : c = s.aggr[a].remaining - 1
  OBVIOUS
<1>5. PICK g : g = [s.aggr[a] EXCEPT !.called = C, !.remaining = c]
  OBVIOUS
<1>6. C \in SUBSET Triples /\ c \in Int
  BY <1>2, <1>3, <1>4 DEF Aggregate
<1>7. /\ g \in Aggregate /\ g.pair = s.aggr[a].pair /\ g.items = s.aggr[a].items
      /\ g.index = s.aggr[a].index /\ g.kind = s.aggr[a].kind /\ g.called = C /\ g.remaining = c
  <2>1. g = [[s.aggr[a] EXCEPT !.called = C] EXCEPT !.remaining = c]
    BY <1>5
  <2>. QED  BY <1>2, <1>6, <2>1 DEF Aggregate
<1>8. g.index \in 0 .. Len(g.items)
  BY <1>2, <1>7
<1>9. PICK m : m = [s EXCEPT !.aggr[a] = g]
  OBVIOUS
<1>10. /\ Good(m) /\ Grows(s, m) /\ m.aggr[a] = g /\ a \in Aggrs(m)
       /\ g.pair \in Pairs(m) /\ ~ Internal(m, g.pair) /\ Recounts(s, m)
  BY <1>2, <1>7, <1>8, <1>9, CountGood
<1>11. m = [s EXCEPT !.aggr[a].called = @ \cup {f}, !.aggr[a].remaining = @ - 1]
  <2>1. s.aggr \in Seq(Aggregate)
    BY <1>2, StateParts
  <2>. QED  BY <1>2, <1>3, <1>4, <1>5, <1>9, <2>1 DEF PromiseState, Aggrs
<1>12. \/ n = s
       \/ f \notin s.aggr[a].called /\ n = m
       \/ /\ f \notin s.aggr[a].called /\ m.aggr[a].remaining = 0
          /\ n = js_promise_resolve_function_call(m, s.aggr[a].pair, Undefined, s.aggr[a].kind = "any")
  BY <1>1, <1>11 DEF js_promise_all_resolve_element
<1>13. CASE n = s
  BY <1>13, FollowsSelf
<1>14. CASE f \notin s.aggr[a].called
  <2>1. /\ IsFiniteSet(s.aggr[a].called)
        /\ \A h \in s.aggr[a].called :
              h[1] \in {"fulfilled", "rejected"} /\ h[2] = a /\ h[3] \in 1 .. s.aggr[a].index
        /\ s.aggr[a].remaining = L + s.aggr[a].index - Cardinality(s.aggr[a].called)
        /\ L = 0 => s.aggr[a].index = Len(s.aggr[a].items)
        /\ s.aggr[a].pair # 1
    BY <1>2 DEF Tally
  <2>2. IsFiniteSet(C) /\ Cardinality(C) = Cardinality(s.aggr[a].called) + 1
    BY <1>3, <1>14, <2>1, FS_AddElement
  <2>3. Cardinality(s.aggr[a].called) \in Nat
    BY <2>1, FS_CardinalityType
  <2>4. c = L + s.aggr[a].index - Cardinality(C)
    BY <1>2, <1>4, <2>1, <2>2, <2>3
  <2>5. \A h \in C : h[1] \in {"fulfilled", "rejected"} /\ h[2] = a /\ h[3] \in 1 .. g.index
    BY <1>1, <1>2, <1>3, <1>7, <2>1
  <2>6. Tally(g, a, L)
    BY <1>7, <2>1, <2>2, <2>4, <2>5 DEF Tally
  <2>7. Counts(s.aggr[a], g)
    BY <1>2, <1>3, <1>7, <1>8 DEF Counts
  <2>8. Follows(s, m, L)
    BY <1>2, <1>10, <2>6, <2>7, CountTallied
  <2>9. CASE n = m
    BY <2>8, <2>9
  <2>10. CASE /\ m.aggr[a].remaining = 0
              /\ n = js_promise_resolve_function_call(m, s.aggr[a].pair, Undefined, s.aggr[a].kind = "any")
    <3>1. n = js_promise_resolve_function_call(m, g.pair, Undefined, g.kind = "any")
      BY <1>7, <2>10
    <3>2. Tallied(m, L) /\ g = m.aggr[a] /\ g.remaining = 0
      BY <1>10, <2>8, <2>10 DEF Follows
    <3>3. Follows(m, n, L)
      BY ONLY <1>10, <3>1, <3>2, CountSettles
    <3>. QED  BY <2>8, <3>3, FollowsOn
  <2>. QED  BY <1>12, <1>14, <2>9, <2>10, <1>13
<1>. QED  BY <1>12, <1>13, <1>14

\* The arguments with which a function may be called.
MayReportBy(s, f, v) ==
  /\ GivenFunction(s, f)
  /\ f[1] = "reject" /\ v = Undefined => AnyReported(s)

LEMMA CallTallied ==
  ASSUME NEW s, Good(s), NEW L, Tallied(s, L), NEW f, NEW v, MayCallFunction(s, f, v),
         MayReportBy(s, f, v), NEW n, n = Call(s, f, v)
  PROVE  Follows(s, n, L)
<1>1. CASE f[1] = "resolve"
  <2>1. n = js_promise_resolve_function_call(s, f[2], v, FALSE)
    BY <1>1 DEF Call
  <2>2. MayCall(s, f[2], v, FALSE) /\ MayReport(s, f[2], v, FALSE)
    BY <1>1 DEF MayCallFunction, MayReportBy, MayReport, GivenFunction
  <2>. QED  BY <2>1, <2>2, ResolveTallied
<1>2. CASE f[1] = "reject"
  <2>1. n = js_promise_resolve_function_call(s, f[2], v, TRUE)
    BY <1>2 DEF Call
  <2>2. MayCall(s, f[2], v, TRUE) /\ MayReport(s, f[2], v, TRUE)
    BY <1>2 DEF MayCallFunction, MayReportBy, MayReport
  <2>. QED  BY <2>1, <2>2, ResolveTallied
<1>3. CASE f[1] # "resolve" /\ f[1] # "reject"
  <2>1. n = js_promise_all_resolve_element(s, f, v)
    BY <1>3 DEF Call
  <2>2. f \in Triples /\ f[1] \in {"fulfilled", "rejected"} /\ GivenFunction(s, f)
    BY <1>3 DEF MayCallFunction, Func, MayReportBy
  <2>. QED  BY <2>1, <2>2, ElementTallied
<1>. QED  BY <1>1, <1>2, <1>3

\* The loop ends, and gives up its count.
LEMMA EndTallied ==
  ASSUME NEW s, Good(s), Tallied(s, 1), NEW a \in Aggrs(s), s.aggr[a].index = Len(s.aggr[a].items),
         NEW n, n = EndOfLoop(s, a)
  PROVE  Follows(s, n, 0)
<1>1. /\ s \in PromiseState /\ s.aggr[a] \in Aggregate /\ Tally(s.aggr[a], a, 1)
      /\ s.aggr[a].index \in 0 .. Len(s.aggr[a].items)
  BY StateParts DEF Good, Refs, Tallied
<1>2. PICK c : c = s.aggr[a].remaining - 1
  OBVIOUS
<1>3. PICK g : g = [s.aggr[a] EXCEPT !.remaining = c]
  OBVIOUS
<1>4. /\ g \in Aggregate /\ g.pair = s.aggr[a].pair /\ g.items = s.aggr[a].items
      /\ g.index = s.aggr[a].index /\ g.kind = s.aggr[a].kind /\ g.called = s.aggr[a].called
      /\ g.remaining = c /\ g.index \in 0 .. Len(g.items)
  BY <1>1, <1>2, <1>3 DEF Aggregate
<1>5. PICK m : m = [s EXCEPT !.aggr[a] = g]
  OBVIOUS
<1>6. /\ Good(m) /\ Grows(s, m) /\ m.aggr[a] = g /\ a \in Aggrs(m)
      /\ g.pair \in Pairs(m) /\ ~ Internal(m, g.pair) /\ Recounts(s, m)
  <2>1. /\ g \in Aggregate /\ g.pair = s.aggr[a].pair /\ g.items = s.aggr[a].items
        /\ a \in Aggrs(s) /\ Good(s)
    BY <1>4
  <2>2. g.index \in 0 .. Len(g.items)
    BY <1>4
  <2>. QED  BY <1>1, <1>5, <2>1, <2>2, CountGood
<1>7. m = [s EXCEPT !.aggr[a].remaining = @ - 1]
  BY <1>2, <1>3, <1>5
<1>8. \/ n = m
      \/ /\ m.aggr[a].remaining = 0
         /\ n = js_promise_resolve_function_call(m, s.aggr[a].pair, Undefined, s.aggr[a].kind = "any")
  BY <1>7 DEF EndOfLoop
<1>9. Tally(g, a, 0)
  <2>1. Cardinality(s.aggr[a].called) \in Nat
    BY <1>1, FS_CardinalityType DEF Tally
  <2>2. s.aggr[a].remaining = 1 + s.aggr[a].index - Cardinality(s.aggr[a].called)
    BY <1>1 DEF Tally
  <2>3. s.aggr[a].index \in Nat
    BY <1>1 DEF Aggregate
  <2>4. c = 0 + g.index - Cardinality(g.called)
    BY <1>2, <1>4, <2>1, <2>2, <2>3
  <2>. QED  BY <1>1, <1>4, <2>4 DEF Tally
<1>10. Counts(s.aggr[a], g)
  BY <1>1, <1>4 DEF Counts
<1>11. Follows(s, m, 0)
  BY <1>6, <1>9, <1>10, CountTallied
<1>12. CASE n = m
  BY <1>11, <1>12
<1>13. CASE /\ m.aggr[a].remaining = 0
            /\ n = js_promise_resolve_function_call(m, s.aggr[a].pair, Undefined, s.aggr[a].kind = "any")
  <2>1. n = js_promise_resolve_function_call(m, g.pair, Undefined, g.kind = "any")
    BY <1>4, <1>13
  <2>2. Tallied(m, 0) /\ g = m.aggr[a] /\ g.remaining = 0
    BY <1>6, <1>11, <1>13 DEF Follows
  <2>3. Follows(m, n, 0)
    BY ONLY <1>6, <2>1, <2>2, CountSettles
  <2>. QED  BY <1>11, <2>3, FollowsOn
<1>. QED  BY <1>8, <1>12, <1>13

\* One element more.
LEMMA NextTallied ==
  ASSUME NEW s, Good(s), Tallied(s, 1), NEW a \in Aggrs(s),
         s.aggr[a].index # Len(s.aggr[a].items), NEW n, n = NextElement(s, a)
  PROVE  Follows(s, n, 1)
<1>1. /\ s \in PromiseState /\ s.aggr[a] \in Aggregate /\ Tally(s.aggr[a], a, 1)
      /\ s.aggr[a].index \in 0 .. Len(s.aggr[a].items) /\ s.aggr \in Seq(Aggregate)
  BY StateParts DEF Good, Refs, Tallied
<1>2. PICK i : i = s.aggr[a].index + 1
  OBVIOUS
<1>3. i \in Nat /\ i \in 1 .. Len(s.aggr[a].items)
  <2>1. s.aggr[a].items \in Seq(Triples)
    BY <1>1 DEF Aggregate
  <2>2. Len(s.aggr[a].items) \in Nat
    BY <2>1, SeqParts
  <2>. QED  BY <1>1, <1>2, <2>2
<1>4. PICK c : c = s.aggr[a].remaining + 1
  OBVIOUS
<1>5. PICK g : g = [s.aggr[a] EXCEPT !.index = i, !.remaining = c]
  OBVIOUS
<1>6. /\ g \in Aggregate /\ g.pair = s.aggr[a].pair /\ g.items = s.aggr[a].items
      /\ g.index = i /\ g.kind = s.aggr[a].kind /\ g.called = s.aggr[a].called /\ g.remaining = c
  <2>1. c \in Int
    BY <1>1, <1>4 DEF Aggregate
  <2>2. g = [[s.aggr[a] EXCEPT !.index = i] EXCEPT !.remaining = c]
    BY <1>5
  <2>. QED  BY <1>1, <1>3, <2>1, <2>2 DEF Aggregate
<1>7. g.index \in 0 .. Len(g.items)
  BY <1>3, <1>6
<1>8. PICK m : m = [s EXCEPT !.aggr[a] = g]
  OBVIOUS
<1>9. /\ Good(m) /\ Grows(s, m) /\ m.aggr[a] = g /\ a \in Aggrs(m)
      /\ g.pair \in Pairs(m) /\ ~ Internal(m, g.pair) /\ Recounts(s, m)
  BY <1>1, <1>6, <1>7, <1>8, CountGood
<1>10. m = [s EXCEPT !.aggr[a].index = i, !.aggr[a].remaining = @ + 1]
  BY <1>1, <1>4, <1>5, <1>8 DEF PromiseState, Aggrs
<1>11. Tally(g, a, 1)
  <2>1. Cardinality(s.aggr[a].called) \in Nat
    BY <1>1, FS_CardinalityType DEF Tally
  <2>2. s.aggr[a].remaining = 1 + s.aggr[a].index - Cardinality(s.aggr[a].called)
    BY <1>1 DEF Tally
  <2>3. s.aggr[a].index \in Nat
    BY <1>1 DEF Aggregate
  <2>4. c = 1 + g.index - Cardinality(g.called)
    BY <1>2, <1>4, <1>6, <2>1, <2>2, <2>3
  <2>5. \A k \in 1 .. s.aggr[a].index : k \in 1 .. g.index
    BY <1>2, <1>6, <2>3
  <2>. QED  BY <1>1, <1>6, <2>4, <2>5 DEF Tally
<1>12. Counts(s.aggr[a], g)
  <2>1. s.aggr[a].index \in 0 .. g.index
    BY <1>1, <1>2, <1>6
  <2>. QED  BY <1>6, <1>7, <2>1 DEF Counts
<1>13. Follows(s, m, 1)
  BY <1>9, <1>11, <1>12, CountTallied
<1>14. Tallied(m, 1)
  BY <1>13 DEF Follows
<1>15. PICK f : f = ElementFunctions(s, a, i)
  OBVIOUS
<1>16. PICK v : v = s.aggr[a].items[i]
  OBVIOUS
<1>17. Thenable(s, v)
  BY <1>3, <1>16 DEF Good, Refs
<1>18. /\ (g.kind = "any" /\ f[1] = <<"resolve", g.pair, 0>>) \/ f[1] = <<"fulfilled", a, i>>
       /\ f[2] \in {<<"reject", g.pair, 0>>, <<"rejected", a, i>>}
  BY <1>6, <1>15 DEF ElementFunctions
<1>19. g.pair \in Nat /\ a \in Nat /\ g.pair # 0
  BY <1>6, <1>9 DEF Aggregate, Aggrs, Pairs
<1>20. /\ \A h \in {f[1], f[2]} : Func(m, h)
       /\ \A h \in {f[1], f[2]} : \A k \in Pairs(m) : Internal(m, k) => ~ Uses(h, k)
  <2>1. \A h \in {<<"resolve", g.pair, 0>>, <<"reject", g.pair, 0>>} :
           Func(m, h) /\ \A k \in Pairs(m) : Internal(m, k) => ~ Uses(h, k)
    BY <1>9, <1>19 DEF Func, Uses, Triples
  <2>2. \A h \in {<<"fulfilled", a, i>>, <<"rejected", a, i>>} :
           Func(m, h) /\ \A k \in Pairs(m) : Internal(m, k) => ~ Uses(h, k)
    BY <1>3, <1>9, <1>19 DEF Func, Uses, Triples
  <2>. QED  BY <1>18, <2>1, <2>2
<1>21. GivenHandler(m, f[1], 1) /\ GivenHandler(m, f[2], 2)
  <2>1. i \in 1 .. m.aggr[a].index
    BY <1>3, <1>6, <1>9
  <2>2. \A h \in {<<"fulfilled", a, i>>, <<"rejected", a, i>>} : GivenHandler(m, h, 1) /\ GivenHandler(m, h, 2)
    BY <1>9, <2>1 DEF GivenHandler, GivenFunction
  <2>3. GivenHandler(m, <<"reject", g.pair, 0>>, 2)
    BY DEF GivenHandler, GivenFunction
  <2>4. g.kind = "any" => ~ Sealed(m, g.pair)
    <3>1. \A b \in Aggrs(m) : b = a
      BY <1>9, <1>14, OnlyAggregate
    <3>. QED  BY <1>9, <3>1 DEF Sealed
  <2>5. g.kind = "any" => GivenHandler(m, <<"resolve", g.pair, 0>>, 1)
    BY <2>4 DEF GivenHandler, GivenFunction
  <2>. QED  BY <1>18, <2>2, <2>3, <2>5
<1>22. n = IF v = Foreign THEN [m EXCEPT !.fns = @ \cup {f[1], f[2]}]
           ELSE perform_promise_then(m, v[2], f[1], f[2], 0)
  BY <1>2, <1>10, <1>15, <1>16 DEF NextElement
<1>23. CASE v = Foreign
  <2>1. PICK F : F = {f[1], f[2]}
    OBVIOUS
  <2>2. n = [m EXCEPT !.fns = @ \cup F]
    BY <1>22, <1>23, <2>1
  <2>3. \A h \in F : GivenFunction(m, h)
    BY <1>21, <2>1 DEF GivenHandler
  <2>4. Follows(m, n, 1)
    BY <1>9, <1>14, <2>2, <2>3, GiveTallied
  <2>. QED  BY <1>13, <2>4, FollowsOn
<1>24. CASE v # Foreign
  <2>1. n = perform_promise_then(m, v[2], f[1], f[2], 0)
    BY <1>22, <1>24
  <2>2. v[2] \in Proms(m)
    BY <1>9, <1>17, <1>24 DEF Thenable, Grows
  <2>3. MayThen(m, v[2], f[1], f[2], 0)
    <3>1. ~ Internal(m, 0)
      BY DEF Internal, Pairs
    <3>2. Handler(m, f[1]) /\ Handler(m, f[2])
      BY <1>20 DEF Handler
    <3>. QED  BY <1>20, <2>2, <3>1, <3>2 DEF MayThen
  <2>4. ~ Sealed(m, 0)
    <3>1. \A b \in Aggrs(m) : m.aggr[b].pair \in Pairs(m)
      BY <1>9 DEF Good, Refs
    <3>. QED  BY <3>1 DEF Sealed, Pairs
  <2>5. Follows(m, n, 1)
    BY <1>9, <1>14, <1>21, <2>1, <2>3, <2>4, ThenTallied
  <2>. QED  BY <1>13, <2>5, FollowsOn
<1>. QED  BY <1>23, <1>24

\* The loop has a count of its own until it has ended.
Looping(s, n) ==
  /\ n.calls \in BOOLEAN /\ n.left \in BOOLEAN /\ (n.calls => n.left)
  /\ \E L \in {0, 1} : Follows(s, n.s, L) /\ (n.calls \/ ~ n.left => L = 1)

LEMMA RoundTallied ==
  ASSUME NEW s, NEW r, Good(r.s), Looping(s, r), NEW a \in Aggrs(r.s), NEW n, n = LoopRound(r, a)
  PROVE  Looping(s, n)
<1>1. PICK m : m = r.s
  OBVIOUS
<1>2. CASE r.left
  BY <1>2 DEF LoopRound
<1>3. CASE ~ r.left
  <2>1. Follows(s, m, 1) /\ Tallied(m, 1) /\ Good(m) /\ a \in Aggrs(m)
    BY <1>1, <1>3 DEF Looping, Follows
  <2>2. CASE m.aggr[a].index = Len(m.aggr[a].items)
    <3>1. n.s = EndOfLoop(m, a) /\ n.calls = FALSE /\ n.left = TRUE
      BY <1>1, <1>3, <2>2 DEF LoopRound
    <3>2. Follows(m, n.s, 0)
      BY <2>1, <2>2, <3>1, EndTallied
    <3>3. Follows(s, n.s, 0)
      BY <2>1, <3>2, FollowsOn
    <3>. QED  BY <3>1, <3>3 DEF Looping
  <2>3. CASE m.aggr[a].index # Len(m.aggr[a].items)
    <3>1. n.s = NextElement(m, a) /\ n.calls \in BOOLEAN /\ n.left = n.calls
      BY <1>1, <1>3, <2>3 DEF LoopRound
    <3>2. Follows(m, n.s, 1)
      BY <2>1, <2>3, <3>1, NextTallied
    <3>3. Follows(s, n.s, 1)
      BY <2>1, <3>2, FollowsOn
    <3>. QED  BY <3>1, <3>3 DEF Looping
  <2>. QED  BY <2>2, <2>3
<1>. QED  BY <1>2, <1>3 DEF Looping

\* The loop runs while it has a count of its own.
LEMMA AllTallied ==
  ASSUME NEW s, Good(s), Tallied(s, 1), NEW a \in Aggrs(s), NEW n, n = js_promise_all(s, a)
  PROVE  \E L \in {0, 1} : Follows(s, n.s, L) /\ (n.calls => L = 1)
<1>1. PICK r : r = [s |-> s, calls |-> FALSE, left |-> FALSE]
  OBVIOUS
<1>2. PICK x : x = LoopRound(r, a)
  OBVIOUS
<1>3. PICK y : y = LoopRound(x, a)
  OBVIOUS
<1>4. n = LoopRound(y, a)
  BY <1>1, <1>2, <1>3 DEF js_promise_all
<1>5. r.s = s /\ r.calls = FALSE /\ r.left = FALSE
  BY <1>1
<1>6. Looping(s, r)
  <2>1. Follows(s, r.s, 1)
    BY <1>5, FollowsSelf
  <2>. QED  BY <1>5, <2>1 DEF Looping
<1>7. Good(x.s) /\ a \in Aggrs(x.s)
  BY <1>2, <1>5, RoundGood
<1>8. Good(y.s) /\ a \in Aggrs(y.s)
  BY <1>3, <1>7, RoundGood
<1>9. Looping(s, x)
  BY <1>2, <1>5, <1>6, RoundTallied
<1>10. Looping(s, y)
  BY <1>3, <1>7, <1>9, RoundTallied
<1>11. Looping(s, n)
  BY <1>4, <1>8, <1>10, RoundTallied
<1>. QED  BY <1>11 DEF Looping

LEMMA FinishTallied ==
  ASSUME NEW s, Good(s), NEW L, Tallied(s, L), NEW i \in {0} \cup Pairs(s), ~ Internal(s, i),
         ~ Sealed(s, i), NEW v \in Triples, v[1] = "val", NEW rej \in BOOLEAN,
         rej /\ v = Undefined => AnyReported(s), NEW n, n = Finish(s, i, v, rej)
  PROVE  Follows(s, n, L)
<1>1. CASE i = 0
  <2>1. n = s
    BY <1>1 DEF Finish
  <2>. QED  BY <2>1, FollowsSelf
<1>2. CASE i # 0
  <2>1. i \in Pairs(s) /\ n = js_promise_resolve_function_call(s, i, v, rej)
    BY <1>2 DEF Finish
  <2>2. MayCall(s, i, v, rej) /\ MayReport(s, i, v, rej)
    BY <2>1, PlainCall DEF MayReport
  <2>. QED  BY <2>1, <2>2, ResolveTallied
<1>. QED  BY <1>1, <1>2

-----------------------------------------------------------------------------
(* The frames of the loop.                                                 *)

LEMMA ReportingOn ==
  ASSUME NEW s, Good(s), NEW r, NEW L \in {0, 1}, LoopFrames(s, r, L), NEW n, Follows(s, n, L)
  PROVE  Reporting(n, r)
<1>1. \A i : Sealed(n, i) <=> Sealed(s, i)
  BY OnwardSealed DEF Follows
<1>2. LoopFrames(n, r, L)
  BY <1>1 DEF LoopFrames
<1>. QED  BY <1>2 DEF Reporting, Follows

\* The script of the first frame returns; if it was called by the loop, no
\* other one was.
LEMMA LoopReturns ==
  ASSUME NEW s, NEW r, Frames(s, r), r # <<>>, NEW L, LoopFrames(s, r, L)
  PROVE  /\ LoopFrames(s, Tail(r), L)
         /\ r[1].kind = "element" => L = 1 /\ \A M : LoopFrames(s, Tail(r), M)
         /\ r[1].kind # "element" => ~ Sealed(s, r[1].arg)
<1>1. PICK S : S = [kind : FrameKind, arg : Nat]
  OBVIOUS
<1>2. r \in Seq(S)
  BY <1>1 DEF Frames
<1>3. /\ Len(r) >= 1 /\ Len(r) \in Nat /\ Len(Tail(r)) = Len(r) - 1
      /\ \A k \in 1 .. Len(Tail(r)) : Tail(r)[k] = r[k + 1]
  BY <1>2, TailParts, SeqParts
<1>4. PICK q : q = Tail(r)
  OBVIOUS
<1>5. /\ \A k \in 1 .. Len(q) : k + 1 \in 1 .. Len(r) /\ k + 1 # 1 /\ q[k] = r[k + 1]
      /\ \A k, l \in 1 .. Len(q) : k + 1 = l + 1 => k = l
      /\ 1 \in 1 .. Len(r)
  BY <1>3, <1>4
<1>6. /\ \A k \in 1 .. Len(q) : q[k].kind = "element" => L = 1
      /\ \A k \in 1 .. Len(q) : q[k].kind # "element" => ~ Sealed(s, q[k].arg)
      /\ r[1].kind = "element" => L = 1
      /\ r[1].kind # "element" => ~ Sealed(s, r[1].arg)
  BY <1>5 DEF LoopFrames
<1>7. \A k, l \in 1 .. Len(q) : q[k].kind = "element" /\ q[l].kind = "element" => k = l
  <2>1. TAKE k \in 1 .. Len(q), l \in 1 .. Len(q)
  <2>2. HAVE q[k].kind = "element" /\ q[l].kind = "element"
  <2>3. k + 1 = l + 1
    BY <1>5, <2>2 DEF LoopFrames
  <2>. QED  BY <1>5, <2>3
<1>8. r[1].kind = "element" => \A k \in 1 .. Len(q) : q[k].kind # "element"
  BY <1>5 DEF LoopFrames
<1>9. LoopFrames(s, q, L)
  BY <1>6, <1>7 DEF LoopFrames
<1>10. r[1].kind = "element" => \A M : LoopFrames(s, q, M)
  BY <1>6, <1>7, <1>8 DEF LoopFrames
<1>. QED  BY <1>4, <1>6, <1>9, <1>10

\* The loop calls a script.
LEMMA LoopCalls ==
  ASSUME NEW s, NEW r, Frames(s, r), NEW L, LoopFrames(s, r, L),
         \A k \in 1 .. Len(r) : r[k].kind # "element", NEW f, f.kind = "element"
  PROVE  LoopFrames(s, <<f>> \o r, 1)
<1>1. Len(r) \in Nat /\ \E S : r \in Seq(S)
  BY SeqParts DEF Frames
<1>2. PICK q : q = <<f>> \o r
  OBVIOUS
<1>3. /\ Len(q) = 1 + Len(r) /\ q[1] = f /\ \A k \in 1 .. Len(r) : q[1 + k] = r[k]
  <2>1. PICK S : r \in Seq(S)
    BY <1>1
  <2>. QED  BY <1>2, <2>1
<1>4. \A k \in 1 .. Len(q) : k = 1 \/ \E m \in 1 .. Len(r) : k = 1 + m
  <2>1. Split(1, Len(r), 1 + Len(r))
    BY <1>1, Ranges
  <2>. QED  BY <1>3, <2>1 DEF Split
<1>5. \A k \in 1 .. Len(q) : k = 1 \/ (q[k].kind # "element" /\ ~ Sealed(s, q[k].arg))
  BY <1>3, <1>4 DEF LoopFrames
<1>6. LoopFrames(s, q, 1)
  BY <1>3, <1>5 DEF LoopFrames
<1>. QED  BY <1>2, <1>6

LEMMA NoLoopFrames == \A s, L : LoopFrames(s, <<>>, L)
BY DEF LoopFrames

LEMMA OneLoopFrame ==
  ASSUME NEW s, NEW f, f.kind # "element", ~ Sealed(s, f.arg), NEW L
  PROVE  LoopFrames(s, <<f>>, L)
<1>1. Len(<<f>>) = 1 /\ <<f>>[1] = f /\ \A k \in 1 .. 1 : k = 1
  OBVIOUS
<1>. QED  BY <1>1 DEF LoopFrames

\* Pairs that are not the pair of an aggregate.
LEMMA NotSealed ==
  ASSUME NEW s, Good(s), NEW L, Tallied(s, L)
  PROVE  ~ Sealed(s, 0) /\ ~ Sealed(s, 1) /\ \A i : i \notin Pairs(s) => ~ Sealed(s, i)
<1>1. \A a \in Aggrs(s) : s.aggr[a].pair \in Pairs(s) /\ s.aggr[a].pair # 1
  BY DEF Good, Refs, Tallied, Tally
<1>2. 0 \notin Pairs(s)
  BY DEF Pairs
<1>. QED  BY <1>1, <1>2 DEF Sealed

LEMMA ReportParts ==
  ASSUME Inv, Reporting(st, run)
  PROVE  /\ Good(st) /\ Frames(st, run)
         /\ \E L \in {0, 1} : Tallied(st, L) /\ LoopFrames(st, run, L)
BY InvParts DEF Reporting

-----------------------------------------------------------------------------
(* The steps keep the count.                                               *)

LEMMA InitReports == PromisesInit => Reporting(st, run)
<1>1. HAVE PromisesInit
<1>2. Starting(st, 2) /\ Good(st)
  BY <1>1, InitStart, StartGood
<1>3. /\ Aggrs(st) = {} /\ Jobs(st) = {} /\ Len(st.aggr) = 0
  <2>1. st.aggr = <<>> /\ st.jobs = <<>>
    BY <1>2 DEF Starting
  <2>2. 1 .. 0 = {} /\ Len(<<>>) = 0
    OBVIOUS
  <2>. QED  BY <2>1, <2>2 DEF Aggrs, Jobs
<1>4. \A i : ~ Sealed(st, i) /\ ~ SealedPromise(st, i)
  BY <1>3 DEF Sealed, SealedPromise
<1>5. \A p \in Proms(st) : st.prom[p] = Fresh
  BY <1>2 DEF Starting, Proms
<1>6. Fresh.state = "pending" /\ Fresh.reactions = <<<<>>, <<>>>>
  BY DEF Fresh
<1>7. \A p \in Proms(st), x \in {1, 2} : List(st, p, x) = {}
  BY <1>5, <1>6 DEF List
<1>8. \A f \in st.fns : GivenFunction(st, f)
  <2>1. \A f \in st.fns : f[1] \in {"resolve", "reject"}
    BY <1>2 DEF Starting
  <2>. QED  BY <1>4, <2>1 DEF GivenFunction
<1>9. \A p \in Proms(st) : GivenPromise(st, p, st.prom[p].state, st.prom[p].result)
  BY <1>5, <1>6 DEF GivenPromise
<1>10. Given(st, st)
  BY <1>3, <1>4, <1>7, <1>8, <1>9 DEF Given, GivenPair
<1>11. Tallied(st, 1)
  BY <1>3, <1>10 DEF Tallied
<1>12. LoopFrames(st, run, 1)
  <2>1. PICK f : f = Frame("async", 1)
    OBVIOUS
  <2>2. run = <<f>> /\ f.kind = "async"
    BY <1>1, <2>1 DEF PromisesInit, Frame
  <2>. QED  BY <1>4, <2>2, OneLoopFrame
<1>. QED  BY <1>11, <1>12 DEF Reporting

LEMMA WithResolversReports ==
  ASSUME Inv, Reporting(st, run), js_promise_withResolvers
  PROVE  Reporting(st', run')
<1>1. Good(st) /\ \E L \in {0, 1} : Tallied(st, L) /\ LoopFrames(st, run, L)
  BY ReportParts
<1>2. PICK L \in {0, 1} : Tallied(st, L) /\ LoopFrames(st, run, L)
  BY <1>1
<1>3. PICK s : s = js_new_promise_capability(st)
  OBVIOUS
<1>4. PICK i : i = Len(s.pair)
  OBVIOUS
<1>5. Good(s)
  BY <1>1, <1>3, <1>4, CapabilityGood
<1>6. Follows(st, s, L) /\ i \notin Pairs(st)
  BY <1>1, <1>2, <1>3, <1>4, CapabilityTallied DEF Enlarges
<1>7. PICK F : F = {<<"resolve", i, 0>>, <<"reject", i, 0>>}
  OBVIOUS
<1>8. st' = [s EXCEPT !.fns = @ \cup F] /\ run' = run
  BY <1>3, <1>4, <1>7 DEF js_promise_withResolvers
<1>9. ~ Sealed(s, i)
  BY <1>1, <1>2, <1>6, NotSealed, OnwardSealed DEF Follows
<1>10. \A f \in F : GivenFunction(s, f)
  BY <1>7, <1>9 DEF GivenFunction
<1>11. Tallied(s, L)
  BY <1>6 DEF Follows
<1>12. Follows(s, st', L)
  BY ONLY <1>5, <1>8, <1>10, <1>11, GiveTallied
<1>13. Follows(st, st', L)
  BY <1>6, <1>12, FollowsOn
<1>. QED  BY <1>1, <1>2, <1>8, <1>13, ReportingOn

\* A script calls a function that it holds, with a value that is not Undefined.
LEMMA CallReports ==
  ASSUME Inv, Reporting(st, run), NEW f \in st.fns, NEW v \in Arguments(f), CallFunction(f, v)
  PROVE  Reporting(st', run')
<1>1. Good(st) /\ \E L \in {0, 1} : Tallied(st, L) /\ LoopFrames(st, run, L)
  BY ReportParts
<1>2. PICK L \in {0, 1} : Tallied(st, L) /\ LoopFrames(st, run, L)
  BY <1>1
<1>3. MayCallFunction(st, f, v)
  BY ScriptCalls
<1>4. f[1] = "reject" => v # Undefined
  BY DEF Arguments, One, Undefined
<1>5. MayReportBy(st, f, v)
  BY <1>2, <1>4 DEF MayReportBy, Tallied, Given
<1>6. st' = Call(st, f, v) /\ run' = run
  BY DEF CallFunction
<1>7. Follows(st, st', L)
  BY <1>1, <1>2, <1>3, <1>5, <1>6, CallTallied
<1>. QED  BY <1>1, <1>2, <1>6, <1>7, ReportingOn

\* Handlers of scripts.
LEMMA PlainGiven ==
  ASSUME NEW s, NEW h \in {NoHandler, Script, Resume}
  PROVE  GivenHandler(s, h, 1) /\ GivenHandler(s, h, 2)
BY DEF GivenHandler, GivenFunction, NoHandler, Script, Resume

LEMMA ThenReports ==
  ASSUME Inv, Reporting(st, run), NEW p \in DOMAIN st.prom, NEW onF \in {NoHandler, Script},
         NEW onR \in {NoHandler, Script}, Then(p, onF, onR)
  PROVE  Reporting(st', run')
<1>1. Good(st) /\ \E L \in {0, 1} : Tallied(st, L) /\ LoopFrames(st, run, L)
  BY ReportParts
<1>2. PICK L \in {0, 1} : Tallied(st, L) /\ LoopFrames(st, run, L)
  BY <1>1
<1>3. PICK s : s = js_new_promise_capability(st)
  OBVIOUS
<1>4. PICK l : l = Len(s.pair)
  OBVIOUS
<1>5. Good(s) /\ Grows(st, s) /\ l \in Pairs(s) /\ ~ Internal(s, l)
  BY <1>1, <1>3, <1>4, CapabilityGood
<1>6. Follows(st, s, L) /\ l \notin Pairs(st)
  BY <1>1, <1>2, <1>3, <1>4, CapabilityTallied DEF Enlarges
<1>7. st' = perform_promise_then(s, p, onF, onR, l) /\ run' = run
  BY <1>3, <1>4 DEF Then, js_promise_then
<1>8. MayThen(s, p, onF, onR, l)
  <2>1. Handler(s, onF) /\ Handler(s, onR) /\ \A i : ~ Uses(onF, i) /\ ~ Uses(onR, i)
    BY PlainHandlers
  <2>2. p \in Proms(s)
    BY <1>5, InvParts DEF Grows
  <2>. QED  BY <1>5, <2>1, <2>2 DEF MayThen
<1>9. ~ Sealed(s, l)
  BY <1>1, <1>2, <1>6, NotSealed, OnwardSealed DEF Follows
<1>10. GivenHandler(s, onF, 1) /\ GivenHandler(s, onR, 2) /\ Tallied(s, L)
  BY <1>6, PlainGiven DEF Follows
<1>11. Follows(s, st', L)
  BY <1>5, <1>7, <1>8, <1>9, <1>10, ThenTallied
<1>12. Follows(st, st', L)
  BY <1>6, <1>11, FollowsOn
<1>. QED  BY <1>1, <1>2, <1>7, <1>12, ReportingOn

LEMMA AwaitReports ==
  ASSUME Inv, Reporting(st, run), NEW p \in DOMAIN st.prom, Await(p)
  PROVE  Reporting(st', run')
<1>1. Good(st) /\ \E L \in {0, 1} : Tallied(st, L) /\ LoopFrames(st, run, L)
  BY ReportParts
<1>2. PICK L \in {0, 1} : Tallied(st, L) /\ LoopFrames(st, run, L)
  BY <1>1
<1>3. MayThen(st, p, Resume, Resume, 0)
  <2>1. Handler(st, Resume) /\ \A i : ~ Uses(Resume, i)
    BY PlainHandlers
  <2>2. ~ Internal(st, 0) /\ p \in Proms(st)
    BY InvParts DEF Internal, Pairs
  <2>. QED  BY <2>1, <2>2 DEF MayThen
<1>4. GivenHandler(st, Resume, 1) /\ GivenHandler(st, Resume, 2) /\ ~ Sealed(st, 0)
  BY <1>1, <1>2, PlainGiven, NotSealed
<1>5. st' = perform_promise_then(st, p, Resume, Resume, 0) /\ run' = <<>>
  BY DEF Await
<1>6. Follows(st, st', L)
  BY <1>1, <1>2, <1>3, <1>4, <1>5, ThenTallied
<1>. QED  BY <1>1, <1>2, <1>5, <1>6, NoLoopFrames, ReportingOn

\* A script returns or throws; if the loop called it, the loop goes on or fails.
LEMMA ReturnReports ==
  ASSUME Inv, Reporting(st, run), NEW rej \in BOOLEAN, Return(One, rej)
  PROVE  Reporting(st', run')
<1>1. Good(st) /\ Frames(st, run) /\ \E L \in {0, 1} : Tallied(st, L) /\ LoopFrames(st, run, L)
  BY ReportParts
<1>2. PICK L \in {0, 1} : Tallied(st, L) /\ LoopFrames(st, run, L)
  BY <1>1
<1>3. PICK f : f = run[1]
  OBVIOUS
<1>4. run # <<>>
  BY DEF Return
<1>5. FrameOK(st, f)
  BY <1>1, <1>3, <1>4, FrameFirst
<1>6. /\ LoopFrames(st, Tail(run), L)
      /\ f.kind = "element" => L = 1 /\ \A M : LoopFrames(st, Tail(run), M)
      /\ f.kind # "element" => ~ Sealed(st, f.arg)
  BY <1>1, <1>2, <1>3, <1>4, LoopReturns
<1>7. One # Undefined
  BY DEF One, Undefined
<1>8. CASE f.kind \in {"async", "handler", "then"}
  <2>1. f.arg \in {0} \cup Pairs(st) /\ ~ Internal(st, f.arg) /\ ~ Sealed(st, f.arg)
    BY <1>5, <1>6, <1>8 DEF FrameOK
  <2>2. ASSUME NEW r \in BOOLEAN, NEW n, n = Finish(st, f.arg, One, r) PROVE Follows(st, n, L)
    BY <1>1, <1>2, <1>7, <2>1, <2>2, FinishTallied, OnePlain
  <2>3. (\E r \in BOOLEAN : st' = Finish(st, f.arg, One, r)) \/ st' = st
    BY <1>3, <1>8 DEF Return
  <2>4. run' = Tail(run)
    BY <1>3, <1>8 DEF Return
  <2>5. Follows(st, st, L)
    BY <1>2, FollowsSelf
  <2>6. Follows(st, st', L)
    BY <2>2, <2>3, <2>5
  <2>. QED  BY <1>1, <1>6, <2>4, <2>6, ReportingOn
<1>9. CASE f.kind = "element"
  <2>1. f.arg \in Aggrs(st) /\ Tallied(st, 1) /\ LoopFrames(st, run, 1)
    BY <1>2, <1>5, <1>6, <1>9 DEF FrameOK
  <2>2. PICK r : r = js_promise_all(st, f.arg)
    OBVIOUS
  <2>3. PICK i : i = st.aggr[f.arg].pair
    OBVIOUS
  <2>4. \/ st' = js_promise_resolve_function_call(st, i, One, TRUE) /\ run' = Tail(run)
        \/ st' = r.s /\ run' = IF r.calls THEN run ELSE Tail(run)
    BY <1>3, <1>9, <2>2, <2>3 DEF Return
  <2>5. CASE st' = js_promise_resolve_function_call(st, i, One, TRUE) /\ run' = Tail(run)
    <3>1. i \in Pairs(st) /\ ~ Internal(st, i)
      BY <1>1, <2>1, <2>3 DEF Good, Refs, Owned
    <3>2. MayCall(st, i, One, TRUE) /\ MayReport(st, i, One, TRUE)
      BY <1>7, <3>1, OnePlain, PlainCall DEF MayReport
    <3>3. Follows(st, st', 1)
      BY <1>1, <2>1, <2>5, <3>2, ResolveTallied
    <3>. QED  BY <1>1, <1>6, <1>9, <2>5, <3>3, ReportingOn
  <2>6. CASE st' = r.s /\ run' = IF r.calls THEN run ELSE Tail(run)
    <3>1. PICK M \in {0, 1} : Follows(st, r.s, M) /\ (r.calls => M = 1)
      BY <1>1, <2>1, <2>2, AllTallied
    <3>2. CASE r.calls
      BY <1>1, <2>1, <2>6, <3>1, <3>2, ReportingOn
    <3>3. CASE ~ r.calls
      BY <1>1, <1>6, <1>9, <2>6, <3>1, <3>3, ReportingOn
    <3>. QED  BY <3>2, <3>3
  <2>. QED  BY <2>4, <2>5, <2>6
<1>. QED  BY <1>5, <1>8, <1>9 DEF FrameOK, FrameKind

\* The first job is taken, and may be in the log.
LEMMA PopTallied ==
  ASSUME NEW s, Good(s), NEW L, Tallied(s, L), NEW m, Pops(s, m), NEW n,
         n.prom = m.prom, n.pair = m.pair, n.aggr = m.aggr, n.fns = m.fns, n.jobs = m.jobs
  PROVE  Follows(s, n, L) /\ GivenJob(n, s.jobs[1])
<1>1. /\ n.prom = s.prom /\ n.pair = s.pair /\ n.aggr = s.aggr /\ n.fns = s.fns /\ 1 \in Jobs(s)
      /\ \A k \in Jobs(n) : k + 1 \in Jobs(s) /\ n.jobs[k] = s.jobs[k + 1]
  BY DEF Pops, Jobs
<1>2. Onward(s, n) /\ Given(s, s)
  BY <1>1, OnwardSame DEF Tallied
<1>3. \A k \in Jobs(n) : GivenJob(s, n.jobs[k])
  BY <1>1, <1>2 DEF Given
<1>4. Given(s, n)
  BY <1>1, <1>2, <1>3 DEF Given, Proms, Pairs, List
<1>5. GivenJob(n, s.jobs[1])
  BY <1>1, <1>2, OnwardGiven DEF Given
<1>. QED  BY <1>1, <1>2, <1>4, <1>5, TalliedSame DEF Follows

LEMMA ReactionReports ==
  ASSUME Inv, Reporting(st, run), run = <<>>, st.jobs # <<>>, NEW s, s = [st EXCEPT !.jobs = Tail(@)],
         NEW j, j = Head(st.jobs), promise_reaction_job(s, j)
  PROVE  Reporting(st', run')
<1>1. Good(st) /\ \E L \in {0, 1} : Tallied(st, L) /\ LoopFrames(st, run, L)
  BY ReportParts
<1>2. PICK L \in {0, 1} : Tallied(st, L)
  BY <1>1
<1>3. PICK n : n = [s EXCEPT !.log = Append(@, j.id)]
  OBVIOUS
<1>4. /\ j.kind = "reaction"
      /\ j.handler = Script => st' = n /\ run' = <<Frame("handler", j.pair)>>
      /\ j.handler = Resume => st' = n /\ run' = <<Frame("async", 1)>>
      /\ j.handler = NoHandler => st' = Finish(n, j.pair, j.arg, j.rej) /\ run' = run
      /\ j.handler \notin {Script, Resume, NoHandler} =>
            st' = Finish(Call(n, j.handler, j.arg), j.pair, Undefined, FALSE) /\ run' = run
  <2>1. ReactionStep(n, j)
    BY <1>3, ReactionSteps
  <2>. QED  BY <2>1 DEF ReactionStep
<1>5. ReactionReady(st, n, j)
  BY <1>1, <1>3, <1>4, PopReaction, Zenon
<1>6. /\ Good(n) /\ Grows(st, n) /\ j.arg \in Triples /\ j.rej \in BOOLEAN
      /\ j.pair \in {0} \cup Pairs(n) /\ ~ Internal(n, j.pair) /\ j.arg[1] = "val"
  BY <1>5 DEF ReactionReady
<1>7. Follows(st, n, L) /\ GivenJob(n, j)
  <2>1. Pops(st, s) /\ j = st.jobs[1]
    BY <1>1, PopParts DEF Good
  <2>2. s \in PromiseState
    BY <2>1 DEF Pops
  <2>3. n.prom = s.prom /\ n.pair = s.pair /\ n.aggr = s.aggr /\ n.fns = s.fns /\ n.jobs = s.jobs
    BY ONLY <1>3, <2>2 DEF PromiseState
  <2>. QED  BY ONLY <1>1, <1>2, <2>1, <2>3, PopTallied
<1>8. /\ GivenHandler(n, j.handler, IF j.rej THEN 2 ELSE 1) /\ ~ Sealed(n, j.pair)
      /\ j.rej /\ j.arg = Undefined => AnyReported(n)
  BY <1>4, <1>7 DEF GivenJob
<1>9. Tallied(n, L)
  BY <1>7 DEF Follows
<1>10. ASSUME Follows(n, st', L), run' = <<>> PROVE Reporting(st', run')
  BY <1>6, <1>10, NoLoopFrames, ReportingOn
<1>11. CASE j.handler = Script
  <2>1. PICK f : f = Frame("handler", j.pair)
    OBVIOUS
  <2>2. f.kind # "element" /\ f.arg = j.pair
    BY <2>1 DEF Frame
  <2>3. LoopFrames(n, <<f>>, L)
    BY <1>8, <2>2, OneLoopFrame
  <2>. QED  BY <1>4, <1>9, <1>11, <2>1, <2>3 DEF Reporting
<1>12. CASE j.handler = Resume
  <2>1. PICK f : f = Frame("async", 1)
    OBVIOUS
  <2>2. f.kind # "element" /\ f.arg = 1
    BY <2>1 DEF Frame
  <2>3. LoopFrames(n, <<f>>, L)
    BY <1>6, <1>9, <2>2, NotSealed, OneLoopFrame
  <2>. QED  BY <1>4, <1>9, <1>12, <2>1, <2>3 DEF Reporting
<1>13. CASE j.handler = NoHandler
  <2>1. st' = Finish(n, j.pair, j.arg, j.rej) /\ run' = <<>>
    BY <1>4, <1>13
  <2>2. Follows(n, st', L)
    BY <1>6, <1>8, <1>9, <2>1, FinishTallied
  <2>. QED  BY <1>10, <2>1, <2>2
<1>14. CASE j.handler \notin {Script, Resume, NoHandler}
  <2>1. PICK m : m = Call(n, j.handler, j.arg)
    OBVIOUS
  <2>2. st' = Finish(m, j.pair, Undefined, FALSE) /\ run' = <<>>
    BY <1>4, <1>14, <2>1
  <2>3. MayCallFunction(n, j.handler, j.arg)
    BY <1>5, <1>14, ReactionCalls
  <2>4. MayReportBy(n, j.handler, j.arg)
    BY <1>6, <1>8 DEF MayReportBy, GivenHandler
  <2>5. Good(m) /\ Grows(n, m)
    BY <1>6, <2>1, <2>3, CallGood
  <2>6. Follows(n, m, L)
    BY <1>6, <1>9, <2>1, <2>3, <2>4, CallTallied
  <2>7. j.pair \in {0} \cup Pairs(m) /\ ~ Internal(m, j.pair)
    BY <1>6, <2>5, PairStays
  <2>8. Tallied(m, L) /\ ~ Sealed(m, j.pair)
    BY <1>6, <1>8, <2>6, OnwardSealed DEF Follows
  <2>9. Follows(m, st', L)
    BY <2>2, <2>5, <2>7, <2>8, FinishTallied, UndefinedPlain
  <2>. QED  BY <1>10, <2>2, <2>6, <2>9, FollowsOn
<1>. QED  BY <1>11, <1>12, <1>13, <1>14

LEMMA ThenableReports ==
  ASSUME Inv, Reporting(st, run), run = <<>>, st.jobs # <<>>, NEW s, s = [st EXCEPT !.jobs = Tail(@)],
         NEW j, j = Head(st.jobs), js_promise_resolve_thenable_job(s, j)
  PROVE  Reporting(st', run')
<1>1. Good(st) /\ \E L \in {0, 1} : Tallied(st, L) /\ LoopFrames(st, run, L)
  BY ReportParts
<1>2. PICK L \in {0, 1} : Tallied(st, L)
  BY <1>1
<1>3. j.kind = "thenable"
  BY DEF js_promise_resolve_thenable_job
<1>4. ThenableReady(st, s, j)
  BY <1>1, <1>3, PopThenable, Zenon
<1>5. PICK p : p = j.p
  OBVIOUS
<1>6. /\ Good(s) /\ Grows(st, s)
      /\ p \in Proms(s) /\ Pending(s, p) /\ Thenable(s, j.v) /\ s.prom[p].to = j.v
      /\ \A k \in Pairs(s) : s.pair[k].p = p => s.pair[k].done
      /\ \A k \in Jobs(s) : IsThenable(s, k) => s.jobs[k].p # p
  BY <1>4, <1>5 DEF ThenableReady
<1>7. Follows(st, s, L) /\ GivenJob(s, j)
  <2>1. Pops(st, s) /\ j = st.jobs[1]
    BY <1>1, PopParts DEF Good
  <2>. QED  BY ONLY <1>1, <1>2, <2>1, PopTallied
<1>8. ~ SealedPromise(s, p) /\ Tallied(s, L)
  BY <1>3, <1>5, <1>7 DEF GivenJob, Follows
<1>9. PICK n : n = js_create_resolving_functions(s, p)
  OBVIOUS
<1>10. PICK i : i = Len(n.pair)
  OBVIOUS
<1>11. /\ Good(n) /\ Grows(s, n) /\ i \in Pairs(n) /\ i \notin Pairs(s)
       /\ n.prom = s.prom /\ n.aggr = s.aggr /\ n.fns = s.fns /\ n.jobs = s.jobs
       /\ n.pair[i].p = p /\ ~ n.pair[i].done
       /\ \A k \in Pairs(n) : k \in Pairs(s) \/ k = i
       /\ \A k \in Pairs(s) : n.pair[k] = s.pair[k]
  BY ONLY <1>6, <1>9, <1>10, PairGood
<1>12. Follows(s, n, L)
  <2>1. /\ ~ SealedPromise(s, n.pair[i].p) /\ Good(s) /\ Tallied(s, L)
        /\ \A k \in Pairs(s) : k \in Pairs(n)
    BY <1>6, <1>8, <1>11 DEF Grows
  <2>. QED  BY ONLY <1>11, <2>1, PairTallied
<1>13. Tallied(n, L) /\ ~ Sealed(n, i) /\ ~ Sealed(n, 0)
  <2>1. Tallied(n, L)
    BY <1>12 DEF Follows
  <2>2. ~ Sealed(s, i) /\ ~ Sealed(s, 0)
    BY <1>6, <1>8, <1>11, NotSealed
  <2>. QED  BY <1>6, <1>12, <2>1, <2>2, OnwardSealed DEF Follows
<1>14. PICK f : f = <<"resolve", i, 0>>
  OBVIOUS
<1>15. PICK g : g = <<"reject", i, 0>>
  OBVIOUS
<1>16. f[1] = "resolve" /\ g[1] = "reject" /\ f[2] = i /\ g[2] = i
  BY <1>14, <1>15
<1>17. GivenHandler(n, f, 1) /\ GivenHandler(n, g, 2)
  BY <1>13, <1>16 DEF GivenHandler, GivenFunction
<1>18. CASE j.v = Foreign
  <2>1. PICK F : F = {f, g}
    OBVIOUS
  <2>2. PICK h : h = Frame("then", i)
    OBVIOUS
  <2>3. st' = [n EXCEPT !.fns = @ \cup F] /\ run' = <<h>>
    BY <1>5, <1>9, <1>10, <1>14, <1>15, <1>18, <2>1, <2>2 DEF js_promise_resolve_thenable_job
  <2>4. \A e \in F : GivenFunction(n, e)
    BY <1>17, <2>1 DEF GivenHandler
  <2>5. Follows(n, st', L)
    BY ONLY <1>11, <1>13, <2>3, <2>4, GiveTallied
  <2>6. h.kind # "element" /\ h.arg = i
    BY <2>2 DEF Frame
  <2>7. LoopFrames(n, <<h>>, L)
    BY <1>13, <2>6, OneLoopFrame
  <2>. QED  BY <1>11, <2>3, <2>5, <2>7, ReportingOn
<1>19. CASE j.v # Foreign
  <2>1. PICK q : q = j.v[2]
    OBVIOUS
  <2>2. st' = perform_promise_then(n, q, f, g, 0) /\ run' = <<>>
    BY <1>5, <1>9, <1>10, <1>14, <1>15, <1>19, <2>1 DEF js_promise_resolve_thenable_job
  <2>3. MayThen(n, q, f, g, 0)
    <3>1. q \in Proms(n)
      BY <1>6, <1>11, <1>19, <2>1 DEF Thenable, Grows
    <3>2. Source(n, i) = q
      BY <1>6, <1>11, <2>1 DEF Source
    <3>3. Func(n, f) /\ Func(n, g)
      BY <1>11, <1>14, <1>15, PairFunctions
    <3>4. Handler(n, f) /\ Handler(n, g) /\ ~ Internal(n, 0)
      BY <3>3 DEF Handler, Internal, Pairs
    <3>5. \A k : (Uses(f, k) => k = i) /\ (Uses(g, k) => k = i)
      BY <1>16 DEF Uses
    <3>. QED  BY <1>16, <3>1, <3>2, <3>4, <3>5 DEF MayThen
  <2>4. Follows(n, st', L)
    BY <1>11, <1>13, <1>17, <2>2, <2>3, ThenTallied
  <2>. QED  BY <1>11, <2>2, <2>4, NoLoopFrames, ReportingOn
<1>. QED  BY <1>18, <1>19

\* The first aggregate: nothing refers to its pair and its promise.
LEMMA CombineTallied ==
  ASSUME Inv, NEW L, Tallied(st, L), NEW s, NEW l, NEW g, NEW m, NEW r, Combines(s, l, g, m, r)
  PROVE  /\ Tallied(m, 1) /\ 1 \in Aggrs(m) /\ \A i \in {0} \cup Pairs(st) : ~ Sealed(m, i)
         /\ Aggrs(st) = {}
<1>1. /\ s = js_new_promise_capability(st) /\ l = Len(s.pair) /\ Good(s)
      /\ g \in Aggregate /\ g.pair = l /\ g.index = 0 /\ g.remaining = 1 /\ g.called = {}
      /\ m.prom = s.prom /\ m.pair = s.pair /\ m.jobs = s.jobs /\ m.fns = s.fns
      /\ Len(m.aggr) = 1 /\ m.aggr[1] = g
  BY DEF Combines
<1>2. Good(st) /\ Refs(st)
  BY InvParts DEF Good
<1>3. PICK q : q = s.pair[l].p
  OBVIOUS
<1>4. /\ Follows(st, s, L) /\ l \notin Pairs(st) /\ q \notin Proms(st) /\ s.jobs = st.jobs
      /\ \A k \in Pairs(s) : k \in Pairs(st) \/ k = l
      /\ \A k \in Pairs(st) : s.pair[k] = st.pair[k]
      /\ \A p \in Proms(s) : p \in Proms(st) \/ p = q
      /\ \A p \in Proms(st) : s.prom[p] = st.prom[p]
      /\ s.prom[q].state = "pending" /\ s.prom[q].reactions = <<<<>>, <<>>>>
  <2>1. s = js_new_promise_capability(st) /\ l = Len(s.pair) /\ Good(st) /\ Tallied(st, L)
    BY <1>1, <1>2
  <2>2. Follows(st, s, L) /\ Enlarges(st, s, l)
    BY ONLY <2>1, CapabilityTallied
  <2>. QED  BY <1>3, <2>2 DEF Enlarges
<1>5. s.fns = st.fns
  BY <1>1, <1>2, CapabilityGood
<1>6. Aggrs(st) = {} /\ Aggrs(m) = {1}
  <2>1. Len(st.aggr) = 0
    BY DEF Combines
  <2>2. 1 .. 0 = {} /\ 1 .. 1 = {1}
    OBVIOUS
  <2>. QED  BY <1>1, <2>1, <2>2 DEF Aggrs
<1>7. 1 \in Pairs(st) /\ 0 \notin Pairs(s)
  <2>1. Len(st.pair) \in Nat /\ Len(st.pair) > 0
    BY <1>2, StateParts DEF Good
  <2>. QED  BY <2>1 DEF Pairs
<1>8. Tally(g, 1, 1)
  <2>1. IsFiniteSet({}) /\ Cardinality({}) = 0
    BY FS_EmptySet
  <2>2. l # 1
    BY <1>4, <1>7
  <2>. QED  BY <1>1, <2>1, <2>2 DEF Tally
<1>9. \A i : (Sealed(m, i) => i = l) /\ (SealedPromise(m, i) => i = q /\ Sealed(m, l))
  BY <1>1, <1>3, <1>6 DEF Sealed, SealedPromise
<1>10. l # 0
  <2>1. l \in Pairs(s)
    BY <1>1, <1>2, CapabilityGood
  <2>. QED  BY <1>7, <2>1
<1>11. \A i \in {0} \cup Pairs(st) : ~ Sealed(m, i)
  BY <1>4, <1>9, <1>10
<1>12. ~ AnyReported(st)
  BY <1>6 DEF AnyReported
<1>13. Given(st, st)
  BY DEF Tallied
<1>14. ASSUME NEW f, Func(st, f) PROVE GivenFunction(m, f)
  BY <1>6, <1>11, <1>14 DEF GivenFunction, Func
<1>15. ASSUME NEW h, Handler(st, h), NEW x, GivenHandler(st, h, x) PROVE GivenHandler(m, h, x)
  <2>1. CASE h \in {NoHandler, Script, Resume}
    BY <2>1 DEF GivenHandler, GivenFunction, NoHandler, Script, Resume
  <2>2. CASE Func(st, h)
    BY <1>14, <1>15, <2>2 DEF GivenHandler
  <2>. QED  BY <1>15, <2>1, <2>2 DEF Handler
<1>16. \A f \in m.fns : GivenFunction(m, f)
  BY <1>1, <1>2, <1>5, <1>14 DEF Refs
<1>17. ASSUME NEW p \in Proms(m), NEW x \in {1, 2}, NEW k \in List(m, p, x)
       PROVE  GivenReaction(m, m.prom[p].reactions[x][k], x)
  <2>1. p \in Proms(s) /\ k \in List(s, p, x)
    BY <1>1 DEF Proms, List
  <2>2. p # q
    <3>1. ASSUME p = q PROVE FALSE
      <4>1. s.prom[p].reactions[x] = <<>>
        BY <1>4, <3>1
      <4>. QED  BY <2>1, <4>1 DEF List
    <3>. QED  BY <3>1
  <2>3. p \in Proms(st) /\ s.prom[p] = st.prom[p]
    BY <1>4, <2>1, <2>2
  <2>4. k \in List(st, p, x)
    BY <2>1, <2>3 DEF List
  <2>5. PICK e : e = st.prom[p].reactions[x][k]
    OBVIOUS
  <2>6. /\ Handler(st, e.handler) /\ e.pair \in {0} \cup Pairs(st) /\ GivenHandler(st, e.handler, x)
    BY <1>2, <1>13, <2>3, <2>4, <2>5 DEF Refs, Given, GivenReaction
  <2>7. GivenReaction(m, e, x)
    BY <1>11, <1>15, <2>6 DEF GivenReaction
  <2>. QED  BY <1>1, <2>3, <2>5, <2>7
<1>18. ASSUME NEW k \in Jobs(m) PROVE GivenJob(m, m.jobs[k])
  <2>1. k \in Jobs(st) /\ m.jobs[k] = st.jobs[k]
    BY <1>1, <1>4 DEF Jobs
  <2>2. PICK j : j = st.jobs[k]
    OBVIOUS
  <2>3. GivenJob(st, j)
    BY <1>13, <2>1, <2>2 DEF Given
  <2>4. /\ j.kind = "reaction" => Handler(st, j.handler) /\ j.pair \in {0} \cup Pairs(st)
        /\ j.kind = "thenable" => j.p \in Proms(st)
    BY <1>2, <2>1, <2>2 DEF Refs, IsReaction, IsThenable
  <2>5. j.kind = "reaction" => GivenHandler(m, j.handler, IF j.rej THEN 2 ELSE 1)
    BY <1>15, <2>3, <2>4 DEF GivenJob
  <2>6. GivenJob(m, j)
    BY <1>4, <1>9, <1>11, <1>12, <2>3, <2>4, <2>5 DEF GivenJob
  <2>. QED  BY <2>1, <2>2, <2>6
<1>19. ASSUME NEW i \in Pairs(m) PROVE GivenPair(m, i, m.pair[i].p)
  <2>1. CASE i = l
    BY <1>9, <2>1 DEF GivenPair
  <2>2. CASE i \in Pairs(st)
    <3>1. m.pair[i].p \in Proms(st)
      BY <1>1, <1>2, <1>4, <2>2 DEF Refs
    <3>. QED  BY <1>4, <1>9, <3>1 DEF GivenPair
  <2>. QED  BY <1>1, <1>4, <2>1, <2>2 DEF Pairs
<1>20. ASSUME NEW p \in Proms(m) PROVE GivenPromise(m, p, m.prom[p].state, m.prom[p].result)
  <2>1. CASE p = q
    BY <1>1, <1>4, <2>1 DEF GivenPromise
  <2>2. CASE p \in Proms(st)
    <3>1. m.prom[p] = st.prom[p]
      BY <1>1, <1>4, <2>2
    <3>2. GivenPromise(st, p, st.prom[p].state, st.prom[p].result) /\ ~ SealedPromise(m, p)
      BY <1>4, <1>9, <1>13, <2>2 DEF Given
    <3>. QED  BY <1>12, <3>1, <3>2 DEF GivenPromise
  <2>. QED  BY <1>1, <1>4, <2>1, <2>2 DEF Proms
<1>21. Given(m, m)
  BY <1>16, <1>17, <1>18, <1>19, <1>20 DEF Given
<1>22. Tallied(m, 1)
  BY <1>1, <1>6, <1>8, <1>21 DEF Tallied
<1>. QED  BY <1>6, <1>11, <1>22

LEMMA CombineReports ==
  ASSUME Inv, Reporting(st, run), NEW kind \in Kinds, NEW x \in {Foreign} \cup Promised,
         NEW y \in {Foreign} \cup Promised, Combine(kind, <<x, y>>)
  PROVE  Reporting(st', run')
<1>1. Good(st) /\ Frames(st, run) /\ \E L \in {0, 1} : Tallied(st, L) /\ LoopFrames(st, run, L)
  BY ReportParts
<1>2. PICK L \in {0, 1} : Tallied(st, L) /\ LoopFrames(st, run, L)
  BY <1>1
<1>3. PICK s, l, g, m, r : Combines(s, l, g, m, r)
  BY CombineSteps
<1>4. /\ Tallied(m, 1) /\ 1 \in Aggrs(m) /\ \A i \in {0} \cup Pairs(st) : ~ Sealed(m, i)
      /\ Aggrs(st) = {}
  BY <1>2, <1>3, CombineTallied
<1>5. /\ Good(m) /\ r = js_promise_all(m, 1) /\ Grows(st, s) /\ Grows(s, m)
      /\ st' = r.s /\ run' = IF r.calls THEN <<Frame("element", 1)>> \o run ELSE run
  BY <1>3 DEF Combines
<1>6. PICK M \in {0, 1} : Follows(m, r.s, M) /\ (r.calls => M = 1)
  BY <1>4, <1>5, AllTallied
<1>7. \A k \in 1 .. Len(run) : run[k].kind # "element" /\ run[k].arg \in {0} \cup Pairs(st)
  BY <1>1, <1>4 DEF Frames, FrameOK
<1>8. \A N : LoopFrames(m, run, N)
  BY <1>4, <1>7 DEF LoopFrames
<1>9. CASE r.calls
  <2>1. PICK f : f = Frame("element", 1)
    OBVIOUS
  <2>2. f.kind = "element"
    BY <2>1 DEF Frame
  <2>3. Frames(m, run)
    BY <1>1, <1>5, FramesGrow, GrowsTransitive DEF Good
  <2>4. LoopFrames(m, <<f>> \o run, 1)
    BY <1>7, <1>8, <2>2, <2>3, LoopCalls
  <2>. QED  BY <1>5, <1>6, <1>9, <2>1, <2>4, ReportingOn
<1>10. CASE ~ r.calls
  BY <1>5, <1>6, <1>8, <1>10, ReportingOn
<1>. QED  BY <1>9, <1>10

\* A script that returns an object was not called by the loop.
LEMMA ObjectReports ==
  ASSUME Inv, Reporting(st, run), NEW v \in Object, ReturnsObject(v)
  PROVE  Reporting(st', run')
<1>1. Good(st) /\ Frames(st, run) /\ \E L \in {0, 1} : Tallied(st, L) /\ LoopFrames(st, run, L)
  BY ReportParts
<1>2. PICK L \in {0, 1} : Tallied(st, L) /\ LoopFrames(st, run, L)
  BY <1>1
<1>3. /\ run # <<>> /\ run' = Tail(run) /\ run[1].kind # "element"
      /\ \/ st' = st
         \/ /\ MayCall(st, run[1].arg, v, FALSE)
            /\ st' = js_promise_resolve_function_call(st, run[1].arg, v, FALSE)
  BY ObjectReturned
<1>4. LoopFrames(st, Tail(run), L) /\ ~ Sealed(st, run[1].arg)
  BY <1>1, <1>2, <1>3, LoopReturns
<1>5. MayReport(st, run[1].arg, v, FALSE)
  BY <1>4 DEF MayReport
<1>6. Follows(st, st', L)
  <2>1. CASE st' = st
    BY <1>2, <2>1, FollowsSelf
  <2>2. CASE /\ MayCall(st, run[1].arg, v, FALSE)
             /\ st' = js_promise_resolve_function_call(st, run[1].arg, v, FALSE)
    BY <1>1, <1>2, <1>5, <2>2, ResolveTallied
  <2>. QED  BY <1>3, <2>1, <2>2
<1>. QED  BY <1>1, <1>3, <1>4, <1>6, ReportingOn

LEMMA NextReports ==
  ASSUME Inv, Reporting(st, run), [PromisesNext]_promisesVars
  PROVE  Reporting(st', run')
<1>1. CASE js_promise_withResolvers
  BY <1>1, WithResolversReports
<1>2. CASE \E f \in st.fns : \E v \in Arguments(f) : CallFunction(f, v)
  BY <1>2, CallReports
<1>3. CASE \E p \in DOMAIN st.prom, onF \in {NoHandler, Script}, onR \in {NoHandler, Script} : Then(p, onF, onR)
  BY <1>3, ThenReports
<1>4. CASE \E kind \in Kinds, x, y \in {Foreign} \cup Promised : Combine(kind, <<x, y>>)
  BY <1>4, CombineReports
<1>5. CASE \E p \in DOMAIN st.prom : Await(p)
  BY <1>5, AwaitReports
<1>6. CASE Returns
  <2>1. PICK rej \in BOOLEAN : Return(One, rej)
    BY <1>6 DEF Returns
  <2>. QED  BY <2>1, ReturnReports
<1>9. CASE \E v \in Object : ReturnsObject(v)
  BY <1>9, ObjectReports
<1>7. CASE JS_ExecutePendingJob
  <2>1. PICK s : s = [st EXCEPT !.jobs = Tail(@)]
    OBVIOUS
  <2>2. PICK j : j = Head(st.jobs)
    OBVIOUS
  <2>3. /\ run = <<>> /\ st.jobs # <<>>
        /\ promise_reaction_job(s, j) \/ js_promise_resolve_thenable_job(s, j)
    BY <1>7, <2>1, <2>2 DEF JS_ExecutePendingJob
  <2>. QED  BY <2>1, <2>2, <2>3, ReactionReports, ThenableReports
<1>8. CASE UNCHANGED promisesVars
  BY <1>8 DEF promisesVars
<1>. QED  BY <1>1, <1>2, <1>3, <1>4, <1>5, <1>6, <1>7, <1>8, <1>9 DEF PromisesNext

LEMMA ReportsAll == ASSUME Inv, Reporting(st, run) PROVE AllReported
<1>1. Good(st) /\ Frames(st, run) /\ \E L \in {0, 1} : Tallied(st, L) /\ LoopFrames(st, run, L)
  BY ReportParts
<1>2. PICK L \in {0, 1} : Tallied(st, L) /\ LoopFrames(st, run, L)
  BY <1>1
<1>3. DOMAIN st.aggr = Aggrs(st)
  BY <1>1, StateParts, SeqParts DEF Good, Aggrs
<1>4. DOMAIN run = 1 .. Len(run)
  BY <1>1, SeqParts DEF Frames
<1>5. SUFFICES ASSUME NEW a \in Aggrs(st), NEW g, g = st.aggr[a], NEW p, p = st.pair[g.pair].p
               PROVE  /\ st.prom[p].state = ByCount(g) /\ st.prom[p].result = Undefined => Done(g, a)
                      /\ (\E k \in 1 .. Len(run) : run[k] = Frame("element", a)) =>
                            g.remaining = 1 + g.index - Cardinality(g.called)
  BY <1>3, <1>4 DEF AllReported, Done
<1>6. \A b \in Aggrs(st) : b = a
  BY <1>1, <1>2, OnlyAggregate
<1>7. p \in Proms(st) /\ Tally(g, a, L)
  BY <1>1, <1>2, <1>5 DEF Good, Refs, Tallied
<1>8. GivenPromise(st, p, st.prom[p].state, st.prom[p].result)
  BY <1>2, <1>7 DEF Tallied, Given
<1>9. ASSUME st.prom[p].state = ByCount(g), st.prom[p].result = Undefined PROVE Done(g, a)
  <2>1. CASE g.kind = "any"
    <3>1. AnyReported(st)
      BY <1>8, <1>9, <2>1 DEF GivenPromise, ByCount
    <3>. QED  BY <1>5, <1>6, <3>1 DEF AnyReported
  <2>2. CASE g.kind # "any"
    <3>1. SealedPromise(st, p)
      BY <1>5, <2>2 DEF SealedPromise
    <3>2. Reported(st)
      BY <1>8, <1>9, <2>2, <3>1 DEF GivenPromise, ByCount
    <3>. QED  BY <1>5, <1>6, <3>2 DEF Reported
  <2>. QED  BY <2>1, <2>2
<1>10. ASSUME NEW k \in 1 .. Len(run), run[k] = Frame("element", a)
       PROVE  g.remaining = 1 + g.index - Cardinality(g.called)
  <2>1. run[k].kind = "element"
    BY <1>10 DEF Frame
  <2>2. L = 1
    BY <1>2, <2>1 DEF LoopFrames
  <2>. QED  BY <1>7, <2>2 DEF Tally
<1>. QED  BY <1>9, <1>10

\* Promise.all and allSettled fulfil, and any rejects, after every element has
\* reported, and the count is exact while the loop is handing out functions
\* (js_promise_all, js_promise_all_resolve_element), for every number of
\* promises and operations, and whatever a foreign then does with the functions
\* that it was given.
THEOREM AllReportedHolds == PromisesSpec => []AllReported
<1>1. PromisesInit => ReportInv
  BY InitInv, InitReports DEF ReportInv
<1>2. ReportInv /\ [PromisesNext]_promisesVars => ReportInv'
  BY NextInv, NextReports DEF ReportInv
<1>3. ReportInv => AllReported
  BY ReportsAll DEF ReportInv
<1>. QED  BY <1>1, <1>2, <1>3, PTL DEF PromisesSpec
=============================================================================
