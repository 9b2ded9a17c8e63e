------------------------- MODULE ContextCallsProofs -------------------------
(***************************************************************************)
(* Proofs about ContextCalls for every number of goroutines and contexts,  *)
(* every LockOrder and every depth of nesting.  That two goroutines do not *)
(* meet in an engine rests on who holds the mutex: a frame that took it    *)
(* holds it (Owner), a goroutine took it once (Unique), and, when closures *)
(* stay where they belong, everything a goroutine does in an engine lies   *)
(* above the frame that took the mutex (Covered, First), so that giving it *)
(* back leaves nothing of the goroutine inside.                            *)
(***************************************************************************)
EXTENDS ContextCalls, WellFoundedInduction, TLAPS

\* Frame i of g is in the engine and has taken the mutex.
Locked(g, i) == stack[g][i].via # "closure" /\ stack[g][i].pc # "lock"

Owner ==
  \A g \in Goroutine : \A i \in 1 .. Len(stack[g]) :
    Locked(g, i) => mu[stack[g][i].ctx] = g

Unique ==
  \A g \in Goroutine : \A i, j \in 1 .. Len(stack[g]) :
    Locked(g, i) /\ Locked(g, j) /\ stack[g][i].ctx = stack[g][j].ctx => i = j

Covered ==
  \A g \in Goroutine : \A i \in 1 .. Len(stack[g]) :
    stack[g][i].pc # "lock" /\ stack[g][i].ctx \notin Escaping => mu[stack[g][i].ctx] = g

First ==
  \A g \in Goroutine : \A i \in 1 .. Len(stack[g]) :
    Locked(g, i) /\ stack[g][i].ctx \notin Escaping =>
      \A j \in 1 .. (i - 1) : ~ Entered(g, j, stack[g][i].ctx)

\* A closure never waits for the mutex.
NoWait ==
  \A g \in Goroutine : \A i \in 1 .. Len(stack[g]) :
    stack[g][i].pc = "lock" => stack[g][i].via # "closure"

Inv == TypeOK /\ Owner /\ NoOrphanLock /\ Unique /\ NoWait /\ Covered /\ First

-----------------------------------------------------------------------------
\* What the three ways to change a stack leave alone.
Same(g, i) ==
  /\ stack'[g][i].ctx = stack[g][i].ctx
  /\ stack'[g][i].via = stack[g][i].via
  /\ stack'[g][i].pc = stack[g][i].pc

OthersSame(g) == \A h \in Goroutine : h # g => stack'[h] = stack[h]

\* A frame that is pushed comes last, and the others stay as they are.
LEMMA PushShape ==
  ASSUME TypeOK, NEW g \in Goroutine, NEW f \in Frame, InGo(g), Push(g, f)
  PROVE  /\ stack' \in [Goroutine -> Seq(Frame)]
         /\ OthersSame(g)
         /\ Len(stack[g]) \in Nat
         /\ Len(stack'[g]) = Len(stack[g]) + 1
         /\ stack'[g][Len(stack[g]) + 1] = f
         /\ \A i \in 1 .. Len(stack[g]) : Same(g, i)
<1> DEFINE s == stack[g]
           t == [ctx |-> Top(g).ctx, via |-> Top(g).via,
                 pc |-> "go", work |-> Top(g).work - 1]
           u == Append([s EXCEPT ![Len(s)] = t], f)
<1>1. s \in Seq(Frame) /\ Len(s) \in Nat
  BY DEF TypeOK
<1>2. CASE s = <<>>
  <2>1. stack' = [stack EXCEPT ![g] = <<f>>]
    BY <1>2 DEF Push
  <2>. QED  BY <1>1, <1>2, <2>1 DEF TypeOK, OthersSame, Same
<1>3. CASE s # <<>>
  <2>1. stack' = [stack EXCEPT ![g] = u]
    BY <1>3 DEF Push
  <2>2. /\ Len(s) \in 1 .. Len(s)
        /\ Top(g) = s[Len(s)] /\ Top(g) \in Frame
        /\ Top(g).pc = "go" /\ Top(g).work > 0
    BY <1>1, <1>3 DEF InGo, At, Top
  <2>3. t \in Frame
    BY <2>2, BoundAssumption DEF Frame
  <2>4. /\ [s EXCEPT ![Len(s)] = t] \in Seq(Frame)
        /\ Len([s EXCEPT ![Len(s)] = t]) = Len(s)
        /\ \A i \in 1 .. Len(s) : [s EXCEPT ![Len(s)] = t][i] = IF i = Len(s) THEN t ELSE s[i]
    BY <1>1, <2>2, <2>3
  <2>5. /\ u \in Seq(Frame)
        /\ Len(u) = Len(s) + 1
        /\ u[Len(s) + 1] = f
        /\ \A i \in 1 .. Len(s) : u[i] = IF i = Len(s) THEN t ELSE s[i]
    BY <1>1, <2>4
  <2>6. /\ stack' \in [Goroutine -> Seq(Frame)]
        /\ OthersSame(g)
        /\ stack'[g] = u
    BY <2>1, <2>5 DEF TypeOK, OthersSame
  <2>7. \A i \in 1 .. Len(s) : Same(g, i)
    BY <2>2, <2>5, <2>6 DEF Same
  <2>. QED  BY <1>1, <2>5, <2>6, <2>7
<1>. QED  BY <1>2, <1>3

\* Only the program counter and the work of the last frame change.
LEMMA SetTopShape ==
  ASSUME TypeOK, NEW g \in Goroutine, stack[g] # <<>>,
         NEW p \in {"lock", "js", "go"}, NEW w \in 0 .. MaxWork, SetTop(g, p, w)
  PROVE  /\ stack' \in [Goroutine -> Seq(Frame)]
         /\ OthersSame(g)
         /\ Len(stack[g]) \in Nat \ {0}
         /\ Len(stack'[g]) = Len(stack[g])
         /\ \A i \in 1 .. Len(stack[g]) :
              /\ stack'[g][i].ctx = stack[g][i].ctx
              /\ stack'[g][i].via = stack[g][i].via
              /\ stack'[g][i].pc = IF i = Len(stack[g]) THEN p ELSE stack[g][i].pc
<1> DEFINE s == stack[g]
           t == [ctx |-> Top(g).ctx, via |-> Top(g).via, pc |-> p, work |-> w]
           u == [s EXCEPT ![Len(s)] = t]
<1>1. s \in Seq(Frame) /\ Len(s) \in Nat \ {0}
  BY DEF TypeOK
<1>2. stack' = [stack EXCEPT ![g] = u]
  BY DEF SetTop, TypeOK
<1>3. Top(g) = s[Len(s)] /\ Top(g) \in Frame /\ t \in Frame
  <2>1. Top(g) = s[Len(s)] /\ Top(g) \in Frame
    BY <1>1 DEF Top
  <2>. QED  BY <2>1 DEF Frame
<1>4. /\ u \in Seq(Frame)
      /\ Len(u) = Len(s)
      /\ \A i \in 1 .. Len(s) : u[i] = IF i = Len(s) THEN t ELSE s[i]
  BY <1>1, <1>3
<1>5. /\ stack' \in [Goroutine -> Seq(Frame)]
      /\ OthersSame(g)
      /\ stack'[g] = u
  BY <1>2, <1>4 DEF TypeOK, OthersSame
<1>. QED  BY <1>1, <1>3, <1>4, <1>5

\* The last frame goes.
LEMMA PopShape ==
  ASSUME TypeOK, NEW g \in Goroutine, stack[g] # <<>>,
         stack' = [stack EXCEPT ![g] = Below(g)]
  PROVE  /\ stack' \in [Goroutine -> Seq(Frame)]
         /\ OthersSame(g)
         /\ Len(stack[g]) \in Nat \ {0}
         /\ Len(stack'[g]) = Len(stack[g]) - 1
         /\ \A i \in 1 .. (Len(stack[g]) - 1) : stack'[g][i] = stack[g][i]
<1> DEFINE s == stack[g]
<1>1. s \in Seq(Frame) /\ Len(s) \in Nat \ {0}
  BY DEF TypeOK
<1>2. /\ Below(g) \in Seq(Frame)
      /\ Len(Below(g)) = Len(s) - 1
      /\ \A i \in 1 .. (Len(s) - 1) : Below(g)[i] = s[i]
  BY <1>1 DEF Below
<1>3. /\ stack' \in [Goroutine -> Seq(Frame)]
      /\ OthersSame(g)
      /\ stack'[g] = Below(g)
  BY <1>2 DEF TypeOK, OthersSame
<1>. QED  BY <1>1, <1>2, <1>3

-----------------------------------------------------------------------------
\* A call begins: its frame waits for the mutex, or is a closure's.
LEMMA CallInv ==
  ASSUME Inv, NEW g \in Goroutine, NEW f \in Frame, InGo(g), Push(g, f),
         UNCHANGED <<mu, bound, handed>>,
         \/ f.pc = "lock" /\ f.via # "closure"
         \/ f.pc # "lock" /\ f.via = "closure" /\ (f.ctx \in Escaping \/ Inside(g, f.ctx))
  PROVE  Inv'
<1>1. PICK n : n = Len(stack[g])
  OBVIOUS
<1>2. /\ stack' \in [Goroutine -> Seq(Frame)]
      /\ \A h \in Goroutine : h # g => stack'[h] = stack[h]
      /\ n \in Nat
      /\ Len(stack'[g]) = n + 1
      /\ stack'[g][n + 1] = f
      /\ \A i \in 1 .. n : /\ stack'[g][i].ctx = stack[g][i].ctx
                           /\ stack'[g][i].via = stack[g][i].via
                           /\ stack'[g][i].pc = stack[g][i].pc
  BY <1>1, PushShape DEF Inv, OthersSame, Same
<1>3. mu' = mu /\ bound' = bound /\ handed' = handed
  OBVIOUS
<1>4. /\ ~ (Locked(g, n + 1)')
      /\ \A h \in Goroutine : \A i \in 1 .. Len(stack'[h]) :
           ~ (h = g /\ i = n + 1) =>
             /\ i \in 1 .. Len(stack[h])
             /\ stack'[h][i].ctx = stack[h][i].ctx
             /\ stack'[h][i].via = stack[h][i].via
             /\ stack'[h][i].pc = stack[h][i].pc
  BY <1>1, <1>2 DEF Locked
<1>5. TypeOK'
  BY <1>2, <1>3 DEF Inv, TypeOK
<1>6. Owner'
  BY <1>1, <1>2, <1>3, <1>4 DEF Inv, Owner, Locked
<1>7. NoOrphanLock'
  <2> SUFFICES ASSUME NEW c \in Context, mu[c] \in Goroutine
               PROVE  \E i \in 1 .. Len(stack'[mu[c]]) :
                        /\ stack'[mu[c]][i].ctx = c /\ stack'[mu[c]][i].pc # "lock"
                        /\ stack'[mu[c]][i].via # "closure"
    BY <1>3 DEF NoOrphanLock, Entered
  <2>1. mu[c] \in Goroutine
    BY DEF Inv, TypeOK
  <2>2. PICK i \in 1 .. Len(stack[mu[c]]) :
              /\ stack[mu[c]][i].ctx = c /\ stack[mu[c]][i].pc # "lock"
              /\ stack[mu[c]][i].via # "closure"
    BY DEF Inv, NoOrphanLock, Entered
  <2>3. CASE mu[c] = g
    <3>1. i \in 1 .. n /\ i \in 1 .. Len(stack'[g])
      BY <1>1, <1>2, <2>2, <2>3
    <3>. QED  BY <1>2, <2>2, <2>3, <3>1
  <2>4. CASE mu[c] # g
    BY <1>2, <2>1, <2>2, <2>4
  <2>. QED  BY <2>3, <2>4
<1>8. Unique'
  <2> SUFFICES ASSUME NEW h \in Goroutine,
                      NEW i \in 1 .. Len(stack'[h]), NEW j \in 1 .. Len(stack'[h]),
                      Locked(h, i)', Locked(h, j)', stack'[h][i].ctx = stack'[h][j].ctx
               PROVE  i = j
    BY DEF Unique
  <2>1. /\ Locked(h, i) /\ Locked(h, j) /\ stack[h][i].ctx = stack[h][j].ctx
        /\ i \in 1 .. Len(stack[h]) /\ j \in 1 .. Len(stack[h])
    BY <1>4 DEF Locked
  <2>. QED  BY <2>1 DEF Inv, Unique
<1>10. NoWait'
  BY <1>1, <1>2 DEF Inv, NoWait
<1>9. Covered' /\ First'
  <2>1. f.pc # "lock" /\ f.ctx \notin Escaping => mu[f.ctx] = g
    BY DEF Inv, Covered, Inside, Entered
  <2>2. Covered'
    BY <1>1, <1>2, <1>3, <2>1 DEF Inv, Covered
  <2>3. First'
    <3> SUFFICES ASSUME NEW h \in Goroutine, NEW i \in 1 .. Len(stack'[h]), Locked(h, i)',
                        stack'[h][i].ctx \notin Escaping, NEW j \in 1 .. (i - 1)
                 PROVE  ~ Entered(h, j, stack[h][i].ctx)'
      BY DEF First
    <3>1. CASE h = g
      <4>0. i # n + 1
        BY <1>4, <3>1
      <4>1. i \in 1 .. n /\ j \in 1 .. n
        BY <1>2, <3>1, <4>0
      <4>2. Locked(g, i) /\ i \in 1 .. Len(stack[g]) /\ stack[g][i].ctx \notin Escaping
        BY <1>1, <1>2, <3>1, <4>1 DEF Locked
      <4>3. ~ Entered(g, j, stack[g][i].ctx)
        BY <4>2 DEF Inv, First
      <4>. QED  BY <1>2, <3>1, <4>1, <4>3 DEF Entered
    <3>2. CASE h # g
      BY <1>2, <3>2 DEF Inv, First, Locked, Entered
    <3>. QED  BY <3>1, <3>2
  <2>. QED  BY <2>2, <2>3
<1>. QED  BY <1>5, <1>6, <1>7, <1>8, <1>9, <1>10 DEF Inv

\* The mutex was free, so nothing of this goroutine or of another had it.
LEMMA LockInv ==
  ASSUME Inv, NEW g \in Goroutine, Lock(g)
  PROVE  Inv'
<1>1. PICK n, k : n = Len(stack[g]) /\ k = Top(g).ctx
  OBVIOUS
<1>2. /\ n \in Nat \ {0} /\ stack[g][n].ctx = k /\ stack[g][n].pc = "lock"
      /\ stack[g] # <<>> /\ Top(g) \in Frame
  <2>1. stack[g] \in Seq(Frame) /\ stack[g] # <<>>
    BY DEF Lock, At, Inv, TypeOK
  <2>2. n \in Nat \ {0} /\ stack[g][n] \in Frame
    BY <1>1, <2>1
  <2>. QED  BY <1>1, <2>1, <2>2 DEF Lock, At, Top
<1>3. /\ stack' \in [Goroutine -> Seq(Frame)]
      /\ \A h \in Goroutine : h # g => stack'[h] = stack[h]
      /\ Len(stack'[g]) = n
      /\ \A i \in 1 .. n : /\ stack'[g][i].ctx = stack[g][i].ctx
                           /\ stack'[g][i].via = stack[g][i].via
                           /\ stack'[g][i].pc = IF i = n THEN "js" ELSE stack[g][i].pc
  <2>1. SetTop(g, "js", Top(g).work) /\ Top(g).work \in 0 .. MaxWork
    BY <1>2 DEF Lock, Frame
  <2>. QED  BY <1>1, <1>2, <2>1, SetTopShape DEF Inv, OthersSame
<1>4. /\ mu' = [mu EXCEPT ![k] = g] /\ mu[k] = None /\ k \in Context
      /\ bound' = bound /\ handed' = handed
  BY <1>1, <1>2 DEF Lock, Frame
<1>5. /\ \A h \in Goroutine : \A i \in 1 .. Len(stack[h]) :
           ~ (Locked(h, i) /\ stack[h][i].ctx = k)
      /\ k \notin Escaping => \A h \in Goroutine : \A i \in 1 .. Len(stack[h]) :
           ~ (stack[h][i].pc # "lock" /\ stack[h][i].ctx = k)
  BY <1>4, NoneAssumption DEF Inv, Owner, Covered
<1>6. TypeOK'
  BY <1>3, <1>4 DEF Inv, TypeOK
<1>7. Owner'
  <2> SUFFICES ASSUME NEW h \in Goroutine, NEW i \in 1 .. Len(stack'[h]), Locked(h, i)'
               PROVE  mu'[stack'[h][i].ctx] = h
    BY DEF Owner
  <2>1. CASE h = g /\ i = n
    BY <1>2, <1>3, <1>4, <2>1 DEF Inv, TypeOK
  <2>2. CASE ~ (h = g /\ i = n)
    <3>1. /\ i \in 1 .. Len(stack[h]) /\ Locked(h, i)
          /\ stack'[h][i].ctx = stack[h][i].ctx
      BY <1>1, <1>3, <2>2 DEF Locked
    <3>2. stack[h][i].ctx # k /\ mu[stack[h][i].ctx] = h
      BY <1>5, <3>1 DEF Inv, Owner
    <3>. QED  BY <1>4, <3>1, <3>2 DEF Inv, TypeOK
  <2>. QED  BY <2>1, <2>2
<1>8. ASSUME NEW c \in Context, mu'[c] \in Goroutine
      PROVE  \E i \in 1 .. Len(stack'[mu'[c]]) :
               /\ stack'[mu'[c]][i].ctx = c /\ stack'[mu'[c]][i].pc # "lock"
               /\ stack'[mu'[c]][i].via # "closure"
  <2>1. CASE c = k
    <3>1. mu'[c] = g
      BY <1>4, <2>1 DEF Inv, TypeOK
    <3>2. n \in 1 .. n /\ stack[g][n].via # "closure"
      BY <1>1, <1>2 DEF Inv, NoWait
    <3>. QED  BY <1>2, <1>3, <2>1, <3>1, <3>2
  <2>2. CASE c # k
    <3>1. mu'[c] = mu[c] /\ mu[c] \in Goroutine /\ mu[c] # None
      BY NoneAssumption, <1>4, <1>8, <2>2 DEF Inv, TypeOK
    <3>2. PICK i \in 1 .. Len(stack[mu[c]]) :
                /\ stack[mu[c]][i].ctx = c /\ stack[mu[c]][i].pc # "lock"
                /\ stack[mu[c]][i].via # "closure"
      BY <3>1 DEF Inv, NoOrphanLock, Entered
    <3>3. CASE mu[c] = g
      BY <1>1, <1>3, <3>1, <3>2, <3>3
    <3>4. CASE mu[c] # g
      BY <1>3, <3>1, <3>2, <3>4
    <3>. QED  BY <3>3, <3>4
  <2>. QED  BY <2>1, <2>2
<1>9. NoOrphanLock'
  BY <1>8 DEF NoOrphanLock, Entered
<1>10. \A h \in Goroutine : \A i \in 1 .. Len(stack'[h]) :
         /\ i \in 1 .. Len(stack[h])
         /\ stack'[h][i].ctx = stack[h][i].ctx
         /\ stack'[h][i].via = stack[h][i].via
         /\ ~ (h = g /\ i = n) => stack'[h][i].pc = stack[h][i].pc
  BY <1>1, <1>3
<1>11. Unique'
  <2> SUFFICES ASSUME NEW h \in Goroutine,
                      NEW i \in 1 .. Len(stack'[h]), NEW j \in 1 .. Len(stack'[h]),
                      Locked(h, i)', Locked(h, j)', stack'[h][i].ctx = stack'[h][j].ctx,
                      i # j
               PROVE  FALSE
    BY DEF Unique
  <2>1. CASE h = g /\ i = n
    <3>1. Locked(g, j) /\ stack[g][j].ctx = k /\ j \in 1 .. Len(stack[g])
      BY <1>2, <1>10, <2>1 DEF Locked
    <3>. QED  BY <1>5, <3>1
  <2>2. CASE h = g /\ j = n
    <3>1. Locked(g, i) /\ stack[g][i].ctx = k /\ i \in 1 .. Len(stack[g])
      BY <1>2, <1>10, <2>2 DEF Locked
    <3>. QED  BY <1>5, <3>1
  <2>3. CASE ~ (h = g /\ i = n) /\ ~ (h = g /\ j = n)
    BY <1>10, <2>3 DEF Inv, Unique, Locked
  <2>. QED  BY <2>1, <2>2, <2>3
<1>12. NoWait'
  <2> SUFFICES ASSUME NEW h \in Goroutine, NEW i \in 1 .. Len(stack'[h]),
                      stack'[h][i].pc = "lock"
               PROVE  stack'[h][i].via # "closure"
    BY DEF NoWait
  <2>1. stack[h][i].pc = "lock"
    BY <1>2, <1>10
  <2>. QED  BY <1>10, <2>1 DEF Inv, NoWait
<1>13. Covered' /\ First'
  <2>1. Covered'
    <3> SUFFICES ASSUME NEW h \in Goroutine, NEW i \in 1 .. Len(stack'[h]),
                        stack'[h][i].pc # "lock", stack'[h][i].ctx \notin Escaping
                 PROVE  mu'[stack'[h][i].ctx] = h
      BY DEF Covered
    <3>1. CASE h = g /\ i = n
      BY <1>2, <1>3, <1>4, <3>1 DEF Inv, TypeOK
    <3>2. CASE ~ (h = g /\ i = n)
      <4>1. stack[h][i].ctx # k /\ mu[stack[h][i].ctx] = h
        BY <1>5, <1>10, <3>2 DEF Inv, Covered
      <4>. QED  BY <1>4, <1>10, <4>1 DEF Inv, TypeOK
    <3>. QED  BY <3>1, <3>2
  <2>2. First'
    <3> SUFFICES ASSUME NEW h \in Goroutine, NEW i \in 1 .. Len(stack'[h]), Locked(h, i)',
                        stack'[h][i].ctx \notin Escaping, NEW j \in 1 .. (i - 1)
                 PROVE  ~ Entered(h, j, stack[h][i].ctx)'
      BY DEF First
    <3>0. /\ i \in 1 .. Len(stack[h]) /\ j \in 1 .. Len(stack'[h])
          /\ j \in 1 .. Len(stack[h])
          /\ ~ (h = g /\ j = n)
      BY <1>1, <1>3, <1>10
    <3>1. CASE h = g /\ i = n
      BY <1>2, <1>5, <1>10, <3>0, <3>1 DEF Entered
    <3>2. CASE ~ (h = g /\ i = n)
      <4>1. Locked(h, i) /\ stack[h][i].ctx \notin Escaping
        BY <1>10, <3>2 DEF Locked
      <4>2. ~ Entered(h, j, stack[h][i].ctx)
        BY <3>0, <4>1 DEF Inv, First
      <4>. QED  BY <1>10, <3>0, <4>2 DEF Entered
    <3>. QED  BY <3>1, <3>2
  <2>. QED  BY <2>1, <2>2
<1>. QED  BY <1>6, <1>7, <1>9, <1>11, <1>12, <1>13 DEF Inv

\* The script calls Go or Go returns to it: the frame is in the engine before
\* and after.
LEMMA MoveInv ==
  ASSUME Inv, NEW g \in Goroutine, stack[g] # <<>>, Top(g).pc # "lock",
         NEW p \in {"js", "go"}, NEW w \in 0 .. MaxWork, SetTop(g, p, w),
         mu' = mu, bound' \in SUBSET Context, handed' \in SUBSET Context
  PROVE  Inv'
<1>1. PICK n : n = Len(stack[g])
  OBVIOUS
<1>2. /\ stack' \in [Goroutine -> Seq(Frame)]
      /\ \A h \in Goroutine : h # g => stack'[h] = stack[h]
      /\ n \in Nat \ {0}
      /\ Len(stack'[g]) = n
      /\ \A i \in 1 .. n : /\ stack'[g][i].ctx = stack[g][i].ctx
                           /\ stack'[g][i].via = stack[g][i].via
                           /\ stack'[g][i].pc = IF i = n THEN p ELSE stack[g][i].pc
  BY <1>1, SetTopShape DEF Inv, OthersSame
<1>3. \A h \in Goroutine :
        /\ Len(stack'[h]) = Len(stack[h])
        /\ \A i \in 1 .. Len(stack[h]) :
             /\ stack'[h][i].ctx = stack[h][i].ctx
             /\ stack'[h][i].via = stack[h][i].via
             /\ stack'[h][i].pc = "lock" <=> stack[h][i].pc = "lock"
  BY <1>1, <1>2 DEF Top
<1>4. /\ \A h \in Goroutine : \A i \in 1 .. Len(stack[h]) : Locked(h, i)' <=> Locked(h, i)
      /\ \A h \in Goroutine : \A i \in 1 .. Len(stack[h]) : \A c :
           Entered(h, i, c)' <=> Entered(h, i, c)
  BY <1>3 DEF Locked, Entered
<1>5. TypeOK'
  BY <1>2 DEF Inv, TypeOK
<1>6. Owner' /\ Unique'
  BY <1>3, <1>4 DEF Inv, Owner, Unique
<1>7. NoOrphanLock'
  BY <1>3, <1>4 DEF Inv, NoOrphanLock, TypeOK
<1>8. NoWait'
  BY <1>3 DEF Inv, NoWait
<1>9. Covered' /\ First'
  <2>1. Covered'
    BY <1>3 DEF Inv, Covered
  <2>2. First'
    <3> SUFFICES ASSUME NEW h \in Goroutine, NEW i \in 1 .. Len(stack'[h]), Locked(h, i)',
                        stack'[h][i].ctx \notin Escaping, NEW j \in 1 .. (i - 1)
                 PROVE  ~ Entered(h, j, stack[h][i].ctx)'
      BY DEF First
    <3>1. stack[h] \in Seq(Frame)
      BY DEF Inv, TypeOK
    <3>2. /\ i \in 1 .. Len(stack[h]) /\ j \in 1 .. Len(stack[h]) /\ Locked(h, i)
          /\ stack[h][i].ctx \notin Escaping
      BY <1>3, <1>4, <3>1
    <3>3. ~ Entered(h, j, stack[h][i].ctx)
      BY <3>2 DEF Inv, First
    <3>. QED  BY <1>3, <3>2, <3>3 DEF Entered
  <2>. QED  BY <2>1, <2>2
<1>. QED  BY <1>5, <1>6, <1>7, <1>8, <1>9 DEF Inv

\* A call returns.  If it gives the mutex back, it took it in this frame, and
\* no other frame of the goroutine rests on it.
LEMMA ReturnInv ==
  ASSUME Inv, NEW g \in Goroutine, NEW ok \in BOOLEAN, Return(g, ok)
  PROVE  Inv'
<1>1. PICK n, k : n = Len(stack[g]) /\ k = Top(g).ctx
  OBVIOUS
<1>2. /\ n \in Nat \ {0} /\ stack[g][n].ctx = k /\ stack[g][n].pc = "js"
      /\ stack[g][n] = Top(g) /\ k \in Context
  <2>1. stack[g] \in Seq(Frame) /\ stack[g] # <<>>
    BY DEF Return, At, Inv, TypeOK
  <2>2. n \in Nat \ {0} /\ stack[g][n] \in Frame
    BY <1>1, <2>1
  <2>. QED  BY <1>1, <2>1, <2>2 DEF Return, At, Top, Frame
<1>3. /\ stack' \in [Goroutine -> Seq(Frame)]
      /\ \A h \in Goroutine : h # g => stack'[h] = stack[h]
      /\ Len(stack'[g]) = n - 1
      /\ \A i \in 1 .. (n - 1) : stack'[g][i] = stack[g][i]
  BY <1>1, PopShape DEF Inv, OthersSame, Return, At
<1>4. /\ \A h \in Goroutine : \A i \in 1 .. Len(stack'[h]) :
           /\ i \in 1 .. Len(stack[h]) /\ stack'[h][i] = stack[h][i]
           /\ ~ (h = g /\ i = n)
           /\ Locked(h, i)' <=> Locked(h, i)
      /\ \A h \in Goroutine : \A i \in 1 .. Len(stack[h]) :
           ~ (h = g /\ i = n) => i \in 1 .. Len(stack'[h])
  BY <1>1, <1>2, <1>3 DEF Locked
<1>5. mu' = IF stack[g][n].via # "closure" THEN [mu EXCEPT ![k] = None] ELSE mu
  <2>1. mu' = IF stack[g][n].via # "closure" THEN [mu EXCEPT ![k] = Unlocked(mu[k])] ELSE mu
    BY <1>1, <1>2 DEF Return, Unlock, Inv, TypeOK
  <2>2. ASSUME stack[g][n].via # "closure" PROVE Unlocked(mu[k]) = None
    <3>1. Locked(g, n) /\ n \in 1 .. Len(stack[g])
      BY <1>1, <1>2, <2>2 DEF Locked
    <3>2. mu[k] = g
      BY <1>2, <3>1 DEF Inv, Owner
    <3>. QED  BY <3>2, NoneAssumption DEF Unlocked
  <2>. QED  BY <2>1, <2>2
<1>6. /\ stack[g][n].via # "closure" =>
           /\ mu[k] = g
           /\ \A h \in Goroutine : \A i \in 1 .. Len(stack'[h]) :
                Locked(h, i) => stack[h][i].ctx # k
           /\ k \notin Escaping =>
                \A h \in Goroutine : \A i \in 1 .. Len(stack'[h]) :
                  stack[h][i].pc # "lock" => stack[h][i].ctx # k
  <2> SUFFICES ASSUME stack[g][n].via # "closure"
               PROVE  /\ mu[k] = g
                      /\ \A h \in Goroutine : \A i \in 1 .. Len(stack'[h]) :
                           Locked(h, i) => stack[h][i].ctx # k
                      /\ k \notin Escaping =>
                           \A h \in Goroutine : \A i \in 1 .. Len(stack'[h]) :
                             stack[h][i].pc # "lock" => stack[h][i].ctx # k
    OBVIOUS
  <2>1. Locked(g, n) /\ n \in 1 .. Len(stack[g])
    BY <1>1, <1>2 DEF Locked
  <2>2. mu[k] = g
    BY <1>2, <2>1 DEF Inv, Owner
  <2>3. ASSUME NEW h \in Goroutine, NEW i \in 1 .. Len(stack'[h]),
               Locked(h, i), stack[h][i].ctx = k
        PROVE  FALSE
    <3>1. h = g
      BY <1>4, <2>2, <2>3 DEF Inv, Owner
    <3>2. i = n
      BY <1>2, <1>4, <2>1, <2>3, <3>1 DEF Inv, Unique
    <3>. QED  BY <1>4, <3>1, <3>2
  <2>4. ASSUME k \notin Escaping, NEW h \in Goroutine, NEW i \in 1 .. Len(stack'[h]),
               stack[h][i].pc # "lock", stack[h][i].ctx = k
        PROVE  FALSE
    <3>1. h = g
      BY <1>4, <2>2, <2>4 DEF Inv, Covered
    <3>2. i \in 1 .. (n - 1)
      BY <1>3, <2>4, <3>1
    <3>3. ~ Entered(g, i, stack[g][n].ctx)
      BY <1>2, <2>1, <2>4, <3>2 DEF Inv, First
    <3>. QED  BY <1>2, <2>4, <3>1, <3>3 DEF Entered
  <2>. QED  BY <2>2, <2>3, <2>4
<1>7. mu' \in [Context -> Goroutine \cup {None}]
  BY <1>5 DEF Inv, TypeOK
<1>8. TypeOK'
  <2>1. bound' \in SUBSET Context
    BY <1>1, <1>2 DEF Return, Inv, TypeOK
  <2>2. handed' \in SUBSET Context
    BY <1>1, <1>2 DEF Return, Inv, TypeOK
  <2>. QED  BY <1>3, <1>7, <2>1, <2>2 DEF TypeOK
<1>9. Owner'
  <2> SUFFICES ASSUME NEW h \in Goroutine, NEW i \in 1 .. Len(stack'[h]), Locked(h, i)'
               PROVE  mu'[stack'[h][i].ctx] = h
    BY DEF Owner
  <2>1. Locked(h, i) /\ stack'[h][i].ctx = stack[h][i].ctx /\ mu[stack[h][i].ctx] = h
    BY <1>4 DEF Inv, Owner
  <2>. QED  BY <1>5, <1>6, <2>1 DEF Inv, TypeOK
<1>10. NoOrphanLock'
  <2> SUFFICES ASSUME NEW c \in Context, mu'[c] \in Goroutine
               PROVE  \E i \in 1 .. Len(stack'[mu'[c]]) :
                        /\ stack'[mu'[c]][i].ctx = c /\ stack'[mu'[c]][i].pc # "lock"
                        /\ stack'[mu'[c]][i].via # "closure"
    BY DEF NoOrphanLock, Entered
  <2>1. /\ mu'[c] = mu[c] /\ mu[c] \in Goroutine /\ mu[c] # None
        /\ stack[g][n].via # "closure" => c # k
    BY NoneAssumption, <1>5, <1>6 DEF Inv, TypeOK
  <2>2. PICK i \in 1 .. Len(stack[mu[c]]) :
              /\ stack[mu[c]][i].ctx = c /\ stack[mu[c]][i].pc # "lock"
              /\ stack[mu[c]][i].via # "closure"
    BY <2>1 DEF Inv, NoOrphanLock, Entered
  <2>3. ~ (mu[c] = g /\ i = n)
    BY <1>2, <2>1, <2>2
  <2>. QED  BY <1>4, <2>1, <2>2, <2>3
<1>11. Unique'
  BY <1>4 DEF Inv, Unique
<1>12. NoWait'
  BY <1>4 DEF Inv, NoWait
<1>13. Covered' /\ First'
  <2>1. Covered'
    <3> SUFFICES ASSUME NEW h \in Goroutine, NEW i \in 1 .. Len(stack'[h]),
                        stack'[h][i].pc # "lock", stack'[h][i].ctx \notin Escaping
                 PROVE  mu'[stack'[h][i].ctx] = h
      BY DEF Covered
    <3>1. stack'[h][i] = stack[h][i] /\ mu[stack[h][i].ctx] = h
      BY <1>4 DEF Inv, Covered
    <3>. QED  BY <1>5, <1>6, <3>1 DEF Inv, TypeOK
  <2>2. First'
    <3> SUFFICES ASSUME NEW h \in Goroutine, NEW i \in 1 .. Len(stack'[h]), Locked(h, i)',
                        stack'[h][i].ctx \notin Escaping, NEW j \in 1 .. (i - 1)
                 PROVE  ~ Entered(h, j, stack[h][i].ctx)'
      BY DEF First
    <3>1. stack'[h] \in Seq(Frame)
      BY <1>3
    <3>2. j \in 1 .. Len(stack'[h])
      BY <3>1
    <3>3. ~ Entered(h, j, stack[h][i].ctx)
      BY <1>4 DEF Inv, First
    <3>. QED  BY <1>4, <3>2, <3>3 DEF Entered
  <2>. QED  BY <2>1, <2>2
<1>. QED  BY <1>8, <1>9, <1>10, <1>11, <1>12, <1>13 DEF Inv

\* A panic leaves nothing of its goroutine behind, neither frame nor mutex.
LEMMA PanicInv ==
  ASSUME Inv, NEW g \in Goroutine, Panic(g)
  PROVE  Inv'
<1>1. /\ stack' = [stack EXCEPT ![g] = <<>>]
      /\ mu' = [c \in Context |-> IF mu[c] = g THEN None ELSE mu[c]]
      /\ bound' = bound /\ handed' = handed
  <2>1. ASSUME NEW c \in Context PROVE Defers(g, c) <=> mu[c] = g
    <3>1. Defers(g, c) => mu[c] = g
      BY DEF Defers, Entered, Inv, Owner, Locked
    <3>2. mu[c] = g => Defers(g, c)
      BY DEF Defers, Inv, NoOrphanLock
    <3>. QED  BY <3>1, <3>2
  <2>2. ASSUME NEW c \in Context
        PROVE  (IF Defers(g, c) THEN Unlocked(mu[c]) ELSE mu[c]) = IF mu[c] = g THEN None ELSE mu[c]
    BY <2>1, NoneAssumption DEF Unlocked
  <2>. QED  BY <2>2 DEF Panic
<1>2. /\ stack' \in [Goroutine -> Seq(Frame)]
      /\ stack'[g] = <<>>
      /\ \A h \in Goroutine : h # g => stack'[h] = stack[h]
  BY <1>1 DEF Inv, TypeOK
<1>3. \A h \in Goroutine : \A i \in 1 .. Len(stack'[h]) :
        /\ h # g /\ stack'[h] = stack[h]
        /\ stack[h][i].ctx \in Context
        /\ Locked(h, i)' <=> Locked(h, i)
  <2> SUFFICES ASSUME NEW h \in Goroutine, NEW i \in 1 .. Len(stack'[h])
               PROVE  /\ h # g /\ stack'[h] = stack[h]
                      /\ stack[h][i].ctx \in Context
                      /\ Locked(h, i)' <=> Locked(h, i)
    OBVIOUS
  <2>1. h # g
    BY <1>2
  <2>2. stack'[h] = stack[h] /\ stack[h] \in Seq(Frame)
    BY <1>2, <2>1 DEF Inv, TypeOK
  <2>3. stack[h][i] \in Frame
    BY <2>2
  <2>. QED  BY <2>1, <2>2, <2>3 DEF Locked, Frame
<1>4. TypeOK'
  BY <1>1, <1>2 DEF Inv, TypeOK
<1>5. Owner' /\ Unique' /\ NoWait'
  BY <1>1, <1>3 DEF Inv, Owner, Unique, NoWait
<1>6. NoOrphanLock'
  <2> SUFFICES ASSUME NEW c \in Context, mu'[c] \in Goroutine
               PROVE  \E i \in 1 .. Len(stack'[mu'[c]]) :
                        /\ stack'[mu'[c]][i].ctx = c /\ stack'[mu'[c]][i].pc # "lock"
                        /\ stack'[mu'[c]][i].via # "closure"
    BY DEF NoOrphanLock, Entered
  <2>1. mu'[c] = mu[c] /\ mu[c] # g /\ mu[c] # None /\ mu[c] \in Goroutine
    BY NoneAssumption, <1>1 DEF Inv, TypeOK
  <2>2. stack'[mu[c]] = stack[mu[c]]
    BY <1>2, <2>1
  <2>3. PICK i \in 1 .. Len(stack[mu[c]]) :
              /\ stack[mu[c]][i].ctx = c /\ stack[mu[c]][i].pc # "lock"
              /\ stack[mu[c]][i].via # "closure"
    BY <2>1 DEF Inv, NoOrphanLock, Entered
  <2>. QED  BY <2>1, <2>2, <2>3
<1>7. Covered' /\ First'
  <2>1. Covered'
    BY <1>1, <1>3 DEF Inv, Covered
  <2>2. First'
    BY <1>3 DEF Inv, First, Entered
  <2>. QED  BY <2>1, <2>2
<1>. QED  BY <1>4, <1>5, <1>6, <1>7 DEF Inv

-----------------------------------------------------------------------------
LEMMA InitInv == Init => Inv
<1> SUFFICES ASSUME Init PROVE Inv
  OBVIOUS
<1>1. TypeOK
  BY DEF Init, TypeOK
<1>2. \A g \in Goroutine : stack[g] = <<>>
  BY DEF Init
<1>3. Owner /\ Unique /\ NoWait /\ Covered /\ First
  BY <1>2 DEF Owner, Unique, NoWait, Covered, First
<1>4. NoOrphanLock
  BY NoneAssumption DEF Init, NoOrphanLock
<1>. QED  BY <1>1, <1>3, <1>4 DEF Inv

LEMMA NextInv == Inv /\ [Next]_vars => Inv'
<1> SUFFICES ASSUME Inv, [Next]_vars PROVE Inv'
  OBVIOUS
<1>1. ASSUME NEW g \in Goroutine, NEW c \in Context, NEW w \in 0 .. MaxWork,
             NEW via \in {"run", "bind"}, CallMethod(g, c, via, w)
      PROVE  Inv'
  <2>1. PICK f : f = [ctx |-> c, via |-> via, pc |-> "lock", work |-> w]
    OBVIOUS
  <2>2. f \in Frame /\ f.pc = "lock" /\ f.via # "closure"
    BY <2>1 DEF Frame, Via
  <2>. QED  BY <1>1, <2>1, <2>2, CallInv DEF CallMethod
<1>2. ASSUME NEW g \in Goroutine, NEW c \in Context, NEW w \in 0 .. MaxWork,
             CallBound(g, c, w)
      PROVE  Inv'
  <2>1. PICK f : f = [ctx |-> c, via |-> "bound", pc |-> "lock", work |-> w]
    OBVIOUS
  <2>2. f \in Frame /\ f.pc = "lock" /\ f.via # "closure"
    BY <2>1 DEF Frame, Via
  <2>. QED  BY <1>2, <2>1, <2>2, CallInv DEF CallBound
<1>3. ASSUME NEW g \in Goroutine, NEW c \in Context, NEW w \in 0 .. MaxWork,
             CallClosure(g, c, w)
      PROVE  Inv'
  <2>1. PICK f : f = [ctx |-> c, via |-> "closure", pc |-> "js", work |-> w]
    OBVIOUS
  <2>2. f \in Frame /\ f.pc # "lock" /\ f.via = "closure" /\ f.ctx = c
    BY <2>1 DEF Frame, Via
  <2>. QED  BY <1>3, <2>1, <2>2, CallInv DEF CallClosure
<1>4. ASSUME NEW g \in Goroutine, Lock(g) PROVE Inv'
  BY <1>4, LockInv
<1>5. ASSUME NEW g \in Goroutine, stack[g] # <<>>
      PROVE  Top(g).ctx \in Context /\ Top(g).work \in 0 .. MaxWork
  <2>1. stack[g] \in Seq(Frame) /\ Len(stack[g]) \in 1 .. Len(stack[g])
    BY <1>5 DEF Inv, TypeOK
  <2>2. Top(g) \in Frame
    BY <2>1 DEF Top
  <2>. QED  BY <2>2 DEF Frame
<1>6. ASSUME NEW g \in Goroutine, CallGo(g) PROVE Inv'
  <2>1. stack[g] # <<>> /\ Top(g).pc # "lock"
    BY <1>6 DEF CallGo, At
  <2>2. Top(g).work - 1 \in 0 .. MaxWork
    BY <1>5, <1>6, <2>1, BoundAssumption DEF CallGo
  <2>3. bound' \in SUBSET Context /\ handed' \in SUBSET Context
    BY <1>5, <1>6, <2>1 DEF CallGo, Inv, TypeOK
  <2>. QED  BY <1>6, <2>1, <2>2, <2>3, MoveInv DEF CallGo
<1>7. ASSUME NEW g \in Goroutine, GoReturns(g) PROVE Inv'
  <2>1. stack[g] # <<>> /\ Top(g).pc # "lock"
    BY <1>7 DEF GoReturns, At
  <2>2. Top(g).work \in 0 .. MaxWork
    BY <1>5, <2>1
  <2>3. bound' \in SUBSET Context /\ handed' \in SUBSET Context
    BY <1>7 DEF GoReturns, Inv, TypeOK
  <2>. QED  BY <1>7, <2>1, <2>2, <2>3, MoveInv DEF GoReturns
<1>8. ASSUME NEW g \in Goroutine, NEW ok \in BOOLEAN, Return(g, ok) PROVE Inv'
  BY <1>8, ReturnInv
<1>9. ASSUME NEW g \in Goroutine, Panic(g) PROVE Inv'
  BY <1>9, PanicInv
<1>10. CASE UNCHANGED vars
  BY <1>10 DEF vars, Inv, TypeOK, Owner, Unique, NoWait, NoOrphanLock, Covered, First,
               Locked, Entered
<1>. QED  BY <1>1, <1>2, <1>3, <1>4, <1>6, <1>7, <1>8, <1>9, <1>10 DEF Next

\* The inductive invariant holds in every reachable state.
THEOREM InvHolds == Spec => []Inv
BY InitInv, NextInv, PTL DEF Spec

\* Mutexes, stacks, bound and handed-out functions keep their types.
THEOREM TypeCorrect == Spec => []TypeOK
BY InvHolds, PTL DEF Inv

\* No two goroutines are inside the same engine while closures stay in theirs.
THEOREM EnginesExclusive == Spec => []EngineExclusive
<1>1. Inv => EngineExclusive
  BY DEF Inv, Covered, EngineExclusive, Inside, Entered
<1>. QED  BY <1>1, InvHolds, PTL

\* Every way out of a call, a panic included, gives the mutex back.
THEOREM LocksReleased == Spec => []NoOrphanLock
BY InvHolds, PTL DEF Inv

\* Whatever the host program does with closures, goroutines meet in an engine
\* only if one of them entered it through a closure.
THEOREM OverlapsOnlyByClosure == Spec => []OverlapOnlyByClosure
<1>1. ASSUME Inv, NEW c \in Context, NEW g \in Goroutine, Inside(g, c), mu[c] # g
      PROVE  OutermostIsClosure(g, c)
  <2> DEFINE T == {i \in 1 .. Len(stack[g]) : Entered(g, i, c)}
  <2>1. PICK i \in T : \A j \in T : i <= j
    <3>1. T \subseteq Nat /\ T # {}
      BY <1>1 DEF Inside
    <3>. HIDE DEF T
    <3>2. PICK i \in T : \A j \in T : ~ (<<j, i>> \in OpToRel(<, Nat))
      BY <3>1, NatLessThanWellFounded, WFMin
    <3>3. \A j \in T : ~ (j < i)
      BY <3>1, <3>2 DEF OpToRel
    <3>. QED  BY <3>1, <3>3
  <2>2. stack[g] \in Seq(Frame)
    BY <1>1 DEF Inv, TypeOK
  <2>3. \A j \in 1 .. (i - 1) : ~ Entered(g, j, c)
    BY <2>1, <2>2
  <2>4. stack[g][i].via = "closure"
    BY <1>1, <2>1 DEF Inv, Owner, Locked, Entered
  <2>. QED  BY <2>1, <2>3, <2>4 DEF OutermostIsClosure
<1>2. Inv => OverlapOnlyByClosure
  BY <1>1 DEF OverlapOnlyByClosure
<1>. QED  BY <1>2, InvHolds, PTL

-----------------------------------------------------------------------------
(***************************************************************************)
(* Deadlock.  A goroutine that waits does so in its innermost frame, for a *)
(* context that comes after all those it is inside of.  The owner of that  *)
(* context's mutex is inside of it, so along a chain of waiting goroutines *)
(* the contexts go up in LockOrder, and cannot come round.                 *)
(***************************************************************************)
WaitOrdered ==
  \A g \in Goroutine : \A i \in 1 .. Len(stack[g]) :
    /\ i < Len(stack[g]) => stack[g][i].pc # "lock"
    /\ stack[g][i].pc # "lock" /\ stack[g][Len(stack[g])].pc = "lock" =>
         <<stack[g][i].ctx, stack[g][Len(stack[g])].ctx>> \in LockOrder

\* A call that begins keeps to LockOrder if it is to wait.
LEMMA CallOrdered ==
  ASSUME Inv, WaitOrdered, NEW g \in Goroutine, NEW f \in Frame, InGo(g), Push(g, f),
         f.pc = "lock" => MayLock(g, f.ctx)
  PROVE  WaitOrdered'
<1>1. PICK n : n = Len(stack[g])
  OBVIOUS
<1>2. /\ \A h \in Goroutine : h # g => stack'[h] = stack[h]
      /\ n \in Nat
      /\ Len(stack'[g]) = n + 1
      /\ stack'[g][n + 1] = f
      /\ \A i \in 1 .. n : /\ stack'[g][i].ctx = stack[g][i].ctx
                           /\ stack'[g][i].via = stack[g][i].via
                           /\ stack'[g][i].pc = stack[g][i].pc
      /\ stack[g] \in Seq(Frame)
  BY <1>1, PushShape DEF Inv, OthersSame, Same, TypeOK
<1>3. \A i \in 1 .. n : stack[g][i].pc # "lock" /\ stack[g][i].ctx \in Context
  <2> TAKE i \in 1 .. n
  <2>1. stack[g][i] \in Frame
    BY <1>1, <1>2
  <2>2. stack[g][i].ctx \in Context
    BY <2>1 DEF Frame
  <2>3. stack[g][n].pc = "go"
    <3>1. stack[g] # <<>>
      BY <1>1, <1>2
    <3>. QED  BY <1>1, <3>1 DEF InGo, At, Top
  <2>4. i \in 1 .. Len(stack[g]) /\ (i < Len(stack[g]) \/ i = n)
    BY <1>1, <1>2
  <2>5. i < Len(stack[g]) => stack[g][i].pc # "lock"
    BY <2>4 DEF WaitOrdered
  <2>. QED  BY <2>2, <2>3, <2>4, <2>5
<1>4. \A i \in 1 .. n : f.pc = "lock" => <<stack[g][i].ctx, f.ctx>> \in LockOrder
  BY <1>1, <1>3 DEF MayLock, Inside, Entered
<1>5. ASSUME NEW i \in 1 .. (n + 1)
      PROVE  /\ i < n + 1 => stack'[g][i].pc # "lock"
             /\ stack'[g][i].pc # "lock" /\ f.pc = "lock" =>
                  <<stack'[g][i].ctx, f.ctx>> \in LockOrder
  BY <1>2, <1>3, <1>4
<1> SUFFICES ASSUME NEW h \in Goroutine, NEW i \in 1 .. Len(stack'[h])
             PROVE  /\ i < Len(stack'[h]) => stack'[h][i].pc # "lock"
                    /\ stack'[h][i].pc # "lock" /\ stack'[h][Len(stack'[h])].pc = "lock" =>
                         <<stack'[h][i].ctx, stack'[h][Len(stack'[h])].ctx>> \in LockOrder
  BY DEF WaitOrdered
<1>6. CASE h = g
  BY <1>2, <1>5, <1>6
<1>7. CASE h # g
  BY <1>2, <1>7 DEF WaitOrdered
<1>. QED  BY <1>6, <1>7

\* A step within the innermost frame ends its waiting, if it waited.
LEMMA MoveOrdered ==
  ASSUME Inv, WaitOrdered, NEW g \in Goroutine, stack[g] # <<>>,
         NEW p \in {"js", "go"}, NEW w \in 0 .. MaxWork, SetTop(g, p, w)
  PROVE  WaitOrdered'
<1>1. PICK n : n = Len(stack[g])
  OBVIOUS
<1>2. /\ \A h \in Goroutine : h # g => stack'[h] = stack[h]
      /\ n \in Nat \ {0}
      /\ Len(stack'[g]) = n
      /\ \A i \in 1 .. n : stack'[g][i].pc = IF i = n THEN p ELSE stack[g][i].pc
  BY <1>1, SetTopShape DEF Inv, OthersSame
<1> SUFFICES ASSUME NEW h \in Goroutine, NEW i \in 1 .. Len(stack'[h])
             PROVE  /\ i < Len(stack'[h]) => stack'[h][i].pc # "lock"
                    /\ stack'[h][i].pc # "lock" /\ stack'[h][Len(stack'[h])].pc = "lock" =>
                         <<stack'[h][i].ctx, stack'[h][Len(stack'[h])].ctx>> \in LockOrder
  BY DEF WaitOrdered
<1>3. CASE h = g
  <2>1. i \in 1 .. n /\ n \in 1 .. n
    BY <1>2, <1>3
  <2>2. stack'[g][n].pc # "lock" /\ (i < n => stack'[g][i].pc # "lock")
    BY <1>1, <1>2, <2>1 DEF WaitOrdered
  <2>. QED  BY <1>2, <1>3, <2>2
<1>4. CASE h # g
  BY <1>2, <1>4 DEF WaitOrdered
<1>. QED  BY <1>3, <1>4

LEMMA NextOrdered == Inv /\ WaitOrdered /\ [Next]_vars => WaitOrdered'
<1> SUFFICES ASSUME Inv, WaitOrdered, [Next]_vars PROVE WaitOrdered'
  OBVIOUS
<1>1. ASSUME NEW g \in Goroutine, NEW c \in Context, NEW w \in 0 .. MaxWork,
             NEW via \in {"run", "bind"}, CallMethod(g, c, via, w)
      PROVE  WaitOrdered'
  <2>1. PICK f : f = [ctx |-> c, via |-> via, pc |-> "lock", work |-> w]
    OBVIOUS
  <2>2. f \in Frame /\ f.ctx = c
    BY <2>1 DEF Frame, Via
  <2>. QED  BY <1>1, <2>1, <2>2, CallOrdered DEF CallMethod
<1>2. ASSUME NEW g \in Goroutine, NEW c \in Context, NEW w \in 0 .. MaxWork,
             CallBound(g, c, w)
      PROVE  WaitOrdered'
  <2>1. PICK f : f = [ctx |-> c, via |-> "bound", pc |-> "lock", work |-> w]
    OBVIOUS
  <2>2. f \in Frame /\ f.ctx = c
    BY <2>1 DEF Frame, Via
  <2>. QED  BY <1>2, <2>1, <2>2, CallOrdered DEF CallBound
<1>3. ASSUME NEW g \in Goroutine, NEW c \in Context, NEW w \in 0 .. MaxWork,
             CallClosure(g, c, w)
      PROVE  WaitOrdered'
  <2>1. PICK f : f = [ctx |-> c, via |-> "closure", pc |-> "js", work |-> w]
    OBVIOUS
  <2>2. f \in Frame /\ f.pc # "lock"
    BY <2>1 DEF Frame, Via
  <2>. QED  BY <1>3, <2>1, <2>2, CallOrdered DEF CallClosure
<1>4. ASSUME NEW g \in Goroutine, stack[g] # <<>>
      PROVE  Top(g).work \in 0 .. MaxWork
  <2>1. stack[g] \in Seq(Frame) /\ Len(stack[g]) \in 1 .. Len(stack[g])
    BY <1>4 DEF Inv, TypeOK
  <2>2. Top(g) \in Frame
    BY <2>1 DEF Top
  <2>. QED  BY <2>2 DEF Frame
<1>5. ASSUME NEW g \in Goroutine, Lock(g) \/ GoReturns(g) PROVE WaitOrdered'
  <2>1. stack[g] # <<>> /\ SetTop(g, "js", Top(g).work)
    BY <1>5 DEF Lock, GoReturns, At
  <2>. QED  BY <1>4, <2>1, MoveOrdered
<1>6. ASSUME NEW g \in Goroutine, CallGo(g) PROVE WaitOrdered'
  <2>1. stack[g] # <<>> /\ SetTop(g, "go", Top(g).work - 1)
    BY <1>6 DEF CallGo, At
  <2>2. Top(g).work - 1 \in 0 .. MaxWork
    BY <1>4, <1>6, <2>1, BoundAssumption DEF CallGo
  <2>. QED  BY <2>1, <2>2, MoveOrdered
<1>7. ASSUME NEW g \in Goroutine, NEW ok \in BOOLEAN, Return(g, ok) PROVE WaitOrdered'
  <2>1. PICK n : n = Len(stack[g])
    OBVIOUS
  <2>2. /\ \A h \in Goroutine : h # g => stack'[h] = stack[h]
        /\ n \in Nat \ {0}
        /\ Len(stack'[g]) = n - 1
        /\ \A i \in 1 .. (n - 1) : stack'[g][i] = stack[g][i]
    BY <1>7, <2>1, PopShape DEF Inv, OthersSame, Return, At
  <2>3. \A i \in 1 .. (n - 1) : stack'[g][i].pc # "lock"
    <3> TAKE i \in 1 .. (n - 1)
    <3>1. i \in 1 .. Len(stack[g]) /\ i < Len(stack[g])
      BY <2>1, <2>2
    <3>2. stack[g][i].pc # "lock"
      BY <3>1 DEF WaitOrdered
    <3>. QED  BY <2>2, <3>2
  <2> SUFFICES ASSUME NEW h \in Goroutine, NEW i \in 1 .. Len(stack'[h])
               PROVE  /\ i < Len(stack'[h]) => stack'[h][i].pc # "lock"
                      /\ stack'[h][i].pc # "lock" /\ stack'[h][Len(stack'[h])].pc = "lock" =>
                           <<stack'[h][i].ctx, stack'[h][Len(stack'[h])].ctx>> \in LockOrder
    BY DEF WaitOrdered
  <2>4. CASE h = g
    <3>1. i \in 1 .. (n - 1) /\ n - 1 \in 1 .. (n - 1)
      BY <2>2, <2>4
    <3>. QED  BY <2>2, <2>3, <2>4, <3>1
  <2>5. CASE h # g
    BY <2>2, <2>5 DEF WaitOrdered
  <2>. QED  BY <2>4, <2>5
<1>8. ASSUME NEW g \in Goroutine, Panic(g) PROVE WaitOrdered'
  <2>1. stack'[g] = <<>> /\ \A h \in Goroutine : h # g => stack'[h] = stack[h]
    BY <1>8 DEF Panic, Inv, TypeOK
  <2>. QED  BY <2>1 DEF WaitOrdered
<1>9. CASE UNCHANGED vars
  BY <1>9 DEF vars, WaitOrdered
<1>. QED  BY <1>1, <1>2, <1>3, <1>5, <1>6, <1>7, <1>8, <1>9 DEF Next

\* LockOrder upside down: <<d, c>> when d may be locked inside c.
After == {<<e[2], e[1]>> : e \in LockOrder}

\* If the host keeps to a lock order that has no infinite ascent, and therefore
\* no cycle, no set of goroutines waits for itself.
THEOREM NoDeadlock ==
  ASSUME IsWellFoundedOn(After, Context), LockOrder \subseteq Context \X Context
  PROVE  Spec => []NoWaitCycle
<1>1. Inv /\ WaitOrdered => NoWaitCycle
  <2> SUFFICES ASSUME Inv, WaitOrdered, NEW S \in (SUBSET Goroutine) \ {{}},
                      \A g \in S : At(g, "lock") /\ mu[Top(g).ctx] \in S
               PROVE  FALSE
    <3>1. (Inv /\ WaitOrdered =>
             \A S \in (SUBSET Goroutine) \ {{}} :
               \E g \in S : ~ (At(g, "lock") /\ mu[Top(g).ctx] \in S))
          => (Inv /\ WaitOrdered => NoWaitCycle)
      BY DEF NoWaitCycle
    <3>. QED  BY <3>1, Zenon
  <2> DEFINE T == {Top(g).ctx : g \in S}
  <2>1. \A g \in S : /\ stack[g] # <<>> /\ stack[g] \in Seq(Frame)
                     /\ Len(stack[g]) \in Nat \ {0}
                     /\ Top(g) = stack[g][Len(stack[g])]
                     /\ Top(g).pc = "lock"
    BY DEF Inv, TypeOK, At, Top
  <2>2. \A g \in S : Top(g).ctx \in Context
    <3> TAKE g \in S
    <3>1. Top(g) \in Frame
      BY <2>1
    <3>. QED  BY <3>1 DEF Frame
  <2>3. PICK x \in T : \A y \in T : ~ (<<y, x>> \in After)
    <3>1. T \subseteq Context /\ T # {}
      BY <2>2
    <3>. HIDE DEF T
    <3>. QED  BY <3>1, WFMin
  <2>4. PICK h \in S : h = mu[x]
    BY <2>3
  <2>5. x \in Context /\ h \in Goroutine /\ mu[x] # None
    BY <2>2, <2>3, <2>4, NoneAssumption
  <2>6. PICK i \in 1 .. Len(stack[h]) : stack[h][i].ctx = x /\ stack[h][i].pc # "lock"
    BY <2>4, <2>5 DEF Inv, NoOrphanLock, Entered
  <2>7. <<x, Top(h).ctx>> \in LockOrder
    BY <2>1, <2>5, <2>6 DEF WaitOrdered
  <2>8. <<Top(h).ctx, x>> \in After
    BY <2>7 DEF After
  <2>. QED  BY <2>3, <2>8
<1>2. Init => WaitOrdered
  <2> SUFFICES ASSUME Init PROVE WaitOrdered
    OBVIOUS
  <2>1. \A g \in Goroutine : stack[g] = <<>>
    BY DEF Init
  <2>. QED  BY <2>1 DEF WaitOrdered
<1>. QED  BY <1>1, <1>2, InvHolds, NextOrdered, PTL DEF Spec

=============================================================================
