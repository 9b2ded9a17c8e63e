---------------------------- MODULE ContextCalls ----------------------------
(***************************************************************************)
(* Goroutines that use JsContexts (context.go, js-func.go, go-func.go).    *)
(* Every method of a JsContext takes ctx.mu, runs in the engine, and gives *)
(* ctx.mu back in a deferred call.  While a script runs, it may call Go    *)
(* functions (goFuncBridge, goObjGet, goObjSet), which run on the same     *)
(* goroutine with ctx.mu still held and may call methods in their turn:    *)
(* each goroutine has a stack of frames.                                   *)
(*                                                                         *)
(* A frame enters the engine in one of four ways:                          *)
(*   "run"     Eval, EvalFile, GetGlobal, CallFunc                         *)
(*   "bind"    BindFunc (BindFuncs is one BindFunc after another)          *)
(*   "bound"   a Go function variable set by BindFunc: wrapFunc            *)
(*   "closure" a JavaScript function that was converted to a Go function:  *)
(*             fromJsFunc, the only one that does not take ctx.mu          *)
(* A script is finite: it makes at most MaxWork calls to Go, and so does   *)
(* the Go code it calls to JavaScript.                                     *)
(***************************************************************************)
EXTENDS Integers, Sequences, FiniteSets

CONSTANTS
  Goroutine,
  Context,
  None,            \* the owner of a mutex that is not locked
  LockOrder,       \* <<c, d>>: Go code called by a script of c may lock d
  Escaping,        \* contexts whose closures are called from outside them too
  MaxDepth,        \* bound on the nesting of calls
  MaxWork          \* bound on the calls a frame makes

\* A mutex whose Unlock found it unlocked: the Go runtime ends the process.
Fatal == "fatal error: sync: unlock of unlocked mutex"

ASSUME NoneAssumption == None \notin Goroutine

ASSUME FatalAssumption == Fatal \notin Goroutine \cup {None}

ASSUME BoundAssumption == MaxDepth \in Nat /\ MaxWork \in Nat

VARIABLES
  mu,     \* mu[c]: the goroutine that holds ctx.mu of c
  stack,  \* stack[g]: the frames of goroutine g, the innermost one last
  bound,  \* contexts one of whose functions BindFunc has bound
  handed  \* contexts that have handed a JavaScript function to Go

vars == <<mu, stack, bound, handed>>

Via == {"run", "bind", "bound", "closure"}
Frame == [ctx : Context, via : Via, pc : {"lock", "js", "go"}, work : 0 .. MaxWork]

Top(g) == stack[g][Len(stack[g])]
Below(g) == SubSeq(stack[g], 1, Len(stack[g]) - 1)
At(g, p) == stack[g] # <<>> /\ Top(g).pc = p

\* Goroutine g is inside the engine of c, in its innermost frame or below it.
Entered(g, i, c) == stack[g][i].ctx = c /\ stack[g][i].pc # "lock"
Inside(g, c) == \E i \in 1 .. Len(stack[g]) : Entered(g, i, c)

Init ==
  /\ mu = [c \in Context |-> None]
  /\ stack = [g \in Goroutine |-> <<>>]
  /\ bound = {}
  /\ handed = {}

-----------------------------------------------------------------------------
\* Go code runs on g: it is no script's callee, or a script has called it.
InGo(g) ==
  \/ stack[g] = <<>>
  \/ /\ At(g, "go")
     /\ Top(g).work > 0
     /\ Len(stack[g]) < MaxDepth

\* A new frame; the call counts as work of the frame that makes it.
Push(g, f) ==
  stack' = [stack EXCEPT ![g] =
    IF @ = <<>> THEN <<f>>
    ELSE Append([@ EXCEPT ![Len(@)] =
                  [ctx |-> Top(g).ctx, via |-> Top(g).via,
                   pc |-> "go", work |-> Top(g).work - 1]], f)]

\* The host program keeps to LockOrder for all the contexts it is inside of.
MayLock(g, c) == \A d \in Context : Inside(g, d) => <<d, c>> \in LockOrder

\* Eval, EvalFile, GetGlobal, CallFunc, BindFunc: up to ctx.mu.Lock().
CallMethod(g, c, via, w) ==
  /\ via \in {"run", "bind"}
  /\ InGo(g)
  /\ MayLock(g, c)
  /\ Push(g, [ctx |-> c, via |-> via, pc |-> "lock", work |-> w])
  /\ UNCHANGED <<mu, bound, handed>>

\* The function that wrapFunc made: up to ctx.mu.Lock().
CallBound(g, c, w) ==
  /\ c \in bound
  /\ InGo(g)
  /\ MayLock(g, c)
  /\ Push(g, [ctx |-> c, via |-> "bound", pc |-> "lock", work |-> w])
  /\ UNCHANGED <<mu, bound, handed>>

\* A wrong closure: it takes ctx.mu like the other calls, although Go code that
\* its context has called already holds it.
CallClosureLocking(g, c, w) ==
  /\ c \in handed
  /\ InGo(g)
  /\ c \in Escaping \/ Inside(g, c)
  /\ Push(g, [ctx |-> c, via |-> "closure", pc |-> "lock", work |-> w])
  /\ UNCHANGED <<mu, bound, handed>>

\* The function that fromJsFunc made: straight into JS_Call.
CallClosure(g, c, w) ==
  /\ c \in handed
  /\ InGo(g)
  /\ c \in Escaping \/ Inside(g, c)
  /\ Push(g, [ctx |-> c, via |-> "closure", pc |-> "js", work |-> w])
  /\ UNCHANGED <<mu, bound, handed>>

SetTop(g, p, w) ==
  stack' = [stack EXCEPT ![g][Len(stack[g])] =
             [ctx |-> Top(g).ctx, via |-> Top(g).via, pc |-> p, work |-> w]]

\* A wrong lock: it does not wait.
LockAtOnce(g) ==
  /\ At(g, "lock")
  /\ mu' = [mu EXCEPT ![Top(g).ctx] = g]
  /\ SetTop(g, "js", Top(g).work)
  /\ UNCHANGED <<bound, handed>>

\* ctx.mu.Lock() returns.  sync.Mutex is not reentrant.
Lock(g) ==
  /\ At(g, "lock")
  /\ mu[Top(g).ctx] = None
  /\ mu' = [mu EXCEPT ![Top(g).ctx] = g]
  /\ SetTop(g, "js", Top(g).work)
  /\ UNCHANGED <<bound, handed>>

\* The script calls a Go function, a field or a method of a Go object; a
\* function among the arguments becomes a closure (fromJsValue).
CallGo(g) ==
  /\ At(g, "js")
  /\ Top(g).work > 0
  /\ SetTop(g, "go", Top(g).work - 1)
  /\ handed' \in {handed, handed \cup {Top(g).ctx}}
  /\ UNCHANGED <<mu, bound>>

\* A wrong bridge: a Go function that returns early is not noticed.
GoReturnsLate(g) ==
  /\ At(g, "go")
  /\ Top(g).work = 0
  /\ SetTop(g, "js", Top(g).work)
  /\ UNCHANGED <<mu, bound, handed>>

\* The Go function returns to the script, with a result or an error.
GoReturns(g) ==
  /\ At(g, "go")
  /\ SetTop(g, "js", Top(g).work)
  /\ UNCHANGED <<mu, bound, handed>>

\* sync.Mutex.Unlock does not ask who holds the mutex, only that it is held.
Unlocked(m) == IF m = None THEN Fatal ELSE None

\* A wrong unlock: the early return of a failed call leaves ctx.mu locked.
UnlockOnSuccess(g, ok) ==
  mu' = IF ok /\ Top(g).via # "closure" THEN [mu EXCEPT ![Top(g).ctx] = Unlocked(@)] ELSE mu

\* A wrong unlock: the closure defers ctx.mu.Unlock() like the other calls.
UnlockClosures(g, ok) ==
  mu' = [mu EXCEPT ![Top(g).ctx] = Unlocked(@)]

\* defer ctx.mu.Unlock(), whatever the call returns.
Unlock(g, ok) ==
  mu' = IF Top(g).via # "closure" THEN [mu EXCEPT ![Top(g).ctx] = Unlocked(@)] ELSE mu

\* The call returns: ok says whether with its result or with an error.
\* BindFunc has then set the Go variable; the others may return a function.
Return(g, ok) ==
  /\ At(g, "js")
  /\ Unlock(g, ok)
  /\ stack' = [stack EXCEPT ![g] = Below(g)]
  /\ bound' = IF ok /\ Top(g).via = "bind" THEN bound \cup {Top(g).ctx} ELSE bound
  /\ handed' \in {handed} \cup
       (IF ok /\ Top(g).via # "bind" THEN {handed \cup {Top(g).ctx}} ELSE {})

\* Go code panics: a function that a script has called, or a conversion on the
\* way in or out (makeJsValue of a nil pointer, fromJsArray of a huge array).
\* The panic unwinds all the frames of its goroutine up to a recover of the
\* host, and the deferred Unlock of each of them runs.
Defers(g, c) == \E i \in 1 .. Len(stack[g]) : Entered(g, i, c) /\ stack[g][i].via # "closure"

Panic(g) ==
  /\ At(g, "go") \/ At(g, "js")
  /\ mu' = [c \in Context |-> IF Defers(g, c) THEN Unlocked(mu[c]) ELSE mu[c]]
  /\ stack' = [stack EXCEPT ![g] = <<>>]
  /\ UNCHANGED <<bound, handed>>

Next ==
  \E g \in Goroutine :
    \/ \E c \in Context, w \in 0 .. MaxWork :
         \/ \E via \in {"run", "bind"} : CallMethod(g, c, via, w)
         \/ CallBound(g, c, w)
         \/ CallClosure(g, c, w)
    \/ Lock(g)
    \/ CallGo(g)
    \/ GoReturns(g)
    \/ \E ok \in BOOLEAN : Return(g, ok)
    \/ Panic(g)

Spec == Init /\ [][Next]_vars

(***************************************************************************)
(* A script that has the processor goes on, and so does Go code.  A        *)
(* goroutine that waits for a mutex which is released again and again gets *)
(* it (sync.Mutex hands over to the longest waiter when it starves).       *)
(***************************************************************************)
Step(g) == CallGo(g) \/ GoReturns(g) \/ \E ok \in BOOLEAN : Return(g, ok)

FairSpec ==
  /\ Spec
  /\ \A g \in Goroutine : WF_vars(Step(g)) /\ SF_vars(Lock(g))

-----------------------------------------------------------------------------
(***************************************************************************)
(* Shape of the mutexes and of the stacks.  No deferred Unlock meets a     *)
(* mutex that is not locked, which would end the process: every call that  *)
(* gives ctx.mu back took it itself, and nothing it called gave it back.   *)
(***************************************************************************)
TypeOK ==
  /\ mu \in [Context -> Goroutine \cup {None}]
  /\ stack \in [Goroutine -> Seq(Frame)]
  /\ bound \in SUBSET Context
  /\ handed \in SUBSET Context

(***************************************************************************)
(* A JSContext is not made for two threads: as long as closures are called *)
(* only from Go code that their own context has called, no two goroutines  *)
(* are inside the same engine, however the calls nest.                     *)
(***************************************************************************)
EngineExclusive ==
  \A c \in Context \ Escaping : \A g, h \in Goroutine :
    Inside(g, c) /\ Inside(h, c) => g = h

(***************************************************************************)
(* A mutex is held by a goroutine that is inside the engine because of it, *)
(* never by one that has returned, failed or panicked.                     *)
(***************************************************************************)
NoOrphanLock ==
  \A c \in Context : mu[c] \in Goroutine =>
    \E i \in 1 .. Len(stack[mu[c]]) :
      Entered(mu[c], i, c) /\ stack[mu[c]][i].via # "closure"

(***************************************************************************)
(* When two goroutines are inside one engine, one of them got there        *)
(* without the mutex: its outermost frame in that engine is a closure.     *)
(***************************************************************************)
OutermostIsClosure(g, c) ==
  \E i \in 1 .. Len(stack[g]) :
    /\ Entered(g, i, c) /\ stack[g][i].via = "closure"
    /\ \A j \in 1 .. (i - 1) : ~ Entered(g, j, c)

OverlapOnlyByClosure ==
  \A c \in Context : \A g, h \in Goroutine :
    g # h /\ Inside(g, c) /\ Inside(h, c) =>
      OutermostIsClosure(g, c) \/ OutermostIsClosure(h, c)

\* No set of goroutines waits for mutexes that are held within the set.
NoWaitCycle ==
  \A S \in (SUBSET Goroutine) \ {{}} :
    \E g \in S : ~ (At(g, "lock") /\ mu[Top(g).ctx] \in S)

\* Every call into a context returns: its goroutine is back at the bottom.
CallsReturn ==
  \A g \in Goroutine : stack[g] # <<>> ~> stack[g] = <<>>

(***************************************************************************)
(* "bind a var of golang func with a JS function name, so calling JS       *)
(* function is just calling the related golang func" (context.go:250): a   *)
(* call of the bound variable is a call of the function, and returns.      *)
(***************************************************************************)
BoundCallReturns ==
  \A g \in Goroutine :
    (stack[g] # <<>> /\ Top(g).via = "bound") ~> stack[g] = <<>>

=============================================================================
