------------------------------- MODULE Async --------------------------------
(***************************************************************************)
(* The parts of the engine that work through jobs: promises, the loop of   *)
(* js_std_await, modules with top-level await, async generators.  Each     *)
(* part has its own state and is driven by scripts that do whatever they   *)
(* can.  They are checked one by one: a behaviour is about one part and    *)
(* leaves the others as they are in the beginning.                         *)
(***************************************************************************)
EXTENDS Promises, EventLoop, Modules, AsyncGenerators

CONSTANT Parts      \* the parts that a run is about

VARIABLE part

asyncVars == <<part, promisesVars, loopVars, moduleVars, generatorVars>>

AsyncInit ==
    /\ part \in Parts
    /\ PromisesInit /\ LoopInit /\ ModulesInit /\ GeneratorInit
    /\ part # "loop" => queued = 0
    /\ part # "modules" => graph = NoRequests

PromisesStep(A) == part = "promises" /\ A /\ UNCHANGED <<part, loopVars, moduleVars, generatorVars>>
LoopStep(A) == part = "loop" /\ A /\ UNCHANGED <<part, promisesVars, moduleVars, generatorVars>>
ModulesStep(A) == part = "modules" /\ A /\ UNCHANGED <<part, promisesVars, loopVars, generatorVars>>
GeneratorStep(A) == part = "generator" /\ A /\ UNCHANGED <<part, promisesVars, loopVars, moduleVars>>

AsyncNext ==
    \/ PromisesStep(PromisesNext)
    \/ LoopStep(LoopNext)
    \/ ModulesStep(ModulesNext)
    \/ GeneratorStep(GeneratorNext)

\* js_std_await waits for the promise of the async function, and runs jobs only
\* while that is pending.  (Without a handler of a descriptor the poll after a
\* job returns, see EventLoop.)
AwaitedJob == ~ Settled(1) /\ JS_ExecutePendingJob

\* A script ends (the bounds on its operations stand for that).  Time passes, and
\* the loop goes on when it can.  The bodies of modules settle, and what a
\* generator awaits.
AsyncFairness ==
    /\ WF_asyncVars(PromisesStep(AwaitedJob))
    /\ WF_asyncVars(PromisesStep(Returns))
    /\ WF_asyncVars(LoopStep(Loop))
    /\ WF_asyncVars(LoopStep(Tick))
    /\ BodiesSettle
    /\ WF_asyncVars(GeneratorStep(GeneratorGoesOn))

AsyncSpec == AsyncInit /\ [][AsyncNext]_asyncVars /\ AsyncFairness

\* The state of every part keeps its shape.
AsyncTypeOK == PromisesTypeOK /\ LoopTypeOK /\ ModulesTypeOK /\ GeneratorTypeOK
=============================================================================
