----------------------------- MODULE LoadCache -----------------------------
(***************************************************************************)
(* The cache of script contexts (helper.go).  Goroutines call              *)
(* LoadFileFromCache while the files change under it.  A call holds the    *)
(* package's lock from beginning to end, but the file system does not know *)
(* that lock: between the steps of a call (evaluate the file, ask for its  *)
(* modification time) the file may be written or removed.                  *)
(*                                                                         *)
(* InitCache takes no lock: two goroutines that call it for the first time *)
(* may both make a lock and a map; the model tells when that has happened  *)
(* and does not follow what comes of it.  A script that is being loaded may call *)
(* a Go function, and that LoadFileFromCache again.                        *)
(*                                                                         *)
(* The n-th write of a file gives it version n, and n is also its          *)
(* modification time.  A context is known by the version it evaluated.     *)
(***************************************************************************)
EXTENDS Integers, FiniteSets

CONSTANTS
  Goroutine,
  Path,
  Ctx,         \* identities of JsContexts; unreferenced ones are used again
  None,        \* no goroutine, no context, no time
  MaxVersion   \* bound on the writes of a file

ASSUME NoneAssumption == None \notin Goroutine \cup Ctx \cup Nat

ASSUME VersionAssumption == MaxVersion \in Nat

VARIABLES
  file,    \* file[p]: [ver, exists]
  lock,    \* the mutex lock points to, known by the goroutine that made it
  holder,  \* holder[m]: the goroutine that holds mutex m
  made,    \* jsCtxCache is a map, and not nil
  cache,   \* jsCtxCache: a function from some paths to [jsvm, mt]
  pc,      \* where each goroutine is in InitCache or LoadFileFromCache
  loc,     \* its local variables: [path, ctx, mt, mutex, deferred]
  res,     \* what its last call returned: [ctx, existing, err]
  ver,     \* ver[x]: the version that context x evaluated, 0 if it failed
  raced,   \* paths changed between the evaluation and the Stat of a first load
  initRaced \* two calls of InitCache both found no lock (history)

locks == <<lock, holder, made, initRaced>>
vars == <<file, locks, cache, pc, loc, res, ver, raced>>

NoLocals == [path |-> None, ctx |-> None, mt |-> None, mutex |-> None, deferred |-> None]
NoResult == [ctx |-> None, existing |-> FALSE, err |-> FALSE]

Init ==
  /\ file = [p \in Path |-> [ver |-> 0, exists |-> FALSE]]
  /\ lock = None /\ holder = [g \in Goroutine |-> None] /\ made = FALSE /\ initRaced = FALSE
  /\ cache = [p \in {} |-> None]
  /\ pc = [g \in Goroutine |-> "idle"]
  /\ loc = [g \in Goroutine |-> NoLocals]
  /\ res = [g \in Goroutine |-> NoResult]
  /\ ver = [x \in Ctx |-> 0]
  /\ raced = {}

-----------------------------------------------------------------------------
\* The file system.  A write or a removal between the evaluation of a file and
\* its first Stat is remembered in raced.
Racing(p) ==
  {q \in {p} : \E g \in Goroutine : pc[g] = "statFirst" /\ loc[g].path = q}

Write(p) ==
  /\ file[p].ver < MaxVersion
  /\ file' = [file EXCEPT ![p] = [ver |-> file[p].ver + 1, exists |-> TRUE]]
  /\ raced' = raced \cup Racing(p)
  /\ UNCHANGED <<locks, cache, pc, loc, res, ver>>

Delete(p) ==
  /\ file[p].exists
  /\ file' = [file EXCEPT ![p] = [ver |-> file[p].ver, exists |-> FALSE]]
  /\ raced' = raced \cup Racing(p)
  /\ UNCHANGED <<locks, cache, pc, loc, res, ver>>

-----------------------------------------------------------------------------
\* A wrong InitCache: it does not look whether it has been called before.
InitCacheAgain(g) ==
  /\ pc[g] = "idle"
  /\ pc' = [pc EXCEPT ![g] = "init"]
  /\ UNCHANGED <<file, locks, cache, loc, res, ver, raced>>

\* InitCache: a call that finds a lock does nothing.
InitCache(g) ==
  /\ pc[g] = "idle" /\ lock = None
  /\ pc' = [pc EXCEPT ![g] = "init"]
  /\ initRaced' = (initRaced \/ \E o \in Goroutine : pc[o] = "init")
  /\ UNCHANGED <<file, lock, holder, made, cache, loc, res, ver, raced>>

InitLock(g) ==
  /\ pc[g] = "init"
  /\ lock' = g
  /\ pc' = [pc EXCEPT ![g] = "initMap"]
  /\ UNCHANGED <<file, holder, made, initRaced, cache, loc, res, ver, raced>>

InitMap(g) ==
  /\ pc[g] = "initMap"
  /\ made' = TRUE /\ cache' = [p \in {} |-> None]
  /\ pc' = [pc EXCEPT ![g] = "idle"]
  /\ UNCHANGED <<file, lock, holder, initRaced, loc, res, ver, raced>>

\* LoadFileFromCache(path): up to lock.Lock().  Before InitCache the lock is a
\* nil pointer and the call panics.
Load(g, p) ==
  /\ pc[g] = "idle"
  /\ loc' = [loc EXCEPT ![g] = [NoLocals EXCEPT !.path = p, !.mutex = lock]]
  /\ res' = [res EXCEPT ![g] = NoResult]
  /\ pc' = [pc EXCEPT ![g] = IF lock # None THEN "lock" ELSE "panic"]
  /\ UNCHANGED <<file, locks, cache, ver, raced>>

\* lock.Lock() returns; the defer statement looks at lock again, and the path
\* is looked up.
Lock(g) ==
  /\ pc[g] = "lock" /\ holder[loc[g].mutex] = None
  /\ holder' = [holder EXCEPT ![loc[g].mutex] = g]
  /\ loc' = [loc EXCEPT ![g].deferred = lock]
  /\ pc' = [pc EXCEPT ![g] = IF loc[g].path \in DOMAIN cache THEN "stat" ELSE "create"]
  /\ UNCHANGED <<file, lock, made, initRaced, cache, res, ver, raced>>

\* The call returns, and the deferred lock.Unlock() runs.
Return(g, r) ==
  /\ holder' = [holder EXCEPT ![loc[g].deferred] = None]
  /\ pc' = [pc EXCEPT ![g] = "idle"]
  /\ res' = [res EXCEPT ![g] = r]

\* Contexts that nothing refers to any more.
Unused ==
  Ctx \ ({cache[p].jsvm : p \in DOMAIN cache}
         \cup {loc[g].ctx : g \in Goroutine} \cup {res[g].ctx : g \in Goroutine})

(***************************************************************************)
(* createJSContext fails: NewContext does (there is no context then), or   *)
(* EvalFile does, because a value of vars cannot be converted, the file is *)
(* not there or its script throws (the half-made context is returned       *)
(* together with the error).                                               *)
(***************************************************************************)
CreateFails(g) ==
  /\ pc[g] \in {"create", "reload"}
  /\ \/ /\ UNCHANGED ver
        /\ Return(g, [ctx |-> None, existing |-> FALSE, err |-> TRUE])
     \/ \E x \in Unused :
          /\ ver' = [ver EXCEPT ![x] = 0]
          /\ Return(g, [ctx |-> x, existing |-> FALSE, err |-> TRUE])
  /\ UNCHANGED <<file, lock, made, initRaced, cache, loc, raced>>

\* A wrong createJSContext: nobody looks at the error of EvalFile.
EvaluatedUnchecked(g, x) ==
  /\ x \in Unused
  /\ ver' = [ver EXCEPT ![x] =
              IF file[loc[g].path].exists THEN file[loc[g].path].ver ELSE 0]

\* createJSContext succeeds: a new context has evaluated the file as it is now.
Evaluated(g, x) ==
  /\ x \in Unused
  /\ file[loc[g].path].exists
  /\ ver' = [ver EXCEPT ![x] = file[loc[g].path].ver]

\* A first load: the context is there, the Stat comes next.
CreateFirst(g, x) ==
  /\ pc[g] = "create"
  /\ Evaluated(g, x)
  /\ loc' = [loc EXCEPT ![g].ctx = x]
  /\ pc' = [pc EXCEPT ![g] = "statFirst"]
  /\ raced' = raced \ {loc[g].path}
  /\ UNCHANGED <<file, locks, cache, res>>

\* jsCtxCache[path] = jsC
Put(p, x, t) ==
  cache' = [q \in DOMAIN cache \cup {p} |->
             IF q = p THEN [jsvm |-> x, mt |-> t] ELSE cache[q]]

\* A wrong first load: without a Stat the entry has no time.
StatFirstNoTime(g) ==
  /\ pc[g] = "statFirst"
  /\ Put(loc[g].path, loc[g].ctx,
         IF file[loc[g].path].exists THEN file[loc[g].path].ver ELSE None)
  /\ Return(g, [ctx |-> loc[g].ctx, existing |-> FALSE, err |-> FALSE])
  /\ UNCHANGED <<file, lock, made, initRaced, loc, ver, raced>>

\* os.Stat of a first load.  Its error is dropped: when the file has gone in
\* the meantime, fi is nil and fi.ModTime() panics; so does the assignment to a
\* map that InitCache has not made yet.  The lock is released.
StatFirst(g) ==
  /\ pc[g] = "statFirst"
  /\ file[loc[g].path].exists /\ made
  /\ Put(loc[g].path, loc[g].ctx, file[loc[g].path].ver)
  /\ Return(g, [ctx |-> loc[g].ctx, existing |-> FALSE, err |-> FALSE])
  /\ UNCHANGED <<file, lock, made, initRaced, loc, ver, raced>>

StatFirstPanics(g) ==
  /\ pc[g] = "statFirst"
  /\ ~ file[loc[g].path].exists \/ ~ made
  /\ holder' = [holder EXCEPT ![loc[g].deferred] = None]
  /\ pc' = [pc EXCEPT ![g] = "panic"]
  /\ UNCHANGED <<file, lock, made, initRaced, cache, loc, res, ver, raced>>

\* The script that is being loaded calls a Go function which loads a file: the
\* goroutine waits for a mutex that it holds itself, unless lock has changed.
NestedLoad(g) ==
  /\ pc[g] \in {"create", "reload"} /\ holder[lock] = g
  /\ pc' = [pc EXCEPT ![g] = "nested"]
  /\ UNCHANGED <<file, locks, cache, loc, res, ver, raced>>

\* os.Stat of a path that is in the cache: it fails; the time is the one in the
\* cache; or it is another one and the file is evaluated again.
StatFails(g) ==
  /\ pc[g] = "stat"
  /\ ~ file[loc[g].path].exists
  /\ Return(g, [ctx |-> None, existing |-> FALSE, err |-> TRUE])
  /\ UNCHANGED <<file, lock, made, initRaced, cache, loc, ver, raced>>

StatHit(g) ==
  /\ pc[g] = "stat"
  /\ file[loc[g].path].exists
  /\ file[loc[g].path].ver = cache[loc[g].path].mt
  /\ Return(g, [ctx |-> cache[loc[g].path].jsvm, existing |-> TRUE, err |-> FALSE])
  /\ UNCHANGED <<file, lock, made, initRaced, cache, loc, ver, raced>>

StatChanged(g) ==
  /\ pc[g] = "stat"
  /\ file[loc[g].path].exists
  /\ file[loc[g].path].ver # cache[loc[g].path].mt
  /\ loc' = [loc EXCEPT ![g].mt = file[loc[g].path].ver]
  /\ pc' = [pc EXCEPT ![g] = "reload"]
  /\ UNCHANGED <<file, locks, cache, res, ver, raced>>

\* Wrong reloads: the call starts over without having stored the new time; the
\* time is asked for when the evaluation is over.
ReloadAgain(g, x) ==
  /\ pc[g] = "reload"
  /\ Evaluated(g, x)
  /\ pc' = [pc EXCEPT ![g] = "stat"]
  /\ UNCHANGED <<file, locks, cache, loc, res, raced>>

ReloadStatLast(g, x) ==
  /\ pc[g] = "reload"
  /\ Evaluated(g, x)
  /\ \E t \in file[loc[g].path].ver .. MaxVersion : Put(loc[g].path, x, t)
  /\ Return(g, [ctx |-> x, existing |-> FALSE, err |-> FALSE])
  /\ raced' = raced \ {loc[g].path}
  /\ UNCHANGED <<file, lock, made, initRaced, loc>>

\* The reload: jsC.jsvm = ctx; jsC.mt = mt, the time found before it.
Reload(g, x) ==
  /\ pc[g] = "reload"
  /\ Evaluated(g, x)
  /\ Put(loc[g].path, x, loc[g].mt)
  /\ Return(g, [ctx |-> x, existing |-> FALSE, err |-> FALSE])
  /\ raced' = raced \ {loc[g].path}
  /\ UNCHANGED <<file, lock, made, initRaced, loc>>

\* The host recovers from a panic and may call again.
Recover(g) ==
  /\ pc[g] = "panic"
  /\ pc' = [pc EXCEPT ![g] = "idle"]
  /\ UNCHANGED <<file, locks, cache, loc, res, ver, raced>>

Step(g) ==
  \/ CreateFails(g)
  \/ \E x \in Ctx : CreateFirst(g, x) \/ Reload(g, x)
  \/ StatFirst(g) \/ StatFirstPanics(g)
  \/ StatFails(g) \/ StatHit(g) \/ StatChanged(g)
  \/ Recover(g)
  \/ InitLock(g) \/ InitMap(g)

Next ==
  /\ ~ initRaced
  /\ \/ \E p \in Path : Write(p) \/ Delete(p)
     \/ \E g \in Goroutine :
          \/ InitCache(g) \/ NestedLoad(g)
          \/ \E p \in Path : Load(g, p)
          \/ Lock(g)
          \/ Step(g)

Spec == Init /\ [][Next]_vars

\* A call that has the lock goes on, and sync.Mutex starves nobody.
FairSpec ==
  /\ Spec
  /\ \A g \in Goroutine : WF_vars(~ initRaced /\ Step(g)) /\ SF_vars(~ initRaced /\ Lock(g))

-----------------------------------------------------------------------------
Time == 0 .. MaxVersion
Locals == [path : Path \cup {None}, ctx : Ctx \cup {None}, mt : Time \cup {None},
           mutex : Goroutine \cup {None}, deferred : Goroutine \cup {None}]
Results == [ctx : Ctx \cup {None}, existing : BOOLEAN, err : BOOLEAN]

\* Shape of the state.
TypeOK ==
  /\ file \in [Path -> [ver : Time, exists : BOOLEAN]]
  /\ lock \in Goroutine \cup {None} /\ holder \in [Goroutine -> Goroutine \cup {None}]
  /\ made \in BOOLEAN /\ initRaced \in BOOLEAN
  /\ DOMAIN cache \subseteq Path
  /\ cache \in [DOMAIN cache -> [jsvm : Ctx, mt : Time]]
  /\ pc \in [Goroutine -> {"idle", "init", "initMap", "lock", "create", "statFirst", "stat",
                          "reload", "nested", "panic"}]
  /\ loc \in [Goroutine -> Locals]
  /\ res \in [Goroutine -> Results]
  /\ ver \in [Ctx -> Time]
  /\ raced \in SUBSET Path

Busy(g) == pc[g] \in {"create", "statFirst", "stat", "reload"}

(***************************************************************************)
(* A hit serves what is on disk: an entry with the file's current time     *)
(* holds a context that evaluated the current version, except after a      *)
(* first load during which the file changed.  The reload is safe because   *)
(* it asks for the time before it evaluates; the first load asks after.    *)
(***************************************************************************)
StaleOnlyIfRaced ==
  \A p \in DOMAIN cache :
    cache[p].mt = file[p].ver /\ ver[cache[p].jsvm] # file[p].ver => p \in raced

(***************************************************************************)
(* A context whose script failed is never in the cache, and never returned *)
(* without an error, though the failed call does return it.                *)
(***************************************************************************)
CachedContextGood ==
  /\ \A p \in DOMAIN cache : ver[cache[p].jsvm] > 0
  /\ \A g \in Goroutine :
       res[g].ctx # None /\ ~ res[g].err => ver[res[g].ctx] > 0

(***************************************************************************)
(* One goroutine at a time is between lock.Lock() and the end of its call, *)
(* and it will unlock the mutex that it locked, unless two first calls of  *)
(* InitCache overlapped and made two locks: one that overlaps with loads   *)
(* does no harm.                                                           *)
(***************************************************************************)
OneLoader ==
  \/ initRaced
  \/ /\ Cardinality({g \in Goroutine : Busy(g)}) <= 1
     /\ \A g \in Goroutine : Busy(g) => holder[loc[g].deferred] = g

\* Every call comes to an end, with a result, an error or a panic, unless two
\* calls of InitCache overlapped, or a script that was being loaded loaded
\* another: then the lock stays locked and everybody waits.
LoadsEnd ==
  \A g \in Goroutine :
    pc[g] # "idle" ~> (pc[g] = "idle" \/ initRaced \/ \E o \in Goroutine : pc[o] = "nested")

=============================================================================
