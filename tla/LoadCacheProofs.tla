-------------------------- MODULE LoadCacheProofs ---------------------------
(***************************************************************************)
(* Proofs about LoadCache for every number of goroutines, paths, contexts  *)
(* and versions.                                                           *)
(*                                                                         *)
(* What a hit serves (StaleOnlyIfRaced) rests on three things that the     *)
(* code never says in one place: the package's lock is made once and kept  *)
(* (LockKept), so that the goroutine inside LoadFileFromCache is the only  *)
(* one that changes the cache (Alone), and what that goroutine remembers   *)
(* from an earlier step is still true of the cache, and of the file but    *)
(* for a write or a removal (Remembered).                                  *)
(***************************************************************************)
EXTENDS LoadCache, FiniteSetTheorems, TLAPS

Inside(g) == Busy(g) \/ pc[g] = "nested"

\* lock is set once, by the only call of InitCache that found none, and before
\* the map is there.
LockKept ==
  /\ \A g \in Goroutine : pc[g] = "init" => lock = None
  /\ \A g \in Goroutine : pc[g] = "initMap" => lock = g
  /\ made => lock # None /\ \A g \in Goroutine : pc[g] # "initMap"
  /\ initRaced \/ \A g, o \in Goroutine : pc[g] = "init" /\ pc[o] = "init" => g = o

\* A call waits for that lock, holds it and will release it.
Alone ==
  \A g \in Goroutine :
    /\ pc[g] = "lock" \/ Inside(g) =>
         /\ lock # None /\ loc[g].mutex = lock /\ loc[g].path \in Path
    /\ Inside(g) => loc[g].deferred = lock /\ holder[lock] = g

\* What the steps of a call have found out still holds in the next one.
Remembered ==
  \A g \in Goroutine :
    /\ pc[g] \in {"create", "statFirst"} => loc[g].path \notin DOMAIN cache
    /\ pc[g] \in {"stat", "reload"} => loc[g].path \in DOMAIN cache
    /\ pc[g] = "reload" => loc[g].mt \in Time /\ loc[g].mt <= file[loc[g].path].ver
    /\ pc[g] = "statFirst" =>
         /\ loc[g].ctx \in Ctx /\ ver[loc[g].ctx] > 0
         /\ ver[loc[g].ctx] = file[loc[g].path].ver \/ loc[g].path \in raced

\* The times of the cache lie in the past.
Past ==
  /\ \A p \in Path : file[p].exists => file[p].ver > 0
  /\ \A p \in DOMAIN cache : made /\ cache[p].mt <= file[p].ver

Inv == TypeOK /\ LockKept /\ Alone /\ Remembered /\ Past /\ StaleOnlyIfRaced /\ CachedContextGood

-----------------------------------------------------------------------------
\* Whoever is inside a call has the lock; nobody else is.
LEMMA OnlyOne ==
  ASSUME Inv, NEW g \in Goroutine, NEW o \in Goroutine, Inside(g), Inside(o)
  PROVE  g = o
BY DEF Inv, Alone

\* A context that nothing refers to can be evaluated without a trace elsewhere.
LEMMA UnusedUnseen ==
  ASSUME Inv, NEW x \in Unused
  PROVE  /\ \A p \in DOMAIN cache : cache[p].jsvm # x
         /\ \A g \in Goroutine : loc[g].ctx # x /\ res[g].ctx # x
BY DEF Unused

-----------------------------------------------------------------------------
\* The file system.  A write gives the file a time that no entry has; what a
\* first load has evaluated may be out of date then, and raced tells.
LEMMA FileInv ==
  ASSUME Inv, NEW p \in Path, Write(p) \/ Delete(p)
  PROVE  Inv'
<1> USE VersionAssumption DEF Write, Delete, locks
<1>1. /\ file' \in [Path -> [ver : Time, exists : BOOLEAN]]
      /\ \A q \in Path : /\ file[q].ver <= file'[q].ver
                         /\ q # p => file'[q] = file[q]
                         /\ file'[q].exists => file'[q].ver > 0
  <2>1. CASE Write(p)
    BY <2>1 DEF Inv, TypeOK, Time, Past
  <2>2. CASE Delete(p)
    BY <2>2 DEF Inv, TypeOK, Time, Past
  <2>. QED  BY <2>1, <2>2
<1>2. raced \subseteq raced' /\ raced' \subseteq Path
  BY DEF Inv, TypeOK, Racing
<1>3. TypeOK'
  BY <1>1, <1>2 DEF Inv, TypeOK
<1>4. (LockKept /\ Alone /\ CachedContextGood)'
  BY DEF Inv, LockKept, Alone, Inside, Busy, CachedContextGood
<1>5. Remembered'
  BY <1>1, <1>2, SMTT(60) DEF Inv, TypeOK, Time, Remembered, Racing, Alone, Inside, Busy
<1>6. Past'
  BY <1>1 DEF Inv, TypeOK, Time, Past
<1>7. StaleOnlyIfRaced'
  <2>1. \A q \in DOMAIN cache : cache[q].mt = file'[q].ver => file'[q].ver = file[q].ver
    BY DEF Inv, TypeOK, Time, Past
  <2>. QED  BY <1>2, <2>1 DEF Inv, StaleOnlyIfRaced
<1>. QED  BY <1>3, <1>4, <1>5, <1>6, <1>7 DEF Inv

-----------------------------------------------------------------------------
\* InitCache.  No call is between lock.Lock() and its end while there is no
\* lock, and the map that is made replaces an empty one.
LEMMA InitCacheInv ==
  ASSUME Inv, NEW g \in Goroutine, InitCache(g)
  PROVE  Inv'
<1> USE DEF InitCache
<1>1. TypeOK'
  BY DEF Inv, TypeOK
<1>2. (LockKept /\ Alone)'
  BY DEF Inv, TypeOK, LockKept, Alone, Inside, Busy
<1>3. (Remembered /\ Past /\ StaleOnlyIfRaced /\ CachedContextGood)'
  BY DEF Inv, TypeOK, Remembered, Past, StaleOnlyIfRaced, CachedContextGood
<1>. QED  BY <1>1, <1>2, <1>3 DEF Inv

LEMMA InitLockInv ==
  ASSUME Inv, ~ initRaced, NEW g \in Goroutine, InitLock(g)
  PROVE  Inv'
<1> USE NoneAssumption DEF InitLock
<1>1. TypeOK'
  BY DEF Inv, TypeOK
<1>2. lock = None /\ \A o \in Goroutine : pc[o] # "lock" /\ ~ Inside(o)
  BY DEF Inv, LockKept, Alone
<1>3. (LockKept /\ Alone)'
  BY <1>2 DEF Inv, TypeOK, LockKept, Alone, Inside, Busy
<1>4. (Remembered /\ Past /\ StaleOnlyIfRaced /\ CachedContextGood)'
  BY DEF Inv, TypeOK, Remembered, Past, StaleOnlyIfRaced, CachedContextGood
<1>. QED  BY <1>1, <1>3, <1>4 DEF Inv

LEMMA InitMapInv ==
  ASSUME Inv, NEW g \in Goroutine, InitMap(g)
  PROVE  Inv'
<1> USE NoneAssumption DEF InitMap
<1>1. DOMAIN cache = {} /\ DOMAIN cache' = {}
  BY DEF Inv, LockKept, Past
<1>2. TypeOK'
  BY <1>1 DEF Inv, TypeOK
<1>3. (LockKept /\ Alone)'
  BY DEF Inv, TypeOK, LockKept, Alone, Inside, Busy
<1>4. (Remembered /\ Past /\ StaleOnlyIfRaced /\ CachedContextGood)'
  BY <1>1 DEF Inv, TypeOK, Remembered, Past, StaleOnlyIfRaced, CachedContextGood
<1>. QED  BY <1>2, <1>3, <1>4 DEF Inv

-----------------------------------------------------------------------------
\* LoadFileFromCache: waiting for the lock, and getting it.
LEMMA LoadInv ==
  ASSUME Inv, NEW g \in Goroutine, NEW p \in Path, Load(g, p)
  PROVE  Inv'
<1> USE NoneAssumption DEF Load, NoLocals, NoResult, locks
<1>1. TypeOK'
  BY DEF Inv, TypeOK, Locals, Results
<1>2. (LockKept /\ Alone)'
  BY DEF Inv, TypeOK, LockKept, Alone, Inside, Busy
<1>3. (Remembered /\ Past /\ StaleOnlyIfRaced /\ CachedContextGood)'
  BY DEF Inv, TypeOK, Remembered, Past, StaleOnlyIfRaced, CachedContextGood
<1>. QED  BY <1>1, <1>2, <1>3 DEF Inv

LEMMA LockInv ==
  ASSUME Inv, NEW g \in Goroutine, Lock(g)
  PROVE  Inv'
<1> USE NoneAssumption DEF Lock
<1>1. lock \in Goroutine /\ loc[g].mutex = lock /\ loc[g].path \in Path
  BY DEF Inv, TypeOK, Alone
<1>2. \A o \in Goroutine : ~ Inside(o)
  BY <1>1 DEF Inv, Alone
<1>3. TypeOK'
  <2>1. holder' \in [Goroutine -> Goroutine \cup {None}]
    BY <1>1 DEF Inv, TypeOK
  <2>2. [loc[g] EXCEPT !.deferred = lock] \in Locals
    <3>1. loc[g] \in Locals /\ lock \in Goroutine \cup {None}
      BY DEF Inv, TypeOK
    <3>. QED  BY ONLY <3>1 DEF Locals
  <2>. QED  BY <2>1, <2>2 DEF Inv, TypeOK
<1>4. (LockKept /\ Alone)'
  BY <1>1, <1>2 DEF Inv, TypeOK, LockKept, Alone, Inside, Busy
<1>5. (Remembered /\ Past /\ StaleOnlyIfRaced /\ CachedContextGood)'
  BY DEF Inv, TypeOK, Remembered, Past, StaleOnlyIfRaced, CachedContextGood
<1>. QED  BY <1>3, <1>4, <1>5 DEF Inv

-----------------------------------------------------------------------------
\* The end of a call releases the lock that it took, whatever it returns.
LEMMA ReturnAlone ==
  ASSUME Inv, NEW g \in Goroutine, Inside(g), NEW q \in {"idle", "panic"},
         holder' = [holder EXCEPT ![loc[g].deferred] = None],
         pc' = [pc EXCEPT ![g] = q],
         UNCHANGED <<lock, made, initRaced, loc>>
  PROVE  /\ (LockKept /\ Alone)' /\ holder' \in [Goroutine -> Goroutine \cup {None}]
         /\ pc'[g] = q /\ \A o \in Goroutine : o # g => pc'[o] = pc[o]
<1>1. \A o \in Goroutine : o # g => ~ Inside(o)
  BY OnlyOne
<1>. QED  BY <1>1, NoneAssumption DEF Inv, TypeOK, LockKept, Alone, Inside, Busy

\* A call that returns an error, or what the cache has, changes nothing else.
LEMMA StatFailsHitInv ==
  ASSUME Inv, NEW g \in Goroutine, StatFails(g) \/ StatHit(g)
  PROVE  Inv'
<1> USE NoneAssumption DEF StatFails, StatHit, Return
<1>1. Inside(g) /\ loc[g].path \in DOMAIN cache
  BY DEF Inv, Remembered, Inside, Busy
<1>2. (LockKept /\ Alone)' /\ holder' \in [Goroutine -> Goroutine \cup {None}]
  BY <1>1, ReturnAlone
<1>3. TypeOK'
  <2>1. PICK r \in Results : res' = [res EXCEPT ![g] = r]
    BY <1>1 DEF Inv, TypeOK, Results
  <2>. QED  BY <1>2, <2>1 DEF Inv, TypeOK
<1>4. (Remembered /\ Past /\ StaleOnlyIfRaced)'
  BY SMTT(60) DEF Inv, TypeOK, Remembered, Past, StaleOnlyIfRaced
<1>5. CachedContextGood'
  BY <1>1 DEF Inv, TypeOK, CachedContextGood
<1>. QED  BY <1>2, <1>3, <1>4, <1>5 DEF Inv

LEMMA StatFirstPanicsInv ==
  ASSUME Inv, NEW g \in Goroutine, StatFirstPanics(g)
  PROVE  Inv'
<1> USE DEF StatFirstPanics
<1>1. Inside(g)
  BY DEF Inside, Busy
<1>2. (LockKept /\ Alone)' /\ holder' \in [Goroutine -> Goroutine \cup {None}]
  BY <1>1, ReturnAlone
<1>3. TypeOK'
  BY <1>2 DEF Inv, TypeOK
<1>4. (Remembered /\ Past /\ StaleOnlyIfRaced /\ CachedContextGood)'
  BY DEF Inv, TypeOK, Remembered, Past, StaleOnlyIfRaced, CachedContextGood
<1>. QED  BY <1>2, <1>3, <1>4 DEF Inv

\* A script that fails leaves a context that only its caller sees.
LEMMA CreateFailsInv ==
  ASSUME Inv, NEW g \in Goroutine, CreateFails(g)
  PROVE  Inv'
<1> USE DEF CreateFails, Return
<1>1. Inside(g)
  BY DEF Inside, Busy
<1>2. (LockKept /\ Alone)' /\ holder' \in [Goroutine -> Goroutine \cup {None}]
  BY <1>1, ReturnAlone
<1>3. PICK x \in Unused \cup {None} :
         /\ res' = [res EXCEPT ![g] = [ctx |-> x, existing |-> FALSE, err |-> TRUE]]
         /\ IF x = None THEN ver' = ver ELSE ver' = [ver EXCEPT ![x] = 0]
  BY NoneAssumption DEF Unused
<1>4. x \in Ctx \cup {None} /\ ver' \in [Ctx -> Time]
  BY <1>3, VersionAssumption DEF Inv, TypeOK, Unused, Time
<1>5. TypeOK'
  <2>1. [ctx |-> x, existing |-> FALSE, err |-> TRUE] \in Results
    BY <1>4 DEF Results
  <2>. QED  BY <1>2, <1>3, <1>4, <2>1 DEF Inv, TypeOK
<1>6. /\ \A p \in DOMAIN cache : ver'[cache[p].jsvm] = ver[cache[p].jsvm]
      /\ \A o \in Goroutine : /\ ver'[loc[o].ctx] = ver[loc[o].ctx]
                              /\ ver'[res[o].ctx] = ver[res[o].ctx]
  <2>1. CASE x = None
    BY <1>3, <2>1
  <2>2. CASE x \in Unused
    <3>1. ver' = [ver EXCEPT ![x] = 0] /\ x \in Ctx
      BY <1>3, <2>2, NoneAssumption DEF Unused
    <3>. QED  BY <2>2, <3>1, UnusedUnseen DEF Inv, TypeOK
  <2>. QED  BY <2>1, <2>2
<1>7. (Remembered /\ Past /\ StaleOnlyIfRaced)'
  BY <1>6 DEF Inv, TypeOK, Remembered, Past, StaleOnlyIfRaced
<1>8. CachedContextGood'
  BY <1>3, <1>6 DEF Inv, TypeOK, CachedContextGood
<1>. QED  BY <1>2, <1>5, <1>7, <1>8 DEF Inv

-----------------------------------------------------------------------------
\* A first load: what it has evaluated is up to date until the file changes,
\* and nobody else enters the path into the cache meanwhile.
LEMMA CreateFirstInv ==
  ASSUME Inv, NEW g \in Goroutine, NEW x \in Ctx, CreateFirst(g, x)
  PROVE  Inv'
<1> USE DEF CreateFirst, Evaluated, locks
<1>1. Inside(g) /\ loc[g].path \in Path /\ loc[g].path \notin DOMAIN cache
  BY DEF Inv, Alone, Remembered, Inside, Busy
<1>2. TypeOK'
  <2>1. [loc[g] EXCEPT !.ctx = x] \in Locals
    <3>1. loc[g] \in Locals
      BY DEF Inv, TypeOK
    <3>. QED  BY ONLY <3>1, x \in Ctx DEF Locals
  <2>2. file[loc[g].path].ver \in Time
    BY <1>1 DEF Inv, TypeOK
  <2>. QED  BY <2>1, <2>2 DEF Inv, TypeOK
<1>3. (LockKept /\ Alone)'
  BY <1>1 DEF Inv, TypeOK, Locals, LockKept, Alone, Inside, Busy
<1>4. /\ \A o \in Goroutine : o # g => pc'[o] = pc[o] /\ loc'[o] = loc[o] /\ ~ Inside(o)
      /\ loc'[g].path = loc[g].path /\ loc'[g].ctx = x /\ pc'[g] = "statFirst"
  BY <1>1, OnlyOne DEF Inv, TypeOK, Locals
<1>5. ver'[x] = file[loc[g].path].ver /\ ver'[x] > 0
  BY <1>1 DEF Inv, TypeOK, Past
<1>6. /\ \A p \in DOMAIN cache : ver'[cache[p].jsvm] = ver[cache[p].jsvm]
      /\ \A o \in Goroutine : res[o].ctx # None => ver'[res[o].ctx] = ver[res[o].ctx]
  BY UnusedUnseen DEF Inv, TypeOK, Results
<1>7. Remembered'
  BY <1>1, <1>4, <1>5 DEF Inv, Remembered, Inside, Busy
<1>8. (Past /\ StaleOnlyIfRaced /\ CachedContextGood)'
  BY <1>1, <1>6 DEF Inv, Past, StaleOnlyIfRaced, CachedContextGood
<1>. QED  BY <1>2, <1>3, <1>7, <1>8 DEF Inv

\* What Put leaves behind.
LEMMA PutCache ==
  ASSUME Inv, NEW p \in Path, NEW x \in Ctx, NEW t \in Time, Put(p, x, t)
  PROVE  /\ DOMAIN cache' = DOMAIN cache \cup {p} /\ DOMAIN cache' \subseteq Path
         /\ cache'[p] = [jsvm |-> x, mt |-> t]
         /\ \A q \in DOMAIN cache : q # p => cache'[q] = cache[q]
         /\ cache' \in [DOMAIN cache' -> [jsvm : Ctx, mt : Time]]
BY DEF Put, Inv, TypeOK

\* The end of a first load: the entry has the time of the file, and a context
\* of the same version unless the file has changed.
LEMMA StatFirstInv ==
  ASSUME Inv, NEW g \in Goroutine, StatFirst(g)
  PROVE  Inv'
<1> DEFINE p == loc[g].path
           x == loc[g].ctx
<1> USE DEF StatFirst, Return
<1>1. Inside(g) /\ p \in Path /\ x \in Ctx /\ file[p].ver \in Time
  BY DEF Inv, TypeOK, Alone, Remembered, Inside, Busy
<1>2. /\ (LockKept /\ Alone)' /\ holder' \in [Goroutine -> Goroutine \cup {None}]
      /\ pc'[g] = "idle" /\ \A o \in Goroutine : o # g => pc'[o] = pc[o] /\ ~ Inside(o)
  BY <1>1, OnlyOne, ReturnAlone
<1>3. /\ DOMAIN cache' = DOMAIN cache \cup {p} /\ DOMAIN cache' \subseteq Path
      /\ cache'[p] = [jsvm |-> x, mt |-> file[p].ver]
      /\ \A q \in DOMAIN cache : q # p => cache'[q] = cache[q]
      /\ cache' \in [DOMAIN cache' -> [jsvm : Ctx, mt : Time]]
  BY <1>1, PutCache
<1>4. TypeOK'
  <2>1. [ctx |-> x, existing |-> FALSE, err |-> FALSE] \in Results
    BY <1>1 DEF Results
  <2>. QED  BY <1>2, <1>3, <2>1 DEF Inv, TypeOK
<1>5. Remembered'
  BY <1>2, <1>3 DEF Inv, Remembered, Inside, Busy
<1>6. Past'
  BY <1>1, <1>3 DEF Inv, Past, Time
<1>7. ver[x] > 0 /\ (ver[x] = file[p].ver \/ p \in raced)
  BY DEF Inv, Remembered
<1>8. StaleOnlyIfRaced'
  BY <1>3, <1>7 DEF Inv, StaleOnlyIfRaced
<1>9. CachedContextGood'
  BY <1>3, <1>7 DEF Inv, TypeOK, CachedContextGood
<1>. QED  BY <1>2, <1>4, <1>5, <1>6, <1>8, <1>9 DEF Inv

\* A reload keeps the time that it found before it evaluated the file: if that
\* is still the time of the file, the context is of this version.
LEMMA StatChangedInv ==
  ASSUME Inv, NEW g \in Goroutine, StatChanged(g)
  PROVE  Inv'
<1> USE DEF StatChanged, locks
<1>1. Inside(g) /\ loc[g].path \in Path /\ file[loc[g].path].ver \in Time
  BY DEF Inv, TypeOK, Alone, Inside, Busy
<1>2. TypeOK'
  <2>1. [loc[g] EXCEPT !.mt = file[loc[g].path].ver] \in Locals
    <3>1. loc[g] \in Locals
      BY DEF Inv, TypeOK
    <3>. QED  BY ONLY <1>1, <3>1 DEF Locals
  <2>. QED  BY <2>1 DEF Inv, TypeOK
<1>3. (LockKept /\ Alone)'
  BY <1>1 DEF Inv, TypeOK, Locals, LockKept, Alone, Inside, Busy
<1>4. Remembered'
  BY <1>1 DEF Inv, TypeOK, Locals, Time, Remembered
<1>5. (Past /\ StaleOnlyIfRaced /\ CachedContextGood)'
  BY DEF Inv, Past, StaleOnlyIfRaced, CachedContextGood
<1>. QED  BY <1>2, <1>3, <1>4, <1>5 DEF Inv

LEMMA ReloadInv ==
  ASSUME Inv, NEW g \in Goroutine, NEW x \in Ctx, Reload(g, x)
  PROVE  Inv'
<1> DEFINE p == loc[g].path
<1> USE DEF Reload, Evaluated, Return
<1>1. Inside(g) /\ p \in Path /\ loc[g].mt \in Time /\ loc[g].mt <= file[p].ver
  BY DEF Inv, Alone, Remembered, Inside, Busy
<1>2. /\ (LockKept /\ Alone)' /\ holder' \in [Goroutine -> Goroutine \cup {None}]
      /\ pc'[g] = "idle" /\ \A o \in Goroutine : o # g => pc'[o] = pc[o] /\ ~ Inside(o)
  BY <1>1, OnlyOne, ReturnAlone
<1>3. /\ DOMAIN cache' = DOMAIN cache \cup {p} /\ DOMAIN cache' \subseteq Path
      /\ cache'[p] = [jsvm |-> x, mt |-> loc[g].mt]
      /\ \A q \in DOMAIN cache : q # p => cache'[q] = cache[q]
      /\ cache' \in [DOMAIN cache' -> [jsvm : Ctx, mt : Time]]
  BY <1>1, PutCache
<1>4. TypeOK'
  <2>1. [ctx |-> x, existing |-> FALSE, err |-> FALSE] \in Results
    BY DEF Results
  <2>. QED  BY <1>1, <1>2, <1>3, <2>1 DEF Inv, TypeOK
<1>5. /\ ver'[x] = file[p].ver /\ ver'[x] > 0
      /\ \A q \in DOMAIN cache : ver'[cache[q].jsvm] = ver[cache[q].jsvm]
      /\ \A o \in Goroutine : res[o].ctx # None => ver'[res[o].ctx] = ver[res[o].ctx]
  BY <1>1, UnusedUnseen DEF Inv, TypeOK, Past, Results
<1>6. Remembered'
  BY <1>2 DEF Inv, Remembered, Inside, Busy
<1>7. Past'
  BY <1>1, <1>3 DEF Inv, Past, Remembered
<1>8. StaleOnlyIfRaced'
  BY <1>3, <1>5 DEF Inv, StaleOnlyIfRaced
<1>9. CachedContextGood'
  BY <1>3, <1>5 DEF Inv, TypeOK, CachedContextGood
<1>. QED  BY <1>2, <1>4, <1>6, <1>7, <1>8, <1>9 DEF Inv

-----------------------------------------------------------------------------
LEMMA NestedLoadInv ==
  ASSUME Inv, NEW g \in Goroutine, NestedLoad(g) \/ Recover(g)
  PROVE  Inv'
<1> USE DEF NestedLoad, Recover, locks
<1>1. TypeOK'
  BY DEF Inv, TypeOK
<1>2. (LockKept /\ Alone)'
  BY DEF Inv, TypeOK, LockKept, Alone, Inside, Busy
<1>3. (Remembered /\ Past /\ StaleOnlyIfRaced /\ CachedContextGood)'
  BY DEF Inv, TypeOK, Remembered, Past, StaleOnlyIfRaced, CachedContextGood
<1>. QED  BY <1>1, <1>2, <1>3 DEF Inv

LEMMA InitInv == Init => Inv
<1> SUFFICES ASSUME Init PROVE Inv
  OBVIOUS
<1> USE NoneAssumption, VersionAssumption DEF Init
<1>a. NoLocals \in Locals
  BY DEF NoLocals, Locals, Time
<1>b. NoResult \in Results
  BY DEF NoResult, Results
<1>c. file \in [Path -> [ver : Time, exists : BOOLEAN]] /\ ver \in [Ctx -> Time]
  BY DEF Time
<1>d. DOMAIN cache \subseteq Path /\ cache \in [DOMAIN cache -> [jsvm : Ctx, mt : Time]]
  OBVIOUS
<1>1. TypeOK
  BY <1>a, <1>b, <1>c, <1>d DEF TypeOK
<1>2. LockKept /\ Alone
  BY DEF LockKept, Alone, Inside, Busy
<1>3. Remembered /\ Past /\ StaleOnlyIfRaced /\ CachedContextGood
  BY DEF Remembered, Past, StaleOnlyIfRaced, CachedContextGood, NoResult
<1>. QED  BY <1>1, <1>2, <1>3 DEF Inv

LEMMA NextInv == Inv /\ [Next]_vars => Inv'
<1> SUFFICES ASSUME Inv, [Next]_vars PROVE Inv'
  OBVIOUS
<1>1. ASSUME ~ initRaced, NEW p \in Path, Write(p) \/ Delete(p)
      PROVE  Inv'
  BY <1>1, FileInv
<1>2. ASSUME ~ initRaced, NEW g \in Goroutine, InitCache(g) \/ InitLock(g) \/ InitMap(g)
      PROVE  Inv'
  BY <1>2, InitCacheInv, InitLockInv, InitMapInv
<1>3. ASSUME NEW g \in Goroutine, NEW p \in Path, Load(g, p)
      PROVE  Inv'
  BY <1>3, LoadInv
<1>4. ASSUME NEW g \in Goroutine, Lock(g)
      PROVE  Inv'
  BY <1>4, LockInv
<1>5. ASSUME NEW g \in Goroutine, CreateFails(g)
      PROVE  Inv'
  BY <1>5, CreateFailsInv
<1>6. ASSUME NEW g \in Goroutine, NEW x \in Ctx, CreateFirst(g, x) \/ Reload(g, x)
      PROVE  Inv'
  BY <1>6, CreateFirstInv, ReloadInv
<1>7. ASSUME NEW g \in Goroutine, StatFirst(g) \/ StatFirstPanics(g)
      PROVE  Inv'
  BY <1>7, StatFirstInv, StatFirstPanicsInv
<1>8. ASSUME NEW g \in Goroutine, StatFails(g) \/ StatHit(g) \/ StatChanged(g)
      PROVE  Inv'
  BY <1>8, StatFailsHitInv, StatChangedInv
<1>9. ASSUME NEW g \in Goroutine, NestedLoad(g) \/ Recover(g)
      PROVE  Inv'
  BY <1>9, NestedLoadInv
<1>10. CASE UNCHANGED vars
  BY <1>10 DEF vars, locks, Inv, TypeOK, LockKept, Alone, Inside, Busy, Remembered, Past,
               StaleOnlyIfRaced, CachedContextGood
<1>. QED  BY <1>1, <1>2, <1>3, <1>4, <1>5, <1>6, <1>7, <1>8, <1>9, <1>10 DEF Next, Step

\* The inductive invariant holds in every reachable state.
THEOREM InvHolds == Spec => []Inv
<1>1. Init => Inv
  BY InitInv
<1>2. Inv /\ [Next]_vars => Inv'
  BY NextInv
<1>. QED  BY <1>1, <1>2, PTL DEF Spec

\* TypeOK of the cache, its lock and the calls under way.
THEOREM TypeCorrect == Spec => []TypeOK
BY InvHolds, PTL DEF Inv

\* A hit of LoadFileFromCache serves the version that is on disk, however many
\* goroutines load and however often the files change, unless the file changed
\* between the evaluation and the Stat of a first load.
THEOREM HitsFresh == Spec => []StaleOnlyIfRaced
BY InvHolds, PTL DEF Inv

\* A context whose script failed is neither cached nor returned without error.
THEOREM CachedContextsGood == Spec => []CachedContextGood
BY InvHolds, PTL DEF Inv

-----------------------------------------------------------------------------
LEMMA InvOneLoader == Inv => OneLoader
<1> SUFFICES ASSUME Inv PROVE OneLoader
  OBVIOUS
<1> DEFINE B == {g \in Goroutine : Busy(g)}
<1>1. \A g, o \in B : g = o
  BY OnlyOne DEF Inside
<1>2. Cardinality(B) <= 1
  <2>1. CASE B = {}
    BY <2>1, FS_EmptySet
  <2>2. CASE B # {}
    <3>1. PICK g : B = {g}
      BY <1>1, <2>2
    <3>2. Cardinality({g}) = 1
      BY FS_Singleton
    <3>3. Cardinality(B) = 1
      BY <3>1, <3>2
    <3>. QED  BY <3>3
  <2>. QED  BY <2>1, <2>2
<1>3. \A g \in Goroutine : Busy(g) => holder[loc[g].deferred] = g
  BY DEF Inv, Alone, Inside
<1>. QED  BY <1>2, <1>3 DEF OneLoader

\* The package's lock keeps loads apart although InitCache makes it without one
\* and the deferred Unlock reads the variable again.
THEOREM OneLoaderAtATime == Spec => []OneLoader
BY InvHolds, InvOneLoader, PTL

=============================================================================
