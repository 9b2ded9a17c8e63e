-------------------------------- MODULE Maps --------------------------------
(***************************************************************************)
(* A Map (or Set), its iterators and forEach (quickjs.c).  The records are *)
(* in a list in the order of their insertion; an iterator, and a forEach   *)
(* during its callback, lock the record they are at.  A record that is     *)
(* deleted while it is locked stays in the list, empty.  Records are       *)
(* numbered in the order in which they are made.  list_add_tail puts the   *)
(* newest last and nothing moves, so the order of the list is that of the  *)
(* numbers, and the list is the set of the records that are linked.        *)
(*                                                                         *)
(* JS_FreeValue finalizes an iterator with its last reference, at once:    *)
(* that unlocks its record, and may free it.  References to iterators are  *)
(* held by variables of the script, by records (as values) and by the      *)
(* arguments of callbacks.  The hash table is the set of the records in    *)
(* it; map_find_record compares keys.  WeakMap and WeakSet, which have no  *)
(* iterators, are left out, and so are failures of malloc.                 *)
(***************************************************************************)
EXTENDS Integers, SequencesExt, FiniteSetsExt

CONSTANTS
    MapKeys,
    Iters,          \* iterators
    IterValues,     \* whether iterators are put into the map and returned by callbacks
    Threshold,      \* record_count_threshold of a new map
    MaxRecords,     \* bound: records that are made
    MaxForEach      \* bound: nested forEach

\* A value that is no iterator.
Other == "plain"

ASSUME MapsAssumption ==
    /\ IsFiniteSet(Iters) /\ Other \notin Iters
    /\ IterValues \in BOOLEAN /\ Threshold \in Nat
    /\ MaxRecords \in Nat /\ MaxForEach \in Nat

VARIABLES
    map,        \* list, rec, hash, count, threshold; clearing, the record that js_map_clear
                \* is at; iter[it]: state, cur (its record, or 0); each, the callbacks of
                \* forEach that run: mr and val (an argument); held by the script, freed;
                \* used: a freed record was used
    entries,    \* what the script has put into the map and not deleted: record and key
    seen        \* the last visit: the record that came, and the one that was due

mapVars == <<map, entries, seen>>

NoRecord == [key |-> "none", val |-> Other, empty |-> TRUE, ref |-> 0]
IterAtNone(state, var) == [state |-> state, cur |-> 0, var |-> var]
NoIter == IterAtNone("none", FALSE)

Allocated(s, r) == s.rec[r].ref > 0

Least(T) == IF T = {} THEN 0 ELSE Min(T)

\* The record after r in the list; the first for r = 0; 0 at the end.
NextRecord(s, r) == Least({q \in s.list : q > r})

FreeRecord(s, r) == [s EXCEPT !.list = @ \ {r}, !.rec[r] = NoRecord]

map_decref_record(s, r) ==
    IF s.rec[r].ref = 1 THEN FreeRecord(s, r) ELSE [s EXCEPT !.rec[r].ref = @ - 1]

\* The map goes with the last reference to it: js_map_finalizer.
FreeMap(s) ==
    IF s.held \/ s.freed \/ \E it \in Iters : s.iter[it].state = "live" THEN s
    ELSE [s EXCEPT !.list = {}, !.rec = [r \in DOMAIN @ |-> NoRecord], !.hash = {}, !.freed = TRUE]

Held(s, it) ==
    \/ s.iter[it].var
    \/ \E r \in s.list : ~ s.rec[r].empty /\ s.rec[r].val = it
    \/ \E i \in DOMAIN s.each : s.each[i].val = it

js_map_iterator_finalizer(s, it) ==
    LET gone == [s EXCEPT !.iter[it] = IterAtNone("freed", FALSE)]
    IN  FreeMap(IF s.iter[it].cur = 0 THEN gone ELSE map_decref_record(gone, s.iter[it].cur))

\* JS_FreeValue of a value to which the caller no longer refers.
JS_FreeMapValue(s, x) ==
    IF x \in Iters /\ s.iter[x].state \in {"live", "done"} /\ ~ Held(s, x)
    THEN js_map_iterator_finalizer(s, x) ELSE s

map_find_record(s, key) == {r \in s.hash : ~ s.rec[r].empty /\ s.rec[r].key = key}

map_hash_resize(s) ==
    [s EXCEPT !.hash = {r \in s.list : ~ s.rec[r].empty}, !.threshold = 2 * @]

map_add_record(s, key, val) ==
    LET r == s.made + 1
        added == [s EXCEPT !.rec[r] = [key |-> key, val |-> val, empty |-> FALSE, ref |-> 1],
                           !.list = @ \cup {r}, !.hash = @ \cup {r},
                           !.count = @ + 1, !.made = r]
    IN  IF added.count >= added.threshold THEN map_hash_resize(added) ELSE added

\* A wrong deletion: the record goes although it is locked.
map_delete_recordAtOnce(s, r) ==
    FreeRecord(JS_FreeMapValue([s EXCEPT !.rec[r].val = Other, !.count = @ - 1], s.rec[r].val), r)

\* The value is freed first, then the record if it is not locked.
map_delete_record(s, r) ==
    LET n == JS_FreeMapValue([s EXCEPT !.rec[r].val = Other, !.count = @ - 1], s.rec[r].val)
    IN  IF s.rec[r].empty THEN s
        ELSE IF n.rec[r].ref = 1 THEN FreeRecord(n, r)
        ELSE [n EXCEPT !.rec[r] = [NoRecord EXCEPT !.ref = n.rec[r].ref - 1]]

\* From r on, the first record that is not empty.
FirstFrom(s, r) == IF r = 0 THEN 0 ELSE Least({q \in s.list : q >= r /\ ~ s.rec[q].empty})

LockRecord(s, r) == [s EXCEPT !.rec[r].ref = @ + 1]

-----------------------------------------------------------------------------
(* What scripts do.  The loop of js_map_clear takes a step for each record *)
(* and nothing else runs before it ends.                                   *)

Intact == ~ map.used /\ map.clearing = 0
Usable == Intact /\ map.held

Due(last) == Least({e.r : e \in {d \in entries : d.r > last}})

js_map_set(key, val) ==
    /\ Usable /\ (val \in Iters => map.iter[val].var)
    /\ LET found == map_find_record(map, key)
           r == CHOOSE q \in found : TRUE
       IN  IF found # {}
           THEN /\ map' = JS_FreeMapValue([map EXCEPT !.rec[r].val = val], map.rec[r].val)
                /\ UNCHANGED entries
           ELSE /\ map.made < MaxRecords
                /\ map' = map_add_record(map, key, val)
                /\ entries' = entries \cup {[r |-> map.made + 1, key |-> key]}
    /\ UNCHANGED seen

js_map_delete(key) ==
    /\ Usable
    /\ \E r \in map_find_record(map, key) :
          map' = map_delete_record([map EXCEPT !.hash = @ \ {r}], r)
    /\ entries' = {e \in entries : e.key # key}
    /\ UNCHANGED seen

js_map_clear ==
    /\ Usable
    /\ map' = [map EXCEPT !.hash = {}, !.clearing = NextRecord(map, 0)]
    /\ UNCHANGED <<entries, seen>>

\* list_for_each_safe: the next record is taken before this one is deleted.
ClearRecord ==
    /\ ~ map.used /\ map.clearing # 0
    /\ LET next == NextRecord(map, map.clearing)
           n == map_delete_record(map, map.clearing)
       IN  map' = [n EXCEPT !.clearing = next, !.used = next # 0 /\ ~ Allocated(n, next)]
    /\ entries' = {e \in entries : e.r # map.clearing}
    /\ UNCHANGED seen

js_create_map_iterator(it) ==
    /\ Usable /\ map.iter[it].state = "none"
    /\ map' = [map EXCEPT !.iter[it] = IterAtNone("live", TRUE)]
    /\ UNCHANGED <<entries, seen>>

js_map_iterator_next(it) ==
    /\ Intact /\ map.iter[it].state = "live" /\ map.iter[it].var
    /\ LET cur == map.iter[it].cur
           el == NextRecord(map, cur)
           left == IF cur = 0 THEN map ELSE map_decref_record(map, cur)
           mr == FirstFrom(left, el)
           at == [left EXCEPT !.iter[it].cur = mr]
       IN  /\ map' = IF mr # 0 THEN LockRecord(at, mr)
                     ELSE FreeMap([at EXCEPT !.iter[it].state = "done"])
           /\ seen' = [came |-> mr, due |-> Due(cur)]
    /\ UNCHANGED entries

\* The script gives up its reference to an iterator, or to the map.
DropIterator(it) ==
    /\ Intact /\ map.iter[it].var
    /\ map' = JS_FreeMapValue([map EXCEPT !.iter[it].var = FALSE], it)
    /\ UNCHANGED <<entries, seen>>

DropMap ==
    /\ Usable /\ map.each = <<>>
    /\ map' = FreeMap([map EXCEPT !.held = FALSE])
    /\ UNCHANGED <<entries, seen>>

\* The innermost forEach goes on at record el: the next callback, or the end.
ForEachFrom(s, el, last) ==
    LET mr == FirstFrom(s, el)
        called == [mr |-> mr, val |-> s.rec[mr].val]
    IN  /\ map' = IF mr = 0 THEN s ELSE LockRecord([s EXCEPT !.each = Append(@, called)], mr)
        /\ seen' = [came |-> mr, due |-> Due(last)]

js_map_forEach ==
    /\ Usable /\ Len(map.each) < MaxForEach
    /\ ForEachFrom(map, NextRecord(map, 0), 0)
    /\ UNCHANGED entries

\* The callback returns ret, which may be the last reference to an iterator.
CallbackReturns(ret) ==
    /\ Intact /\ map.each # <<>> /\ (ret \in Iters => map.iter[ret].var)
    /\ LET top == Last(map.each)
           done == JS_FreeMapValue([map EXCEPT !.each = Front(@)], top.val)
           el == NextRecord(done, top.mr)
           left == map_decref_record(done, top.mr)
           after == IF ret \in Iters THEN JS_FreeMapValue([left EXCEPT !.iter[ret].var = FALSE], ret) ELSE left
       IN  IF el # 0 /\ ~ Allocated(after, el)
           THEN map' = [after EXCEPT !.used = TRUE] /\ UNCHANGED seen
           ELSE ForEachFrom(after, el, top.mr)
    /\ UNCHANGED entries

\* The callback throws: forEach ends.
CallbackThrows ==
    /\ Intact /\ map.each # <<>>
    /\ LET done == JS_FreeMapValue([map EXCEPT !.each = Front(@)], Last(map.each).val)
       IN  map' = map_decref_record(done, Last(map.each).mr)
    /\ UNCHANGED <<entries, seen>>

MapsInit ==
    /\ map = [list |-> {}, rec |-> [r \in 1..MaxRecords |-> NoRecord], hash |-> {}, count |-> 0,
              threshold |-> Threshold, made |-> 0, clearing |-> 0,
              iter |-> [it \in Iters |-> NoIter], each |-> <<>>,
              held |-> TRUE, freed |-> FALSE, used |-> FALSE]
    /\ entries = {} /\ seen = [came |-> 0, due |-> 0]

MapsNext ==
    \/ \E key \in MapKeys, val \in {Other} \cup (IF IterValues THEN Iters ELSE {}) : js_map_set(key, val)
    \/ \E key \in MapKeys : js_map_delete(key)
    \/ js_map_clear
    \/ ClearRecord
    \/ \E it \in Iters : js_create_map_iterator(it) \/ js_map_iterator_next(it) \/ DropIterator(it)
    \/ DropMap
    \/ js_map_forEach
    \/ \E ret \in {Other} \cup (IF IterValues THEN Iters ELSE {}) : CallbackReturns(ret)
    \/ CallbackThrows

MapsSpec == MapsInit /\ [][MapsNext]_mapVars

-----------------------------------------------------------------------------
(* Properties.                                                             *)

MapsTypeOK ==
    /\ \A r \in 1..MaxRecords : map.rec[r].ref \in 0..(1 + Cardinality(Iters) + MaxForEach)
    /\ \A it \in Iters : map.iter[it].state \in {"none", "live", "done", "freed"}
    /\ Len(map.each) <= MaxForEach

(***************************************************************************)
(* "Note: the list can be modified while traversing it, but the current    *)
(* element is locked" (js_map_forEach): no loop over the records goes on   *)
(* with a record that has been freed.                                      *)
(***************************************************************************)
CurrentLocked == ~ map.used

\* The records of the entries, and the iterators and callbacks that are at a record.
LiveIn(E) == {e.r : e \in E}
ItersAt(s, r) == {it \in Iters : s.iter[it].cur = r}
CallsAt(s, r) == {i \in DOMAIN s.each : s.each[i].mr = r}

(***************************************************************************)
(* Whatever scripts do to a map while iterators and callbacks are under    *)
(* way: each of these visits the entries in the order of insertion, the    *)
(* ones added meanwhile too and the ones deleted meanwhile not; size       *)
(* counts the entries that are there, and a record is kept exactly as long *)
(* as the map or a lock needs it; whenever a script runs, the hash table   *)
(* finds exactly the entries that are there.                               *)
(***************************************************************************)
MapExact ==
    /\ CurrentLocked /\ seen.came = seen.due
    /\ ~ map.freed =>
          /\ map.count = Cardinality(LiveIn(entries))
          /\ \A r \in 1..MaxRecords :
                map.rec[r].ref = Cardinality(ItersAt(map, r)) + Cardinality(CallsAt(map, r))
                                   + (IF r \in LiveIn(entries) THEN 1 ELSE 0)
    /\ ~ map.freed /\ map.clearing = 0 =>
          /\ map.hash = LiveIn(entries)
          /\ \A e \in entries : map_find_record(map, e.key) = {e.r}
    /\ map.freed => \A it \in Iters : map.iter[it].cur = 0
=============================================================================
