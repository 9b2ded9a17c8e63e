----------------------------- MODULE MapsProofs -----------------------------
(***************************************************************************)
(* Proofs about Maps: for every number of records, iterators and nested    *)
(* forEach, a map stays exact as long as no iterator of it is one of its   *)
(* values or the result of a callback.                                     *)
(***************************************************************************)
EXTENDS Maps, FiniteSetTheorems, WellFoundedInduction, TLAPS

Records == 1..MaxRecords
Record == [key : MapKeys \cup {NoRecord.key}, val : {Other} \cup Iters, empty : BOOLEAN, ref : Int]
Iter == [state : {"none", "live", "done", "freed"}, cur : 0..MaxRecords, var : BOOLEAN]
Call == [mr : Records, val : {Other} \cup Iters]
Entry == [r : Records, key : MapKeys]

MapState ==
    [list : SUBSET Records, rec : [Records -> Record], hash : SUBSET Records, count : Int,
     threshold : Int, made : 0..MaxRecords, clearing : 0..MaxRecords,
     iter : [Iters -> Iter], each : Seq(Call), held : BOOLEAN, freed : BOOLEAN, used : BOOLEAN]

One(p) == IF p THEN 1 ELSE 0

\* The list, the records and the entries agree.
Body(s, E) ==
    /\ s \in MapState /\ E \subseteq Entry
    /\ \A e, d \in E : e.r = d.r \/ e.key = d.key => e = d
    /\ ~ s.used /\ ~ s.freed
    /\ \A r \in s.list : r <= s.made
    /\ \A r \in Records : r \in s.list <=> s.rec[r].ref > 0
    /\ \A r \in Records : s.rec[r].empty <=> r \notin LiveIn(E)
    /\ \A r \in Records : s.rec[r].val = Other
    /\ \A r \in LiveIn(E) : r \in s.list
    /\ \A e \in E : s.rec[e.r].key = e.key
    /\ s.count = Cardinality(LiveIn(E))
    /\ \A it \in Iters : s.iter[it].cur # 0 => s.iter[it].state = "live"
    /\ \A i \in DOMAIN s.each : s.each[i].val = Other
    /\ s.each # <<>> => s.held
    /\ Len(s.each) <= MaxForEach

\* The references to the records, but for one too many to a and one too few to b.
Refs(s, E, a, b) ==
    \A r \in Records :
        s.rec[r].ref = Cardinality(ItersAt(s, r)) + Cardinality(CallsAt(s, r)) + One(r \in LiveIn(E))
                         + One(r = a) - One(r = b)

\* The hash table, which js_map_clear empties before it deletes the records.
Table(s, E) ==
    /\ s.clearing = 0 => s.hash = LiveIn(E)
    /\ s.clearing # 0 => /\ s.hash = {} /\ s.clearing \in s.list /\ s.held
                         /\ \A e \in E : e.r >= s.clearing

GoodMap(s, E) == Body(s, E) /\ Refs(s, E, 0, 0) /\ Table(s, E)

\* The map has been freed.
Gone(s) ==
    /\ s \in MapState /\ s.freed /\ ~ s.held /\ ~ s.used /\ s.clearing = 0 /\ s.each = <<>>
    /\ \A r \in Records : s.rec[r].ref = 0
    /\ \A it \in Iters : s.iter[it].cur = 0 /\ s.iter[it].state # "live"

MapInv == (GoodMap(map, entries) \/ Gone(map)) /\ seen.came = seen.due

-----------------------------------------------------------------------------
(* Numbers and cardinalities.                                              *)

LEMMA LeastFacts ==
  ASSUME NEW T, T \subseteq Records
  PROVE  /\ T = {} => Least(T) = 0
         /\ T # {} => Least(T) \in T /\ \A y \in T : Least(T) <= y
<1>1. CASE T = {}
  BY <1>1 DEF Least
<1>2. CASE T # {}
  <2>0. T \subseteq Nat
    BY MapsAssumption DEF Records
  <2>1. PICK x \in T : \A y \in T : ~ (<<y, x>> \in OpToRel(<, Nat))
    BY <1>2, <2>0, NatLessThanWellFounded, WFMin
  <2>2. \A y \in T : ~ (y < x)
    BY <2>0, <2>1 DEF OpToRel
  <2>3. Least(T) = CHOOSE z \in T : \A y \in T : z <= y
    BY <1>2 DEF Least, Min
  <2>4. \A y \in T : x <= y
    BY <2>0, <2>2
  <2>. QED  BY <1>2, <2>3, <2>4
<1>. QED  BY <1>1, <1>2

LEMMA RecordsFinite ==
  ASSUME NEW T, T \subseteq Records
  PROVE  IsFiniteSet(T) /\ Cardinality(T) \in Nat
<1>1. IsFiniteSet(Records)
  BY MapsAssumption, FS_Interval DEF Records
<1>2. IsFiniteSet(T)
  BY <1>1, FS_Subset
<1>. QED  BY <1>2, FS_CardinalityType

LEMMA ItersAtFinite ==
  ASSUME NEW s, NEW r
  PROVE  IsFiniteSet(ItersAt(s, r)) /\ Cardinality(ItersAt(s, r)) \in Nat
<1>1. ItersAt(s, r) \subseteq Iters
  BY DEF ItersAt
<1>2. IsFiniteSet(ItersAt(s, r))
  BY <1>1, MapsAssumption, FS_Subset
<1>. QED  BY <1>2, FS_CardinalityType

LEMMA CallsAtFinite ==
  ASSUME NEW s, s.each \in Seq(Call), NEW r
  PROVE  IsFiniteSet(CallsAt(s, r)) /\ Cardinality(CallsAt(s, r)) \in Nat
<1>1. CallsAt(s, r) \subseteq 1..Len(s.each) /\ Len(s.each) \in Nat
  BY DEF CallsAt
<1>2. IsFiniteSet(1..Len(s.each))
  BY <1>1, FS_Interval
<1>3. IsFiniteSet(CallsAt(s, r))
  BY <1>1, <1>2, FS_Subset
<1>. QED  BY <1>3, FS_CardinalityType

\* An iterator goes from one record, or none, to another.
Moved(s, n, it, v) == s.iter \in [Iters -> Iter] /\ n.iter = [s.iter EXCEPT ![it] = v]

LEMMA ItersMove ==
  ASSUME NEW s, NEW n, NEW it \in Iters, NEW v \in Iter, Moved(s, n, it, v), NEW r
  PROVE  Cardinality(ItersAt(n, r)) = Cardinality(ItersAt(s, r)) - One(r = s.iter[it].cur) + One(r = v.cur)
<1>1. IsFiniteSet(ItersAt(s, r)) /\ Cardinality(ItersAt(s, r)) \in Nat
  BY ItersAtFinite
<1>2. CASE r = s.iter[it].cur /\ r # v.cur
  <2>1. ItersAt(n, r) = ItersAt(s, r) \ {it} /\ it \in ItersAt(s, r)
    BY <1>2 DEF ItersAt, Moved
  <2>2. Cardinality(ItersAt(n, r)) = Cardinality(ItersAt(s, r)) - 1
    BY <1>1, <2>1, FS_RemoveElement
  <2>. QED  BY <1>1, <1>2, <2>2 DEF One
<1>3. CASE r # s.iter[it].cur /\ r = v.cur
  <2>1. ItersAt(n, r) = ItersAt(s, r) \cup {it} /\ it \notin ItersAt(s, r)
    BY <1>3 DEF ItersAt, Moved
  <2>2. Cardinality(ItersAt(n, r)) = Cardinality(ItersAt(s, r)) + 1
    BY <1>1, <2>1, FS_AddElement
  <2>. QED  BY <1>1, <1>3, <2>2 DEF One
<1>4. CASE (r = s.iter[it].cur) <=> (r = v.cur)
  <2>1. ItersAt(n, r) = ItersAt(s, r)
    BY <1>4 DEF ItersAt, Moved
  <2>. QED  BY <1>1, <1>4, <2>1 DEF One
<1>. QED  BY <1>2, <1>3, <1>4

\* A callback begins.
Pushed(s, n, c) == s.each \in Seq(Call) /\ n.each = Append(s.each, c)

LEMMA CallsPush ==
  ASSUME NEW s, NEW n, NEW c \in Call, Pushed(s, n, c), NEW r
  PROVE  Cardinality(CallsAt(n, r)) = Cardinality(CallsAt(s, r)) + One(r = c.mr)
<1>1. IsFiniteSet(CallsAt(s, r)) /\ Cardinality(CallsAt(s, r)) \in Nat
  BY CallsAtFinite DEF Pushed
<1>2. PICK k : k = Len(s.each) + 1
  OBVIOUS
<1>3. k \notin CallsAt(s, r)
  BY <1>2 DEF CallsAt, Pushed
<1>4. CASE r = c.mr
  <2>1. CallsAt(n, r) = CallsAt(s, r) \cup {k}
    BY <1>2, <1>4 DEF CallsAt, Pushed
  <2>2. Cardinality(CallsAt(n, r)) = Cardinality(CallsAt(s, r)) + 1
    BY <1>1, <1>3, <2>1, FS_AddElement
  <2>. QED  BY <1>1, <1>4, <2>2 DEF One
<1>5. CASE r # c.mr
  <2>1. CallsAt(n, r) = CallsAt(s, r)
    BY <1>2, <1>5 DEF CallsAt, Pushed
  <2>. QED  BY <1>1, <1>5, <2>1 DEF One
<1>. QED  BY <1>4, <1>5

\* The innermost callback ends.
Popped(s, n) == s.each \in Seq(Call) /\ s.each # <<>> /\ n.each = Front(s.each)

LEMMA CallsPop ==
  ASSUME NEW s, NEW n, Popped(s, n), NEW r
  PROVE  Cardinality(CallsAt(n, r)) = Cardinality(CallsAt(s, r)) - One(r = Last(s.each).mr)
<1>1. IsFiniteSet(CallsAt(s, r)) /\ Cardinality(CallsAt(s, r)) \in Nat
  BY CallsAtFinite DEF Popped
<1>2. PICK k : k = Len(s.each)
  OBVIOUS
<1>3. k \in Nat /\ k > 0 /\ Last(s.each) = s.each[k]
  BY <1>2 DEF Last, Popped
<1>4. Len(n.each) = k - 1 /\ \A i \in 1..(k - 1) : n.each[i] = s.each[i]
  BY <1>2, <1>3 DEF Front, Popped
<1>5. DOMAIN n.each = 1..(k - 1) /\ DOMAIN s.each = 1..k
  BY <1>2, <1>3 DEF Front, Popped
<1>6. CASE r = Last(s.each).mr
  <2>1. CallsAt(n, r) = CallsAt(s, r) \ {k} /\ k \in CallsAt(s, r)
    BY <1>3, <1>4, <1>5, <1>6 DEF CallsAt, Popped
  <2>2. Cardinality(CallsAt(n, r)) = Cardinality(CallsAt(s, r)) - 1
    BY <1>1, <2>1, FS_RemoveElement
  <2>. QED  BY <1>1, <1>6, <2>2 DEF One
<1>7. CASE r # Last(s.each).mr
  <2>1. CallsAt(n, r) = CallsAt(s, r)
    BY <1>3, <1>4, <1>5, <1>7 DEF CallsAt, Popped
  <2>. QED  BY <1>1, <1>7, <2>1 DEF One
<1>. QED  BY <1>6, <1>7

-----------------------------------------------------------------------------
(* The functions of the engine.                                            *)

\* What no operation on records and locks changes.
SameRest(s, n) ==
    /\ n.hash = s.hash /\ n.threshold = s.threshold /\ n.made = s.made
    /\ n.clearing = s.clearing /\ n.held = s.held /\ n.freed = s.freed /\ n.used = s.used

LEMMA LiveRecords ==
  ASSUME NEW E, E \subseteq Entry
  PROVE  LiveIn(E) \subseteq Records /\ \A e \in E : e.r \in LiveIn(E)
BY DEF Entry, LiveIn

LEMMA NoRecordType == NoRecord \in Record /\ NoRecord.ref = 0 /\ NoRecord.empty = TRUE /\ NoRecord.val = Other
BY DEF NoRecord, Record

\* A record is unlocked; it is freed with the last reference, and then it is empty.
LEMMA DecrefShape ==
  ASSUME NEW s \in MapState, NEW x \in Records, NEW n, n = map_decref_record(s, x)
  PROVE  /\ n \in MapState /\ SameRest(s, n) /\ n.iter = s.iter /\ n.each = s.each /\ n.count = s.count
         /\ s.rec[x].ref = 1 => n.list = s.list \ {x} /\ n.rec = [s.rec EXCEPT ![x] = NoRecord]
         /\ s.rec[x].ref # 1 => /\ n.list = s.list
                                /\ n.rec = [s.rec EXCEPT ![x] = [s.rec[x] EXCEPT !.ref = @ - 1]]
<1>1. CASE s.rec[x].ref = 1
  <2>1. n = [s EXCEPT !.list = @ \ {x}, !.rec[x] = NoRecord]
    BY <1>1 DEF map_decref_record, FreeRecord
  <2>2. PICK l : l = s.list \ {x}
    OBVIOUS
  <2>3. PICK rr : rr = [s.rec EXCEPT ![x] = NoRecord]
    OBVIOUS
  <2>4. l \in SUBSET Records /\ rr \in [Records -> Record]
    BY <2>2, <2>3, NoRecordType DEF MapState
  <2>5. n = [[s EXCEPT !.list = l] EXCEPT !.rec = rr]
    BY <2>1, <2>2, <2>3 DEF MapState
  <2>6. n \in MapState /\ SameRest(s, n) /\ n.iter = s.iter /\ n.each = s.each /\ n.count = s.count
        /\ n.list = l /\ n.rec = rr
    BY <2>4, <2>5 DEF MapState, SameRest
  <2>. QED  BY <1>1, <2>2, <2>3, <2>6
<1>2. CASE s.rec[x].ref # 1
  <2>1. n = [s EXCEPT !.rec[x].ref = @ - 1]
    BY <1>2 DEF map_decref_record
  <2>3. PICK rr : rr = [s.rec EXCEPT ![x] = [s.rec[x] EXCEPT !.ref = @ - 1]]
    OBVIOUS
  <2>4. rr \in [Records -> Record]
    <3>1. s.rec \in [Records -> Record] /\ s.rec[x] \in Record
      BY DEF MapState
    <3>2. [s.rec[x] EXCEPT !.ref = @ - 1] \in Record
      BY <3>1 DEF Record
    <3>. QED  BY <2>3, <3>1, <3>2
  <2>5. n = [s EXCEPT !.rec = rr]
    BY <2>1, <2>3 DEF MapState
  <2>6. n \in MapState /\ SameRest(s, n) /\ n.iter = s.iter /\ n.each = s.each /\ n.count = s.count
        /\ n.list = s.list /\ n.rec = rr
    BY <2>4, <2>5 DEF MapState, SameRest
  <2>. QED  BY <1>2, <2>3, <2>6
<1>. QED  BY <1>1, <1>2

LEMMA DecrefGood ==
  ASSUME NEW s, NEW E, NEW a, Body(s, E), Refs(s, E, a, 0), NEW x \in Records, s.rec[x].ref >= 1,
         s.rec[x].ref = 1 => x \notin LiveIn(E), NEW n, n = map_decref_record(s, x)
  PROVE  /\ Body(n, E) /\ Refs(n, E, a, x) /\ SameRest(s, n) /\ n.iter = s.iter /\ n.each = s.each
         /\ \A y \in Records \ {x} : n.rec[y] = s.rec[y] /\ (y \in n.list <=> y \in s.list)
<1>0. s \in MapState /\ s.rec \in [Records -> Record]
  BY DEF Body, MapState
<1>1. /\ n \in MapState /\ SameRest(s, n) /\ n.iter = s.iter /\ n.each = s.each /\ n.count = s.count
      /\ s.rec[x].ref = 1 => n.list = s.list \ {x} /\ n.rec = [s.rec EXCEPT ![x] = NoRecord]
      /\ s.rec[x].ref # 1 => /\ n.list = s.list
                             /\ n.rec = [s.rec EXCEPT ![x] = [s.rec[x] EXCEPT !.ref = @ - 1]]
  BY <1>0, DecrefShape
<1>2. \A y \in Records \ {x} : n.rec[y] = s.rec[y] /\ (y \in n.list <=> y \in s.list)
  BY <1>0, <1>1
<1>3. n.rec[x].ref = s.rec[x].ref - 1 /\ n.rec[x].val = s.rec[x].val /\ s.rec[x].ref \in Int
  BY <1>0, <1>1, NoRecordType DEF Record, Body
<1>4. x \in LiveIn(E) => n.rec[x].key = s.rec[x].key /\ n.rec[x].empty = s.rec[x].empty
  BY <1>0, <1>1 DEF Record
<1>5. x \notin LiveIn(E) => n.rec[x].empty
  BY <1>0, <1>1, NoRecordType DEF Record, Body
<1>6. x \in s.list /\ (x \in n.list <=> n.rec[x].ref > 0)
  BY <1>0, <1>1, <1>3 DEF Body
<1>7. LiveIn(E) \subseteq Records /\ \A e \in E : e.r \in LiveIn(E)
  BY LiveRecords DEF Body
<1>8. Body(n, E)
  <2>1. \A r \in n.list : r <= n.made
    BY <1>1, <1>2, <1>6 DEF Body, SameRest
  <2>2. \A r \in Records : r \in n.list <=> n.rec[r].ref > 0
    BY <1>2, <1>6 DEF Body
  <2>3. \A r \in Records : n.rec[r].empty <=> r \notin LiveIn(E)
    BY <1>2, <1>4, <1>5 DEF Body
  <2>4. \A r \in Records : n.rec[r].val = Other
    BY <1>2, <1>3 DEF Body
  <2>5. \A r \in LiveIn(E) : r \in n.list
    BY <1>1, <1>2, <1>6, <1>7 DEF Body
  <2>6. \A e \in E : n.rec[e.r].key = e.key
    BY <1>2, <1>4, <1>7 DEF Body
  <2>. QED  BY <1>1, <2>1, <2>2, <2>3, <2>4, <2>5, <2>6 DEF Body, SameRest
<1>9. Refs(n, E, a, x)
  <2> SUFFICES ASSUME NEW r \in Records
      PROVE n.rec[r].ref = Cardinality(ItersAt(n, r)) + Cardinality(CallsAt(n, r)) + One(r \in LiveIn(E))
                             + One(r = a) - One(r = x)
    BY DEF Refs
  <2>1. ItersAt(n, r) = ItersAt(s, r) /\ CallsAt(n, r) = CallsAt(s, r)
    BY <1>1 DEF ItersAt, CallsAt
  <2>2. n.rec[r].ref = s.rec[r].ref - One(r = x)
    BY <1>0, <1>2, <1>3 DEF One, Record
  <2>3. s.rec[r].ref = Cardinality(ItersAt(s, r)) + Cardinality(CallsAt(s, r)) + One(r \in LiveIn(E)) + One(r = a) - 0
    BY MapsAssumption DEF Refs, One, Records
  <2>4. Cardinality(ItersAt(s, r)) \in Nat /\ Cardinality(CallsAt(s, r)) \in Nat
    BY <1>0, ItersAtFinite, CallsAtFinite DEF MapState
  <2>. QED  BY <2>1, <2>2, <2>3, <2>4 DEF One
<1>. QED  BY <1>1, <1>2, <1>8, <1>9

\* Exact again when the extra reference is the one that is missing.
LEMMA RefsMeet ==
  ASSUME NEW s \in MapState, NEW E, NEW x, Refs(s, E, x, x)
  PROVE  Refs(s, E, 0, 0)
<1> SUFFICES ASSUME NEW r \in Records
    PROVE s.rec[r].ref = Cardinality(ItersAt(s, r)) + Cardinality(CallsAt(s, r)) + One(r \in LiveIn(E))
                           + One(r = 0) - One(r = 0)
  BY DEF Refs
<1>1. s.rec[r].ref = Cardinality(ItersAt(s, r)) + Cardinality(CallsAt(s, r)) + One(r \in LiveIn(E))
                       + One(r = x) - One(r = x)
  BY DEF Refs
<1>2. Cardinality(ItersAt(s, r)) \in Nat /\ Cardinality(CallsAt(s, r)) \in Nat
  BY ItersAtFinite, CallsAtFinite DEF MapState
<1>. QED  BY <1>1, <1>2 DEF One

\* An iterator is given a record, or none.
IterPut(s, E, n, it, v) ==
    /\ Body(s, E) /\ v \in Iter /\ (v.cur # 0 => v.state = "live")
    /\ n = [s EXCEPT !.iter = [s.iter EXCEPT ![it] = v]]

LEMMA IterSet ==
  ASSUME NEW s, NEW E, NEW it \in Iters, NEW v, NEW n, IterPut(s, E, n, it, v)
  PROVE  /\ Body(n, E) /\ SameRest(s, n) /\ n.rec = s.rec /\ n.list = s.list /\ n.each = s.each
         /\ Moved(s, n, it, v)
<1>0. s \in MapState /\ s.iter \in [Iters -> Iter] /\ v \in Iter
  BY DEF Body, MapState, IterPut
<1>1. PICK ii : ii = [s.iter EXCEPT ![it] = v]
  OBVIOUS
<1>2. ii \in [Iters -> Iter]
  BY <1>0, <1>1
<1>3. /\ n \in MapState /\ SameRest(s, n) /\ n.rec = s.rec /\ n.list = s.list /\ n.each = s.each
      /\ n.count = s.count /\ n.iter = ii
  BY <1>0, <1>1, <1>2 DEF MapState, SameRest, IterPut
<1>4. Body(n, E)
  <2>1. \A j \in Iters : n.iter[j].cur # 0 => n.iter[j].state = "live"
    BY <1>0, <1>1, <1>3 DEF Body, IterPut
  <2>. QED  BY <1>3, <2>1 DEF Body, SameRest, IterPut
<1>. QED  BY <1>0, <1>1, <1>3, <1>4 DEF Moved

LEMMA IterCount ==
  ASSUME NEW s, NEW E, NEW it \in Iters, NEW v, NEW n, IterPut(s, E, n, it, v), NEW a, NEW b, Refs(s, E, a, b),
         NEW r \in Records
  PROVE  /\ n.rec[r].ref = Cardinality(ItersAt(n, r)) + One(r = s.iter[it].cur) - One(r = v.cur)
                             + Cardinality(CallsAt(n, r)) + One(r \in LiveIn(E)) + One(r = a) - One(r = b)
         /\ Cardinality(ItersAt(n, r)) \in Nat /\ Cardinality(CallsAt(n, r)) \in Nat
         /\ r \in Nat /\ r # 0
<1>1. n.rec = s.rec /\ n.each = s.each /\ Moved(s, n, it, v) /\ v \in Iter /\ n \in MapState
  <2>1. n.rec = s.rec /\ n.each = s.each /\ Moved(s, n, it, v) /\ Body(n, E)
    BY IterSet
  <2>. QED  BY <2>1 DEF IterPut, Body
<1>2. CallsAt(n, r) = CallsAt(s, r)
  BY <1>1 DEF CallsAt
<1>3. Cardinality(ItersAt(n, r)) = Cardinality(ItersAt(s, r)) - One(r = s.iter[it].cur) + One(r = v.cur)
  BY <1>1, ItersMove
<1>4. n.rec[r].ref = Cardinality(ItersAt(s, r)) + Cardinality(CallsAt(s, r)) + One(r \in LiveIn(E))
                       + One(r = a) - One(r = b)
  BY <1>1 DEF Refs
<1>5. Cardinality(ItersAt(s, r)) \in Nat /\ Cardinality(ItersAt(n, r)) \in Nat /\ Cardinality(CallsAt(n, r)) \in Nat
  BY <1>1, ItersAtFinite, CallsAtFinite DEF MapState
<1>6. r \in Nat /\ r # 0
  BY MapsAssumption DEF Records
<1>. QED  BY ONLY <1>2, <1>3, <1>4, <1>5, <1>6 DEF One

LEMMA IterStays ==
  ASSUME NEW s, NEW E, NEW it \in Iters, NEW v, NEW n, IterPut(s, E, n, it, v), Refs(s, E, 0, 0),
         v.cur = s.iter[it].cur
  PROVE  Refs(n, E, 0, 0)
<1> SUFFICES ASSUME NEW r \in Records
    PROVE n.rec[r].ref = Cardinality(ItersAt(n, r)) + Cardinality(CallsAt(n, r)) + One(r \in LiveIn(E))
                           + One(r = 0) - One(r = 0)
  BY DEF Refs
<1>1. /\ n.rec[r].ref = Cardinality(ItersAt(n, r)) + One(r = s.iter[it].cur) - One(r = v.cur)
                          + Cardinality(CallsAt(n, r)) + One(r \in LiveIn(E)) + One(r = 0) - One(r = 0)
      /\ Cardinality(ItersAt(n, r)) \in Nat /\ Cardinality(CallsAt(n, r)) \in Nat
      /\ r \in Nat /\ r # 0
  BY IterCount
<1>. QED  BY <1>1 DEF One

\* It leaves its record: the reference to that is one too many.
LEMMA IterLeaves ==
  ASSUME NEW s, NEW E, NEW it \in Iters, NEW v, NEW n, IterPut(s, E, n, it, v), Refs(s, E, 0, 0), v.cur = 0
  PROVE  Refs(n, E, s.iter[it].cur, 0)
<1> SUFFICES ASSUME NEW r \in Records
    PROVE n.rec[r].ref = Cardinality(ItersAt(n, r)) + Cardinality(CallsAt(n, r)) + One(r \in LiveIn(E))
                           + One(r = s.iter[it].cur) - One(r = 0)
  BY DEF Refs
<1>1. /\ n.rec[r].ref = Cardinality(ItersAt(n, r)) + One(r = s.iter[it].cur) - One(r = v.cur)
                          + Cardinality(CallsAt(n, r)) + One(r \in LiveIn(E)) + One(r = 0) - One(r = 0)
      /\ Cardinality(ItersAt(n, r)) \in Nat /\ Cardinality(CallsAt(n, r)) \in Nat
      /\ r \in Nat /\ r # 0
  BY ONLY it \in Iters, IterPut(s, E, n, it, v), Refs(s, E, 0, 0), r \in Records, IterCount
<1>. QED  BY <1>1 DEF One

\* It goes from a record that is unlocked already to one that is not locked yet.
LEMMA IterGoes ==
  ASSUME NEW s, NEW E, NEW it \in Iters, NEW v, NEW n, IterPut(s, E, n, it, v), Refs(s, E, 0, s.iter[it].cur)
  PROVE  Refs(n, E, 0, v.cur)
<1> SUFFICES ASSUME NEW r \in Records
    PROVE n.rec[r].ref = Cardinality(ItersAt(n, r)) + Cardinality(CallsAt(n, r)) + One(r \in LiveIn(E))
                           + One(r = 0) - One(r = v.cur)
  BY DEF Refs
<1>1. /\ n.rec[r].ref = Cardinality(ItersAt(n, r)) + One(r = s.iter[it].cur) - One(r = v.cur)
                          + Cardinality(CallsAt(n, r)) + One(r \in LiveIn(E)) + One(r = 0) - One(r = s.iter[it].cur)
      /\ Cardinality(ItersAt(n, r)) \in Nat /\ Cardinality(CallsAt(n, r)) \in Nat
      /\ r \in Nat /\ r # 0
  BY IterCount
<1>. QED  BY <1>1 DEF One

\* A record that is locked has a reference, and more than one if it is an entry's.
LEMMA IterLocks ==
  ASSUME NEW s, NEW E, Body(s, E), Refs(s, E, 0, 0), NEW it \in Iters, s.iter[it].cur # 0
  PROVE  /\ s.iter[it].cur \in Records /\ s.rec[s.iter[it].cur].ref >= 1
         /\ s.rec[s.iter[it].cur].ref = 1 => s.iter[it].cur \notin LiveIn(E)
<1>1. PICK c : c = s.iter[it].cur
  OBVIOUS
<1>2. c \in Records
  BY <1>1, MapsAssumption DEF Body, MapState, Iter, Records
<1>3. it \in ItersAt(s, c)
  BY <1>1 DEF ItersAt
<1>4. Cardinality(ItersAt(s, c)) >= 1
  <2>1. IsFiniteSet(ItersAt(s, c)) /\ Cardinality(ItersAt(s, c)) \in Nat
    BY ItersAtFinite
  <2>2. Cardinality(ItersAt(s, c)) # 0
    BY <1>3, <2>1, FS_EmptySet
  <2>. QED  BY <2>1, <2>2
<1>5. Cardinality(CallsAt(s, c)) \in Nat /\ Cardinality(ItersAt(s, c)) \in Nat
  BY CallsAtFinite, ItersAtFinite DEF Body, MapState
<1>6. s.rec[c].ref = Cardinality(ItersAt(s, c)) + Cardinality(CallsAt(s, c)) + One(c \in LiveIn(E))
                       + One(c = 0) - One(c = 0)
  BY <1>2 DEF Refs
<1>. QED  BY <1>1, <1>2, <1>4, <1>5, <1>6 DEF One

\* Two states with the same locks.
LEMMA SameLocks ==
  ASSUME NEW s \in MapState, NEW n, n.iter = s.iter, n.each = s.each, NEW r
  PROVE  /\ ItersAt(n, r) = ItersAt(s, r) /\ CallsAt(n, r) = CallsAt(s, r)
         /\ Cardinality(ItersAt(s, r)) \in Nat /\ Cardinality(CallsAt(s, r)) \in Nat
<1>1. Cardinality(ItersAt(s, r)) \in Nat /\ Cardinality(CallsAt(s, r)) \in Nat
  BY ItersAtFinite, CallsAtFinite DEF MapState
<1>. QED  BY <1>1 DEF ItersAt, CallsAt

LEMMA LockGood ==
  ASSUME NEW s, NEW E, NEW x \in LiveIn(E), Body(s, E), Refs(s, E, 0, x), s.rec[x].ref >= 1,
         NEW n, n = LockRecord(s, x)
  PROVE  Body(n, E) /\ Refs(n, E, 0, 0) /\ SameRest(s, n)
<1>0. s \in MapState /\ s.rec \in [Records -> Record] /\ x \in Records
  BY LiveRecords DEF Body, MapState
<1>1. PICK v : v = [s.rec[x] EXCEPT !.ref = @ + 1]
  OBVIOUS
<1>2. v \in Record /\ v.ref = s.rec[x].ref + 1 /\ v.key = s.rec[x].key /\ v.val = s.rec[x].val
      /\ v.empty = s.rec[x].empty
  BY <1>0, <1>1 DEF Record
<1>3. PICK rr : rr = [s.rec EXCEPT ![x] = v]
  OBVIOUS
<1>4. rr \in [Records -> Record] /\ rr[x] = v /\ \A y \in Records \ {x} : rr[y] = s.rec[y]
  BY <1>0, <1>2, <1>3
<1>5. n = [s EXCEPT !.rec = rr]
  BY <1>0, <1>1, <1>3 DEF LockRecord, MapState
<1>6. /\ n \in MapState /\ SameRest(s, n) /\ n.rec = rr /\ n.list = s.list /\ n.each = s.each
      /\ n.count = s.count /\ n.iter = s.iter
  BY <1>0, <1>4, <1>5 DEF MapState, SameRest
<1>7. Body(n, E)
  <2>1. \A r \in Records : r \in n.list <=> n.rec[r].ref > 0
    BY <1>0, <1>2, <1>4, <1>6 DEF Body, Record
  <2>2. \A r \in Records : n.rec[r].empty <=> r \notin LiveIn(E)
    BY <1>2, <1>4, <1>6 DEF Body
  <2>3. \A r \in Records : n.rec[r].val = Other
    BY <1>2, <1>4, <1>6 DEF Body
  <2>4. \A e \in E : n.rec[e.r].key = e.key
    BY <1>2, <1>4, <1>6, LiveRecords DEF Body
  <2>. QED  BY <1>6, <2>1, <2>2, <2>3, <2>4 DEF Body, SameRest
<1>8. Refs(n, E, 0, 0)
  <2> SUFFICES ASSUME NEW r \in Records
      PROVE n.rec[r].ref = Cardinality(ItersAt(n, r)) + Cardinality(CallsAt(n, r)) + One(r \in LiveIn(E))
                             + One(r = 0) - One(r = 0)
    BY DEF Refs
  <2>1. /\ ItersAt(n, r) = ItersAt(s, r) /\ CallsAt(n, r) = CallsAt(s, r)
        /\ Cardinality(ItersAt(s, r)) \in Nat /\ Cardinality(CallsAt(s, r)) \in Nat
    BY <1>0, <1>6, SameLocks
  <2>2. n.rec[r].ref = s.rec[r].ref + One(r = x)
    BY <1>0, <1>2, <1>4, <1>6 DEF One, Record
  <2>3. s.rec[r].ref = Cardinality(ItersAt(s, r)) + Cardinality(CallsAt(s, r)) + One(r \in LiveIn(E))
                         + One(r = 0) - One(r = x)
    BY DEF Refs
  <2>4. r \in Nat /\ r # 0
    BY MapsAssumption DEF Records
  <2>. QED  BY ONLY <2>1, <2>2, <2>3, <2>4 DEF One
<1>. QED  BY <1>6, <1>7, <1>8

\* A callback gets the entry of record x.
LEMMA CallOn ==
  ASSUME NEW s, NEW E, NEW c \in Call, c.val = Other, Body(s, E), Refs(s, E, 0, 0), s.held,
         Len(s.each) < MaxForEach, NEW n, n = [s EXCEPT !.each = Append(@, c)]
  PROVE  Body(n, E) /\ Refs(n, E, 0, c.mr) /\ SameRest(s, n) /\ n.rec = s.rec
<1>0. s \in MapState /\ s.each \in Seq(Call)
  BY DEF Body, MapState
<1>1. PICK ee : ee = Append(s.each, c)
  OBVIOUS
<1>2. ee \in Seq(Call) /\ Len(ee) = Len(s.each) + 1 /\ \A i \in DOMAIN ee : ee[i] = c \/ (i \in DOMAIN s.each /\ ee[i] = s.each[i])
  BY <1>0, <1>1
<1>3. n = [s EXCEPT !.each = ee]
  BY <1>0, <1>1 DEF MapState
<1>4. /\ n \in MapState /\ SameRest(s, n) /\ n.rec = s.rec /\ n.list = s.list /\ n.each = ee
      /\ n.count = s.count /\ n.iter = s.iter
  BY <1>0, <1>2, <1>3 DEF MapState, SameRest
<1>5. Body(n, E)
  <2>1. \A i \in DOMAIN n.each : n.each[i].val = Other
    BY <1>2, <1>4 DEF Body
  <2>2. Len(n.each) <= MaxForEach
    BY <1>0, <1>2, <1>4, MapsAssumption
  <2>. QED  BY <1>4, <2>1, <2>2 DEF Body, SameRest
<1>6. Refs(n, E, 0, c.mr)
  <2> SUFFICES ASSUME NEW r \in Records
      PROVE n.rec[r].ref = Cardinality(ItersAt(n, r)) + Cardinality(CallsAt(n, r)) + One(r \in LiveIn(E))
                             + One(r = 0) - One(r = c.mr)
    BY DEF Refs
  <2>1. ItersAt(n, r) = ItersAt(s, r)
    BY <1>4 DEF ItersAt
  <2>2. Pushed(s, n, c)
    BY <1>0, <1>1, <1>4 DEF Pushed
  <2>3. Cardinality(CallsAt(n, r)) = Cardinality(CallsAt(s, r)) + One(r = c.mr)
    BY <2>2, CallsPush
  <2>4. Cardinality(ItersAt(s, r)) \in Nat /\ Cardinality(CallsAt(s, r)) \in Nat
    BY <1>0, ItersAtFinite, CallsAtFinite
  <2>5. n.rec[r].ref = Cardinality(ItersAt(s, r)) + Cardinality(CallsAt(s, r)) + One(r \in LiveIn(E))
                         + One(r = 0) - One(r = 0)
    BY <1>4 DEF Refs
  <2>6. r \in Nat /\ r # 0
    BY MapsAssumption DEF Records
  <2>. QED  BY ONLY <2>1, <2>3, <2>4, <2>5, <2>6 DEF One
<1>. QED  BY <1>4, <1>5, <1>6

\* The innermost callback has ended; its record is still locked.
LEMMA CallOff ==
  ASSUME NEW s, NEW E, Body(s, E), Refs(s, E, 0, 0), s.each # <<>>, NEW n, n = [s EXCEPT !.each = Front(@)]
  PROVE  /\ Body(n, E) /\ Refs(n, E, Last(s.each).mr, 0) /\ SameRest(s, n) /\ n.rec = s.rec /\ n.list = s.list
         /\ Len(n.each) < MaxForEach
         /\ Last(s.each) \in Call /\ Last(s.each).val = Other
         /\ n.rec[Last(s.each).mr].ref >= 1
         /\ n.rec[Last(s.each).mr].ref = 1 => Last(s.each).mr \notin LiveIn(E)
<1>0. s \in MapState /\ s.each \in Seq(Call)
  BY DEF Body, MapState
<1>1. PICK ee : ee = Front(s.each)
  OBVIOUS
<1>2. PICK k : k = Len(s.each)
  OBVIOUS
<1>3. k \in Nat /\ k > 0 /\ k \in DOMAIN s.each /\ Last(s.each) = s.each[k] /\ k <= MaxForEach
  BY <1>0, <1>2 DEF Last, Body
<1>4. ee \in Seq(Call) /\ Len(ee) = k - 1 /\ \A i \in DOMAIN ee : i \in DOMAIN s.each /\ ee[i] = s.each[i]
  BY <1>0, <1>1, <1>2, <1>3 DEF Front
<1>5. n = [s EXCEPT !.each = ee]
  BY <1>0, <1>1 DEF MapState
<1>6. /\ n \in MapState /\ SameRest(s, n) /\ n.rec = s.rec /\ n.list = s.list /\ n.each = ee
      /\ n.count = s.count /\ n.iter = s.iter
  BY <1>0, <1>4, <1>5 DEF MapState, SameRest
<1>7. Body(n, E)
  <2>1. \A i \in DOMAIN n.each : n.each[i].val = Other
    BY <1>4, <1>6 DEF Body
  <2>2. Len(n.each) <= MaxForEach /\ n.held = s.held /\ s.held
    BY <1>3, <1>4, <1>6, MapsAssumption DEF Body, SameRest
  <2>. QED  BY <1>6, <2>1, <2>2 DEF Body, SameRest
<1>8. PICK t : t = Last(s.each)
  OBVIOUS
<1>9. t \in Call /\ t.val = Other /\ t.mr \in Records
  <2>1. t \in Call
    BY <1>0, <1>3, <1>8
  <2>2. t.val = Other
    BY <1>3, <1>8 DEF Body
  <2>. QED  BY <2>1, <2>2 DEF Call
<1>10. Refs(n, E, t.mr, 0)
  <2> SUFFICES ASSUME NEW r \in Records
      PROVE n.rec[r].ref = Cardinality(ItersAt(n, r)) + Cardinality(CallsAt(n, r)) + One(r \in LiveIn(E))
                             + One(r = t.mr) - One(r = 0)
    BY DEF Refs
  <2>1. ItersAt(n, r) = ItersAt(s, r)
    BY <1>6 DEF ItersAt
  <2>2. Popped(s, n)
    BY <1>0, <1>1, <1>6 DEF Popped
  <2>3. Cardinality(CallsAt(n, r)) = Cardinality(CallsAt(s, r)) - One(r = t.mr)
    BY <1>8, <2>2, CallsPop
  <2>4. Cardinality(ItersAt(s, r)) \in Nat /\ Cardinality(CallsAt(s, r)) \in Nat
    BY <1>0, ItersAtFinite, CallsAtFinite
  <2>5. n.rec[r].ref = Cardinality(ItersAt(s, r)) + Cardinality(CallsAt(s, r)) + One(r \in LiveIn(E))
                         + One(r = 0) - One(r = 0)
    BY <1>6 DEF Refs
  <2>6. r \in Nat /\ r # 0
    BY MapsAssumption DEF Records
  <2>. QED  BY ONLY <2>1, <2>3, <2>4, <2>5, <2>6 DEF One
<1>11. n.rec[t.mr].ref >= 1 /\ (n.rec[t.mr].ref = 1 => t.mr \notin LiveIn(E))
  <2>1. Cardinality(ItersAt(n, t.mr)) \in Nat /\ Cardinality(CallsAt(n, t.mr)) \in Nat
    BY <1>6, ItersAtFinite, CallsAtFinite DEF MapState
  <2>2. n.rec[t.mr].ref = Cardinality(ItersAt(n, t.mr)) + Cardinality(CallsAt(n, t.mr)) + One(t.mr \in LiveIn(E))
                            + One(t.mr = t.mr) - One(t.mr = 0)
    BY <1>9, <1>10 DEF Refs
  <2>3. t.mr # 0
    BY <1>9, MapsAssumption DEF Records
  <2>. QED  BY <2>1, <2>2, <2>3 DEF One
<1>12. Len(n.each) < MaxForEach
  BY <1>3, <1>4, <1>6, MapsAssumption
<1>. QED  BY <1>6, <1>7, <1>8, <1>9, <1>10, <1>11, <1>12

\* The map is freed with the last reference to it.
LEMMA FreeMapGood ==
  ASSUME NEW s, NEW E, GoodMap(s, E)
  PROVE  GoodMap(FreeMap(s), E) \/ Gone(FreeMap(s))
<1>1. CASE s.held \/ s.freed \/ \E it \in Iters : s.iter[it].state = "live"
  BY <1>1 DEF FreeMap
<1>2. CASE ~ (s.held \/ s.freed \/ \E it \in Iters : s.iter[it].state = "live")
  <2>0. s \in MapState /\ s.rec \in [Records -> Record] /\ s.iter \in [Iters -> Iter]
    BY DEF GoodMap, Body, MapState
  <2>1. PICK rr : rr = [r \in DOMAIN s.rec |-> NoRecord]
    OBVIOUS
  <2>2. rr \in [Records -> Record] /\ \A r \in Records : rr[r].ref = 0
    BY <2>0, <2>1, NoRecordType
  <2>3. PICK n : n = FreeMap(s)
    OBVIOUS
  <2>4. n = [s EXCEPT !.list = {}, !.rec = rr, !.hash = {}, !.freed = TRUE]
    BY <1>2, <2>0, <2>1, <2>3 DEF FreeMap, MapState
  <2>5. n = [[[[s EXCEPT !.list = {}] EXCEPT !.rec = rr] EXCEPT !.hash = {}] EXCEPT !.freed = TRUE]
    BY <2>0, <2>4 DEF MapState
  <2>6. /\ n \in MapState /\ n.freed /\ n.held = s.held /\ n.used = s.used /\ n.clearing = s.clearing
        /\ n.each = s.each /\ n.rec = rr /\ n.iter = s.iter
    BY <2>0, <2>2, <2>5 DEF MapState
  <2>7. ~ s.held /\ ~ s.used /\ s.clearing = 0 /\ s.each = <<>>
    BY <1>2 DEF GoodMap, Body, Table
  <2>8. \A it \in Iters : s.iter[it].cur = 0 /\ s.iter[it].state # "live"
    BY <1>2 DEF GoodMap, Body
  <2>. QED  BY <2>2, <2>3, <2>6, <2>7, <2>8 DEF Gone
<1>. QED  BY <1>1, <1>2

\* A walk that goes on from record c, which may be gone by now, comes to the entry that is due.
DueIn(E, c) == Least({e.r : e \in {d \in E : d.r > c}})
Lists(s, E) == s.list \subseteq Records /\ LiveIn(E) \subseteq s.list

LEMMA VisitDue ==
  ASSUME NEW s, NEW E, Body(s, E), NEW s0, Lists(s0, E), NEW c \in 0..MaxRecords
  PROVE  /\ FirstFrom(s, NextRecord(s0, c)) = DueIn(E, c)
         /\ DueIn(E, c) = 0 \/ DueIn(E, c) \in LiveIn(E)
<1>0. LiveIn(E) \subseteq Records /\ s.list \subseteq Records /\ Records \subseteq Nat \ {0}
  BY LiveRecords, MapsAssumption DEF Body, MapState, Records
<1>8. PICK l : l = s0.list
  OBVIOUS
<1>1. PICK after : after = {q \in l : q > c}
  OBVIOUS
<1>2. PICK el : el = NextRecord(s0, c)
  OBVIOUS
<1>3. after \subseteq Records /\ el = Least(after)
  BY <1>8, <1>1, <1>2 DEF NextRecord, Lists
<1>4. PICK due : due = {e.r : e \in {d \in E : d.r > c}}
  OBVIOUS
<1>5. due = {r \in LiveIn(E) : r > c}
  BY <1>4 DEF LiveIn
<1>6. CASE after = {}
  <2>1. el = 0 /\ due = {}
    BY <1>8, <1>1, <1>3, <1>5, <1>6, LeastFacts DEF Lists
  <2>2. Least(due) = 0
    BY <2>1 DEF Least
  <2>. QED  BY <1>2, <1>4, <2>1, <2>2 DEF FirstFrom, DueIn
<1>7. CASE after # {}
  <2>1. el \in after /\ \A y \in after : el <= y
    BY <1>3, <1>7, LeastFacts
  <2>2. el # 0 /\ el > c /\ el \in l
    BY <1>0, <1>1, <2>1
  <2>3. {q \in s.list : q >= el /\ ~ s.rec[q].empty} = due
    <3>1. ASSUME NEW q \in s.list, q >= el, ~ s.rec[q].empty PROVE q \in due
      <4>1. q \in LiveIn(E)
        BY <1>0, <3>1 DEF Body
      <4>2. q \in Nat /\ el \in Nat /\ c \in Nat
        <5>1. q \in Records /\ el \in Records
          BY <1>0, <1>3, <2>1
        <5>2. c \in Nat
          BY MapsAssumption
        <5>. QED  BY <1>0, <5>1, <5>2
      <4>. QED  BY <1>5, <2>2, <3>1, <4>1, <4>2
    <3>2. ASSUME NEW q \in due PROVE q \in s.list /\ q >= el /\ ~ s.rec[q].empty
      BY <1>0, <1>8, <1>1, <1>5, <2>1 DEF Body, Lists
    <3>. QED  BY <3>1, <3>2
  <2>4. FirstFrom(s, el) = Least(due)
    BY <2>2, <2>3 DEF FirstFrom
  <2>5. due \subseteq Records
    BY <1>0, <1>5
  <2>6. Least(due) = 0 \/ Least(due) \in due
    BY <2>5, LeastFacts
  <2>. QED  BY <1>2, <1>4, <1>5, <2>4, <2>6 DEF DueIn
<1>. QED  BY <1>6, <1>7

\* A new entry, in a new record at the end of the list.
LEMMA AddGood ==
  ASSUME NEW s, NEW E, GoodMap(s, E), s.clearing = 0, s.made < MaxRecords, NEW key \in MapKeys,
         \A e \in E : e.key # key, NEW n, n = map_add_record(s, key, Other)
  PROVE  GoodMap(n, E \cup {[r |-> s.made + 1, key |-> key]})
<1>0. /\ s \in MapState /\ s.rec \in [Records -> Record] /\ s.list \subseteq Records /\ s.hash \subseteq Records
      /\ s.made \in 0..MaxRecords /\ s.count \in Int /\ s.threshold \in Int
  BY DEF GoodMap, Body, MapState
<1>1. PICK r : r = s.made + 1
  OBVIOUS
<1>2. PICK v : v = [key |-> key, val |-> Other, empty |-> FALSE, ref |-> 1]
  OBVIOUS
<1>3. PICK rr : rr = [s.rec EXCEPT ![r] = v]
  OBVIOUS
<1>4. PICK F : F = E \cup {[r |-> r, key |-> key]}
  OBVIOUS
<1>5. r \in Records /\ r \in 1..MaxRecords /\ \A q \in s.list : q < r
  BY <1>0, <1>1, MapsAssumption DEF GoodMap, Body, Records
<1>6. v \in Record /\ v.key = key /\ v.val = Other /\ v.empty = FALSE /\ v.ref = 1
  BY <1>2 DEF Record
<1>7. rr \in [Records -> Record] /\ rr[r] = v /\ \A q \in Records \ {r} : rr[q] = s.rec[q]
  BY <1>0, <1>3, <1>5, <1>6
<1>8. r \notin s.list /\ r \notin LiveIn(E)
  <2>1. r \notin s.list
    BY <1>5, MapsAssumption DEF Records
  <2>. QED  BY <2>1 DEF GoodMap, Body
<1>9. LiveIn(F) = LiveIn(E) \cup {r} /\ F \subseteq Entry
  <2>1. F \subseteq Entry
    BY <1>4, <1>5 DEF GoodMap, Body, Entry
  <2>2. LiveIn(F) = LiveIn(E) \cup {r}
    <3>1. PICK x : x = [r |-> r, key |-> key]
      OBVIOUS
    <3>2. x.r = r /\ F = E \cup {x}
      BY <1>4, <3>1
    <3>. QED  BY ONLY <3>2 DEF LiveIn
  <2>. QED  BY <2>1, <2>2
<1>10. PICK l : l = s.list \cup {r}
  OBVIOUS
<1>11. PICK h : h = s.hash \cup {r}
  OBVIOUS
<1>12. PICK k : k = s.count + 1
  OBVIOUS
<1>13. PICK m : m = [s EXCEPT !.rec[r] = v, !.list = @ \cup {r}, !.hash = @ \cup {r}, !.count = @ + 1, !.made = r]
  OBVIOUS
<1>14. m = [[[[[s EXCEPT !.rec = rr] EXCEPT !.list = l] EXCEPT !.hash = h] EXCEPT !.count = k] EXCEPT !.made = r]
  BY <1>0, <1>3, <1>10, <1>11, <1>12, <1>13 DEF MapState
<1>15. /\ m \in MapState /\ m.rec = rr /\ m.list = l /\ m.hash = h /\ m.count = k /\ m.made = r
       /\ m.iter = s.iter /\ m.each = s.each /\ m.held = s.held /\ m.freed = s.freed /\ m.used = s.used
       /\ m.clearing = s.clearing
  <2>1. l \in SUBSET Records /\ h \in SUBSET Records /\ k \in Int /\ r \in 0..MaxRecords
    BY <1>0, <1>5, <1>10, <1>11, <1>12
  <2>. QED  BY <1>0, <1>7, <1>14, <2>1 DEF MapState
<1>16. n = IF m.count >= m.threshold THEN map_hash_resize(m) ELSE m
  BY <1>1, <1>2, <1>13 DEF map_add_record
<1>17. {q \in l : ~ rr[q].empty} = LiveIn(F)
  <2>1. ASSUME NEW q \in l, ~ rr[q].empty PROVE q \in LiveIn(F)
    BY <1>0, <1>7, <1>9, <1>10, <2>1 DEF GoodMap, Body
  <2>2. ASSUME NEW q \in LiveIn(F) PROVE q \in l /\ ~ rr[q].empty
    BY <1>0, <1>5, <1>6, <1>7, <1>8, <1>9, <1>10 DEF GoodMap, Body
  <2>. QED  BY <2>1, <2>2
<1>18. h = LiveIn(F)
  BY <1>9, <1>11 DEF GoodMap, Table
<1>19. /\ n \in MapState /\ n.rec = rr /\ n.list = l /\ n.hash = LiveIn(F) /\ n.count = k /\ n.made = r
       /\ n.iter = s.iter /\ n.each = s.each /\ n.held = s.held /\ n.freed = s.freed /\ n.used = s.used
       /\ n.clearing = s.clearing
  <2>1. CASE ~ (m.count >= m.threshold)
    BY <1>15, <1>16, <1>18, <2>1
  <2>2. CASE m.count >= m.threshold
    <3>1. PICK hh : hh = {q \in m.list : ~ m.rec[q].empty}
      OBVIOUS
    <3>2. PICK tt : tt = 2 * m.threshold
      OBVIOUS
    <3>3. hh = LiveIn(F) /\ hh \in SUBSET Records /\ tt \in Int
      BY <1>9, <1>15, <1>17, <3>1, <3>2, LiveRecords DEF MapState
    <3>4. n = [m EXCEPT !.hash = hh, !.threshold = tt]
      BY <1>15, <1>16, <2>2, <3>1, <3>2 DEF map_hash_resize, MapState
    <3>5. n = [[m EXCEPT !.hash = hh] EXCEPT !.threshold = tt]
      BY <1>15, <3>4 DEF MapState
    <3>. QED  BY <1>15, <3>3, <3>5 DEF MapState
  <2>. QED  BY <2>1, <2>2
<1>20. Body(n, F)
  <2>1. \A e, d \in F : e.r = d.r \/ e.key = d.key => e = d
    <3>1. PICK x : x = [r |-> r, key |-> key]
      OBVIOUS
    <3>2. x.r = r /\ x.key = key /\ \A e \in E : e.r # r /\ e.key # key
      BY <1>8, <3>1 DEF LiveIn
    <3>3. \A e \in F : e = x \/ e \in E
      BY <1>4, <3>1
    <3>. QED  BY <3>2, <3>3 DEF GoodMap, Body
  <2>2. \A q \in n.list : q <= n.made
    BY <1>0, <1>5, <1>10, <1>19, MapsAssumption DEF Records
  <2>3. \A q \in Records : q \in n.list <=> n.rec[q].ref > 0
    BY <1>5, <1>6, <1>7, <1>10, <1>19 DEF GoodMap, Body
  <2>4. \A q \in Records : n.rec[q].empty <=> q \notin LiveIn(F)
    BY <1>6, <1>7, <1>9, <1>19 DEF GoodMap, Body
  <2>5. \A q \in Records : n.rec[q].val = Other
    BY <1>6, <1>7, <1>19 DEF GoodMap, Body
  <2>6. \A q \in LiveIn(F) : q \in n.list
    BY <1>9, <1>10, <1>19 DEF GoodMap, Body
  <2>7. \A e \in F : n.rec[e.r].key = e.key
    <3>1. PICK x : x = [r |-> r, key |-> key]
      OBVIOUS
    <3>2. x.r = r /\ x.key = key /\ \A e \in E : e.r # r /\ e.r \in Records
      BY <1>8, <3>1, LiveRecords DEF LiveIn, GoodMap, Body
    <3>3. \A e \in F : e = x \/ e \in E
      BY <1>4, <3>1
    <3>4. n.rec[r].key = key
      BY <1>6, <1>7, <1>19
    <3>5. \A e \in E : n.rec[e.r].key = e.key
      BY <1>7, <1>19, <3>2 DEF GoodMap, Body
    <3>. QED  BY <3>2, <3>3, <3>4, <3>5
  <2>8. n.count = Cardinality(LiveIn(F))
    <3>1. IsFiniteSet(LiveIn(E)) /\ Cardinality(LiveIn(E)) \in Nat
      BY LiveRecords, RecordsFinite DEF GoodMap, Body
    <3>2. Cardinality(LiveIn(F)) = Cardinality(LiveIn(E)) + 1
      BY <1>8, <1>9, <3>1, FS_AddElement
    <3>. QED  BY <1>12, <1>19, <3>2 DEF GoodMap, Body
  <2>. QED  BY <1>9, <1>19, <2>1, <2>2, <2>3, <2>4, <2>5, <2>6, <2>7, <2>8 DEF GoodMap, Body
<1>21. Refs(n, F, 0, 0)
  <2> SUFFICES ASSUME NEW q \in Records
      PROVE n.rec[q].ref = Cardinality(ItersAt(n, q)) + Cardinality(CallsAt(n, q)) + One(q \in LiveIn(F))
                             + One(q = 0) - One(q = 0)
    BY DEF Refs
  <2>1. /\ ItersAt(n, q) = ItersAt(s, q) /\ CallsAt(n, q) = CallsAt(s, q)
        /\ Cardinality(ItersAt(s, q)) \in Nat /\ Cardinality(CallsAt(s, q)) \in Nat
    BY <1>0, <1>19, SameLocks
  <2>2. s.rec[q].ref = Cardinality(ItersAt(s, q)) + Cardinality(CallsAt(s, q)) + One(q \in LiveIn(E))
                         + One(q = 0) - One(q = 0)
    BY DEF GoodMap, Refs
  <2>3. q \in Nat /\ q # 0
    BY MapsAssumption DEF Records
  <2>4. CASE q = r
    <3>1. ~ (s.rec[q].ref > 0) /\ q \notin LiveIn(E)
      BY <1>8, <2>4 DEF GoodMap, Body
    <3>2. n.rec[q].ref = 1 /\ q \in LiveIn(F)
      BY <1>6, <1>7, <1>9, <1>19, <2>4
    <3>. QED  BY ONLY <2>1, <2>2, <2>3, <3>1, <3>2 DEF One
  <2>5. CASE q # r
    <3>1. n.rec[q].ref = s.rec[q].ref /\ (q \in LiveIn(F) <=> q \in LiveIn(E))
      BY <1>7, <1>9, <1>19, <2>5
    <3>. QED  BY ONLY <2>1, <2>2, <2>3, <3>1 DEF One
  <2>. QED  BY <2>4, <2>5
<1>22. Table(n, F)
  BY <1>19 DEF Table
<1>. QED  BY <1>1, <1>4, <1>20, <1>21, <1>22 DEF GoodMap

\* The entry of record x is deleted; the record stays, empty, while it is locked.
LEMMA DeleteGood ==
  ASSUME NEW s, NEW E, Body(s, E), Refs(s, E, 0, 0), NEW x \in LiveIn(E), NEW n, n = map_delete_record(s, x)
  PROVE  LET F == {e \in E : e.r # x}
         IN  /\ Body(n, F) /\ Refs(n, F, 0, 0) /\ SameRest(s, n) /\ LiveIn(F) = LiveIn(E) \ {x}
             /\ \A y \in Records \ {x} : n.rec[y] = s.rec[y] /\ (y \in n.list <=> y \in s.list)
<1>0. /\ s \in MapState /\ s.rec \in [Records -> Record] /\ s.list \subseteq Records /\ x \in Records
      /\ s.count \in Int
  BY LiveRecords DEF Body, MapState
<1>1. PICK F : F = {e \in E : e.r # x}
  OBVIOUS
<1>2. LiveIn(F) = LiveIn(E) \ {x} /\ F \subseteq E
  BY <1>1 DEF LiveIn
<1>3. s.rec[x].val = Other /\ ~ s.rec[x].empty /\ s.rec[x].ref > 0 /\ s.rec[x].ref \in Int
  BY <1>0 DEF Body, Record
<1>4. PICK m : m = [s EXCEPT !.rec[x].val = Other, !.count = @ - 1]
  OBVIOUS
<1>5. /\ m \in MapState /\ SameRest(s, m) /\ m.rec = s.rec /\ m.list = s.list /\ m.iter = s.iter
      /\ m.each = s.each /\ m.count = s.count - 1
  <2>1. [s.rec[x] EXCEPT !.val = Other] = s.rec[x]
    BY <1>0, <1>3 DEF Record
  <2>2. [s.rec EXCEPT ![x] = [s.rec[x] EXCEPT !.val = Other]] = s.rec
    BY <1>0, <2>1
  <2>3. PICK k : k = s.count - 1
    OBVIOUS
  <2>4. m = [s EXCEPT !.count = k]
    BY <1>0, <1>4, <2>2, <2>3 DEF MapState
  <2>. QED  BY <1>0, <2>3, <2>4 DEF MapState, SameRest
<1>6. JS_FreeMapValue(m, s.rec[x].val) = m
  BY <1>3, MapsAssumption DEF JS_FreeMapValue
<1>7. n = IF m.rec[x].ref = 1 THEN FreeRecord(m, x)
          ELSE [m EXCEPT !.rec[x] = [NoRecord EXCEPT !.ref = m.rec[x].ref - 1]]
  BY <1>3, <1>4, <1>6 DEF map_delete_record
<1>8. PICK v : v = [NoRecord EXCEPT !.ref = m.rec[x].ref - 1]
  OBVIOUS
<1>9. v \in Record /\ v.empty = TRUE /\ v.val = Other /\ v.ref = s.rec[x].ref - 1
  <2>1. PICK i : i = s.rec[x].ref - 1
    OBVIOUS
  <2>2. PICK none : none = NoRecord
    OBVIOUS
  <2>3. PICK K : K = MapKeys \cup {NoRecord.key}
    OBVIOUS
  <2>4. none \in [key : K, val : {Other} \cup Iters, empty : BOOLEAN, ref : Int] /\ none.empty = TRUE /\ none.val = Other
    BY <2>2, <2>3, NoRecordType DEF Record
  <2>5. v = [none EXCEPT !.ref = i] /\ i \in Int
    BY <1>3, <1>5, <1>8, <2>1, <2>2
  <2>6. v \in [key : K, val : {Other} \cup Iters, empty : BOOLEAN, ref : Int] /\ v.empty = TRUE /\ v.val = Other /\ v.ref = i
    BY ONLY <2>4, <2>5
  <2>. QED  BY <2>1, <2>3, <2>6 DEF Record
<1>10. /\ n \in MapState /\ SameRest(s, n) /\ n.iter = s.iter /\ n.each = s.each /\ n.count = s.count - 1
       /\ n.list = IF s.rec[x].ref = 1 THEN s.list \ {x} ELSE s.list
       /\ \A y \in Records \ {x} : n.rec[y] = s.rec[y]
       /\ n.rec[x].ref = s.rec[x].ref - 1 /\ n.rec[x].val = Other /\ n.rec[x].empty = TRUE
  <2>1. CASE s.rec[x].ref = 1
    <3>1. PICK rr : rr = [s.rec EXCEPT ![x] = NoRecord]
      OBVIOUS
    <3>2. PICK l : l = s.list \ {x}
      OBVIOUS
    <3>3. rr \in [Records -> Record] /\ rr[x] = NoRecord /\ (\A y \in Records \ {x} : rr[y] = s.rec[y])
          /\ l \in SUBSET Records
      BY <1>0, <3>1, <3>2, NoRecordType
    <3>4. n = [m EXCEPT !.list = @ \ {x}, !.rec[x] = NoRecord]
      BY <1>5, <1>7, <2>1 DEF FreeRecord
    <3>5. n = [[m EXCEPT !.list = l] EXCEPT !.rec = rr]
      BY <1>5, <3>1, <3>2, <3>4 DEF MapState
    <3>6. n \in MapState /\ SameRest(s, n) /\ n.iter = s.iter /\ n.each = s.each /\ n.count = s.count - 1
          /\ n.list = l /\ n.rec = rr
      BY <1>5, <3>3, <3>5 DEF MapState, SameRest
    <3>. QED  BY <2>1, <3>2, <3>3, <3>6, NoRecordType
  <2>2. CASE s.rec[x].ref # 1
    <3>1. PICK rr : rr = [s.rec EXCEPT ![x] = v]
      OBVIOUS
    <3>3. rr \in [Records -> Record] /\ rr[x] = v /\ (\A y \in Records \ {x} : rr[y] = s.rec[y])
      BY <1>0, <1>9, <3>1
    <3>4. n = [m EXCEPT !.rec[x] = v]
      BY <1>5, <1>7, <1>8, <2>2
    <3>5. n = [m EXCEPT !.rec = rr]
      BY <1>5, <3>1, <3>4 DEF MapState
    <3>6. n \in MapState /\ SameRest(s, n) /\ n.iter = s.iter /\ n.each = s.each /\ n.count = s.count - 1
          /\ n.list = s.list /\ n.rec = rr
      BY <1>5, <3>3, <3>5 DEF MapState, SameRest
    <3>. QED  BY <1>9, <2>2, <3>3, <3>6
  <2>. QED  BY <2>1, <2>2
<1>11. \A y \in Records \ {x} : n.rec[y] = s.rec[y] /\ (y \in n.list <=> y \in s.list)
  BY <1>10
<1>12. LiveIn(F) \subseteq Records /\ (\A e \in F : e.r \in Records /\ e.r # x) /\ x \notin LiveIn(F)
       /\ F \subseteq Entry /\ E \subseteq Entry
  BY <1>1, <1>2, LiveRecords DEF Body, LiveIn
<1>13. x \in s.list /\ (x \in n.list <=> n.rec[x].ref > 0)
  BY <1>0, <1>3, <1>10 DEF Body
<1>14. Body(n, F)
  <2>1. \A e, d \in F : e.r = d.r \/ e.key = d.key => e = d
    BY <1>2 DEF Body
  <2>2. \A q \in n.list : q <= n.made
    BY <1>0, <1>10 DEF Body, SameRest
  <2>3. \A q \in Records : q \in n.list <=> n.rec[q].ref > 0
    BY <1>11, <1>13 DEF Body
  <2>4. \A q \in Records : n.rec[q].empty <=> q \notin LiveIn(F)
    BY <1>2, <1>10 DEF Body
  <2>5. \A q \in Records : n.rec[q].val = Other
    BY <1>10 DEF Body
  <2>6. \A q \in LiveIn(F) : q \in n.list
    BY <1>2, <1>11, <1>12 DEF Body
  <2>7. \A e \in F : n.rec[e.r].key = e.key
    BY <1>2, <1>10, <1>12 DEF Body
  <2>8. n.count = Cardinality(LiveIn(F))
    <3>1. IsFiniteSet(LiveIn(E)) /\ Cardinality(LiveIn(E)) \in Nat
      BY <1>12, LiveRecords, RecordsFinite
    <3>2. Cardinality(LiveIn(F)) = Cardinality(LiveIn(E)) - 1
      BY <1>2, <3>1, FS_RemoveElement
    <3>. QED  BY <1>10, <3>2 DEF Body
  <2>. QED  BY <1>10, <1>12, <2>1, <2>2, <2>3, <2>4, <2>5, <2>6, <2>7, <2>8 DEF Body, SameRest
<1>15. Refs(n, F, 0, 0)
  <2> SUFFICES ASSUME NEW q \in Records
      PROVE n.rec[q].ref = Cardinality(ItersAt(n, q)) + Cardinality(CallsAt(n, q)) + One(q \in LiveIn(F))
                             + One(q = 0) - One(q = 0)
    BY DEF Refs
  <2>1. /\ ItersAt(n, q) = ItersAt(s, q) /\ CallsAt(n, q) = CallsAt(s, q)
        /\ Cardinality(ItersAt(s, q)) \in Nat /\ Cardinality(CallsAt(s, q)) \in Nat
    BY <1>0, <1>10, SameLocks
  <2>2. s.rec[q].ref = Cardinality(ItersAt(s, q)) + Cardinality(CallsAt(s, q)) + One(q \in LiveIn(E))
                         + One(q = 0) - One(q = 0)
    BY DEF Refs
  <2>3. q \in Nat /\ q # 0
    BY MapsAssumption DEF Records
  <2>4. CASE q = x
    <3>1. n.rec[q].ref = s.rec[q].ref - 1 /\ q \in LiveIn(E) /\ q \notin LiveIn(F)
      BY <1>10, <1>12, <2>4
    <3>. QED  BY ONLY <2>1, <2>2, <2>3, <3>1 DEF One
  <2>5. CASE q # x
    <3>1. n.rec[q].ref = s.rec[q].ref /\ (q \in LiveIn(F) <=> q \in LiveIn(E))
      BY <1>2, <1>10, <2>5
    <3>. QED  BY ONLY <2>1, <2>2, <2>3, <3>1 DEF One
  <2>. QED  BY <2>4, <2>5
<1>. QED  BY <1>1, <1>2, <1>10, <1>11, <1>14, <1>15

-----------------------------------------------------------------------------
(* The actions.                                                            *)

\* The record after c.
LEMMA NextFacts ==
  ASSUME NEW s, s.list \subseteq Records, NEW c
  PROVE  /\ NextRecord(s, c) = 0 => \A q \in s.list : ~ (q > c)
         /\ NextRecord(s, c) # 0 => /\ NextRecord(s, c) \in s.list /\ NextRecord(s, c) > c
                                    /\ \A q \in s.list : q > c => NextRecord(s, c) <= q
<1>1. PICK T : T = {q \in s.list : q > c}
  OBVIOUS
<1>2. T \subseteq Records /\ NextRecord(s, c) = Least(T)
  BY <1>1 DEF NextRecord
<1>3. 0 \notin Records
  BY MapsAssumption DEF Records
<1>4. Least(T) = 0 <=> T = {}
  BY <1>2, <1>3, LeastFacts
<1>. QED  BY <1>1, <1>2, <1>4, LeastFacts

LEMMA SetKeeps ==
  ASSUME MapInv, NEW key \in MapKeys, js_map_set(key, Other)
  PROVE  MapInv'
<1>1. GoodMap(map, entries) /\ map.clearing = 0 /\ seen' = seen
  BY DEF MapInv, Gone, js_map_set, Usable, Intact
<1>2. map \in MapState /\ map.hash = LiveIn(entries) /\ LiveIn(entries) \subseteq Records
  BY <1>1, LiveRecords DEF GoodMap, Body, Table
<1>3. PICK r : r = CHOOSE q \in map_find_record(map, key) : TRUE
  OBVIOUS
<1>4. CASE map_find_record(map, key) # {}
  <2>1. map' = JS_FreeMapValue([map EXCEPT !.rec[r].val = Other], map.rec[r].val) /\ entries' = entries
    BY <1>3, <1>4 DEF js_map_set
  <2>2. r \in Records
    BY <1>2, <1>3, <1>4 DEF map_find_record
  <2>3. map.rec \in [Records -> Record] /\ map.rec[r].val = Other
    BY <1>1, <2>2 DEF GoodMap, Body, MapState
  <2>4. [map.rec[r] EXCEPT !.val = Other] = map.rec[r]
    BY <2>2, <2>3 DEF Record
  <2>5. [map.rec EXCEPT ![r] = [map.rec[r] EXCEPT !.val = Other]] = map.rec
    BY <2>2, <2>3, <2>4
  <2>6. [map EXCEPT !.rec[r].val = Other] = map
    BY <1>2, <2>5 DEF MapState
  <2>7. map' = map
    BY <2>1, <2>3, <2>6, MapsAssumption DEF JS_FreeMapValue
  <2>. QED  BY <1>1, <2>1, <2>7 DEF MapInv
<1>5. CASE map_find_record(map, key) = {}
  <2>1. /\ map.made < MaxRecords /\ map' = map_add_record(map, key, Other)
        /\ entries' = entries \cup {[r |-> map.made + 1, key |-> key]}
    BY <1>5 DEF js_map_set
  <2>2. \A e \in entries : e.key # key
    <3>1. \A e \in entries : e.r \in map.hash /\ ~ map.rec[e.r].empty /\ map.rec[e.r].key = e.key
      BY <1>1, <1>2, LiveRecords DEF GoodMap, Body
    <3>. QED  BY <1>5, <3>1 DEF map_find_record
  <2>3. GoodMap(map', entries')
    BY <1>1, <2>1, <2>2, AddGood
  <2>. QED  BY <1>1, <2>3 DEF MapInv
<1>. QED  BY <1>4, <1>5

LEMMA DeleteKeeps ==
  ASSUME MapInv, NEW key \in MapKeys, js_map_delete(key)
  PROVE  MapInv'
<1>1. GoodMap(map, entries) /\ map.clearing = 0 /\ seen' = seen
  BY DEF MapInv, Gone, js_map_delete, Usable, Intact
<1>2. PICK r \in map_find_record(map, key) : map' = map_delete_record([map EXCEPT !.hash = @ \ {r}], r)
  BY DEF js_map_delete
<1>3. map \in MapState /\ map.hash = LiveIn(entries) /\ Body(map, entries) /\ Refs(map, entries, 0, 0)
  BY <1>1 DEF GoodMap, Body, Table
<1>4. r \in LiveIn(entries) /\ map.rec[r].key = key
  BY <1>2, <1>3 DEF map_find_record
<1>5. PICK h : h = map.hash \ {r}
  OBVIOUS
<1>6. PICK s : s = [map EXCEPT !.hash = h]
  OBVIOUS
<1>7. /\ s \in MapState /\ s.hash = h /\ s.list = map.list /\ s.rec = map.rec /\ s.iter = map.iter /\ s.each = map.each
      /\ s.count = map.count /\ s.made = map.made /\ s.held = map.held /\ s.freed = map.freed
      /\ s.used = map.used /\ s.clearing = 0
  <2>1. h \in SUBSET Records
    BY <1>3, <1>5 DEF MapState
  <2>. QED  BY <1>1, <1>3, <1>6, <2>1 DEF MapState
<1>8. map' = map_delete_record(s, r)
  BY <1>2, <1>3, <1>5, <1>6 DEF MapState
<1>9. Body(s, entries)
  BY <1>3, <1>7 DEF Body
<1>10. Refs(s, entries, 0, 0)
  BY <1>3, <1>7 DEF Refs, ItersAt, CallsAt
<1>11. PICK F : F = {e \in entries : e.r # r}
  OBVIOUS
<1>12. Body(map', F) /\ Refs(map', F, 0, 0) /\ SameRest(s, map') /\ LiveIn(F) = LiveIn(entries) \ {r}
  BY <1>4, <1>8, <1>9, <1>10, <1>11, DeleteGood
<1>13. entries' = F
  <2>1. PICK e \in entries : e.r = r
    BY <1>4 DEF LiveIn
  <2>2. e.key = key
    BY <1>3, <1>4, <2>1 DEF Body
  <2>3. \A d \in entries : d.r = r <=> d.key = key
    BY <1>3, <2>1, <2>2 DEF Body
  <2>. QED  BY <1>11, <2>3 DEF js_map_delete
<1>14. Table(map', F)
  BY <1>3, <1>5, <1>7, <1>12 DEF Table, SameRest
<1>. QED  BY <1>1, <1>12, <1>13, <1>14 DEF MapInv, GoodMap

LEMMA ClearKeeps ==
  ASSUME MapInv, js_map_clear
  PROVE  MapInv'
<1>1. GoodMap(map, entries) /\ map.clearing = 0 /\ map.held /\ seen' = seen /\ entries' = entries
  BY DEF MapInv, Gone, js_map_clear, Usable, Intact
<1>2. map \in MapState /\ Body(map, entries) /\ Refs(map, entries, 0, 0) /\ map.list \subseteq Records
  BY <1>1 DEF GoodMap, Body, MapState
<1>3. PICK c : c = NextRecord(map, 0)
  OBVIOUS
<1>4. /\ c = 0 => \A q \in map.list : ~ (q > 0)
      /\ c # 0 => c \in map.list /\ \A q \in map.list : q > 0 => c <= q
  BY <1>2, <1>3, NextFacts
<1>5. c \in 0..MaxRecords /\ \A q \in Records : q > 0
  BY <1>2, <1>4, MapsAssumption DEF Records
<1>6. PICK n : n = [map EXCEPT !.hash = {}, !.clearing = c]
  OBVIOUS
<1>7. n = [[map EXCEPT !.hash = {}] EXCEPT !.clearing = c]
  BY <1>2, <1>6 DEF MapState
<1>8. /\ n \in MapState /\ n.hash = {} /\ n.list = map.list /\ n.rec = map.rec /\ n.iter = map.iter /\ n.each = map.each
      /\ n.count = map.count /\ n.made = map.made /\ n.held = map.held /\ n.freed = map.freed
      /\ n.used = map.used /\ n.clearing = c
  BY <1>2, <1>5, <1>7 DEF MapState
<1>9. Body(n, entries)
  BY <1>2, <1>8 DEF Body
<1>10. Refs(n, entries, 0, 0)
  BY <1>2, <1>8 DEF Refs, ItersAt, CallsAt
<1>11. Table(n, entries)
  <2>1. \A r \in LiveIn(entries) : r \in map.list
    BY <1>2 DEF Body
  <2>2. \A e \in entries : e.r \in LiveIn(entries)
    BY DEF LiveIn
  <2>3. c = 0 => LiveIn(entries) = {}
    BY <1>2, <1>4, <1>5, <2>1
  <2>4. c # 0 => \A e \in entries : e.r >= c
    BY <1>2, <1>4, <1>5, <2>1, <2>2, MapsAssumption DEF Records
  <2>. QED  BY <1>1, <1>4, <1>8, <2>3, <2>4 DEF Table
<1>12. map' = n
  BY <1>3, <1>6 DEF js_map_clear
<1>. QED  BY <1>1, <1>9, <1>10, <1>11, <1>12 DEF MapInv, GoodMap

LEMMA ClearRecordKeeps ==
  ASSUME MapInv, ClearRecord
  PROVE  MapInv'
<1>1. GoodMap(map, entries) /\ map.clearing # 0 /\ seen' = seen
  BY DEF MapInv, Gone, ClearRecord
<1>2. /\ map \in MapState /\ Body(map, entries) /\ Refs(map, entries, 0, 0) /\ map.list \subseteq Records
      /\ map.clearing \in map.list /\ map.hash = {} /\ map.held /\ \A e \in entries : e.r >= map.clearing
  BY <1>1 DEF GoodMap, Body, MapState, Table
<1>3. PICK c : c = map.clearing
  OBVIOUS
<1>4. PICK next : next = NextRecord(map, c)
  OBVIOUS
<1>5. /\ next = 0 => \A q \in map.list : ~ (q > c)
      /\ next # 0 => next \in map.list /\ next > c /\ \A q \in map.list : q > c => next <= q
  BY <1>2, <1>4, NextFacts
<1>6. PICK n : n = map_delete_record(map, c)
  OBVIOUS
<1>7. PICK F : F = {e \in entries : e.r # c}
  OBVIOUS
<1>8. /\ Body(n, F) /\ Refs(n, F, 0, 0) /\ SameRest(map, n)
      /\ \A y \in Records \ {c} : n.rec[y] = map.rec[y] /\ (y \in n.list <=> y \in map.list)
  <2>1. CASE map.rec[c].empty
    <3>1. n = map
      BY <1>6, <2>1 DEF map_delete_record
    <3>2. c \notin LiveIn(entries)
      BY <1>2, <1>3, <2>1 DEF Body
    <3>3. F = entries
      BY <1>7, <3>2 DEF LiveIn
    <3>. QED  BY <1>2, <3>1, <3>3 DEF SameRest
  <2>2. CASE ~ map.rec[c].empty
    <3>1. c \in LiveIn(entries)
      BY <1>2, <1>3, <2>2 DEF Body
    <3>. QED  BY <1>2, <1>6, <1>7, <3>1, DeleteGood
  <2>. QED  BY <2>1, <2>2
<1>9. next # 0 => Allocated(n, next) /\ next \in n.list
  <2>1. ASSUME next # 0 PROVE Allocated(n, next) /\ next \in n.list
    <3>1. next \in Records /\ next # c /\ next \in map.list
      BY <1>2, <1>3, <1>5, <2>1, MapsAssumption DEF Records
    <3>2. n.rec[next] = map.rec[next] /\ next \in n.list
      BY <1>8, <3>1
    <3>. QED  BY <1>2, <3>1, <3>2 DEF Body, Allocated
  <2>. QED  BY <2>1
<1>10. next \in 0..MaxRecords
  BY <1>2, <1>5, MapsAssumption DEF Records
<1>11. PICK m : m = [n EXCEPT !.clearing = next, !.used = FALSE]
  OBVIOUS
<1>12. map' = m /\ entries' = F
  <2>1. map' = [n EXCEPT !.clearing = next, !.used = next # 0 /\ ~ Allocated(n, next)]
    BY <1>3, <1>4, <1>6 DEF ClearRecord
  <2>2. (next # 0 /\ ~ Allocated(n, next)) = FALSE
    BY <1>9
  <2>3. map' = m
    BY <1>11, <2>1, <2>2
  <2>. QED  BY <1>3, <1>7, <2>3 DEF ClearRecord
<1>13. n \in MapState
  BY <1>8 DEF Body
<1>14. m = [[n EXCEPT !.clearing = next] EXCEPT !.used = FALSE]
  BY <1>11, <1>13 DEF MapState
<1>15. /\ m \in MapState /\ m.hash = n.hash /\ m.list = n.list /\ m.rec = n.rec /\ m.iter = n.iter /\ m.each = n.each
       /\ m.count = n.count /\ m.made = n.made /\ m.held = n.held /\ m.freed = n.freed
       /\ m.used = FALSE /\ m.clearing = next
  BY <1>10, <1>13, <1>14 DEF MapState
<1>16. Body(m, F)
  BY <1>8, <1>15 DEF Body
<1>17. Refs(m, F, 0, 0)
  BY <1>8, <1>15 DEF Refs, ItersAt, CallsAt
<1>18. Table(m, F)
  <2>1. m.hash = {} /\ m.held
    BY <1>2, <1>8, <1>15 DEF SameRest
  <2>2. \A e \in F : e.r \in map.list /\ e.r \in Records /\ e.r > c
    BY <1>2, <1>3, <1>7, LiveRecords, MapsAssumption DEF Body, Records
  <2>3. next = 0 => LiveIn(F) = {}
    BY <1>5, <2>2 DEF LiveIn
  <2>4. next # 0 => \A e \in F : e.r >= next
    BY <1>5, <1>10, <2>2, MapsAssumption DEF Records
  <2>. QED  BY <1>9, <1>15, <2>1, <2>3, <2>4 DEF Table
<1>. QED  BY <1>1, <1>12, <1>16, <1>17, <1>18 DEF MapInv, GoodMap

LEMMA CreateKeeps ==
  ASSUME MapInv, NEW it \in Iters, js_create_map_iterator(it)
  PROVE  MapInv'
<1>1. GoodMap(map, entries) /\ seen' = seen /\ entries' = entries /\ map.iter[it].state = "none"
  BY DEF MapInv, Gone, js_create_map_iterator, Usable, Intact
<1>2. PICK v : v = IterAtNone("live", TRUE)
  OBVIOUS
<1>3. v \in Iter /\ v.cur = 0
  <2>1. 0 \in 0..MaxRecords
    BY MapsAssumption
  <2>. QED  BY <1>2, <2>1 DEF Iter, IterAtNone
<1>4. map.iter[it].cur = 0
  BY <1>1 DEF GoodMap, Body
<1>5. Body(map, entries) /\ Refs(map, entries, 0, 0)
  BY <1>1 DEF GoodMap
<1>6. map' = [map EXCEPT !.iter = [map.iter EXCEPT ![it] = v]]
  BY <1>2, <1>5 DEF js_create_map_iterator, Body, MapState
<1>7. Body(map', entries) /\ SameRest(map, map') /\ map'.list = map.list /\ Refs(map', entries, 0, 0)
  <2>1. PICK n : n = map'
    OBVIOUS
  <2>2. IterPut(map, entries, n, it, v)
    BY <1>3, <1>5, <1>6, <2>1 DEF IterPut
  <2>3. v.cur = map.iter[it].cur
    BY <1>3, <1>4
  <2>4. Body(n, entries) /\ SameRest(map, n) /\ n.list = map.list
    BY <2>2, IterSet
  <2>5. Refs(n, entries, 0, 0)
    BY <1>5, <2>2, <2>3, IterStays
  <2>. QED  BY <2>1, <2>4, <2>5
<1>8. Table(map', entries)
  BY <1>1, <1>7 DEF GoodMap, Table, SameRest
<1>. QED  BY <1>1, <1>7, <1>8 DEF GoodMap, MapInv

\* The variable of an iterator goes; with it the iterator, unless something else holds it.
LEMMA DropIteratorKeeps ==
  ASSUME MapInv, NEW it \in Iters, DropIterator(it)
  PROVE  MapInv'
<1>1. seen' = seen /\ entries' = entries /\ map' = JS_FreeMapValue([map EXCEPT !.iter[it].var = FALSE], it)
  BY DEF DropIterator
<1>2. map \in MapState /\ map.iter \in [Iters -> Iter] /\ map.iter[it] \in Iter
  BY DEF MapInv, GoodMap, Body, Gone, MapState
<1>3. PICK v : v = [map.iter[it] EXCEPT !.var = FALSE]
  OBVIOUS
<1>4. v \in Iter /\ v.cur = map.iter[it].cur /\ v.state = map.iter[it].state
  BY <1>2, <1>3 DEF Iter
<1>5. PICK s : s = [map EXCEPT !.iter = [map.iter EXCEPT ![it] = v]]
  OBVIOUS
<1>6. map' = JS_FreeMapValue(s, it)
  BY <1>1, <1>2, <1>3, <1>5 DEF MapState
<1>7. PICK w : w = IterAtNone("freed", FALSE)
  OBVIOUS
<1>8. w \in Iter /\ w.cur = 0 /\ w.state # "live"
  <2>1. 0 \in 0..MaxRecords
    BY MapsAssumption
  <2>. QED  BY <1>7, <2>1 DEF Iter, IterAtNone
<1>9. CASE GoodMap(map, entries)
  <2>1. Body(map, entries) /\ Refs(map, entries, 0, 0)
    BY <1>9 DEF GoodMap
  <2>2. v.cur # 0 => v.state = "live"
    BY <1>4, <2>1 DEF Body
  <2>3. /\ Body(s, entries) /\ SameRest(map, s) /\ s.list = map.list /\ Refs(s, entries, 0, 0)
        /\ s.iter = [map.iter EXCEPT ![it] = v]
    <3>1. IterPut(map, entries, s, it, v)
      BY <1>4, <1>5, <2>1, <2>2 DEF IterPut
    <3>2. Refs(s, entries, 0, 0)
      BY <1>4, <2>1, <3>1, IterStays
    <3>3. Body(s, entries) /\ SameRest(map, s) /\ s.list = map.list /\ Moved(map, s, it, v)
      BY <3>1, IterSet
    <3>. QED  BY <3>2, <3>3 DEF Moved
  <2>4. Table(s, entries)
    BY <1>9, <2>3 DEF GoodMap, Table, SameRest
  <2>5. CASE map' = s
    BY <1>1, <2>3, <2>4, <2>5 DEF GoodMap, MapInv
  <2>6. CASE map' # s
    <3>1. map' = js_map_iterator_finalizer(s, it)
      BY <1>6, <2>6 DEF JS_FreeMapValue
    <3>2. PICK gone : gone = [s EXCEPT !.iter = [s.iter EXCEPT ![it] = w]]
      OBVIOUS
    <3>3. s \in MapState
      BY <2>3 DEF Body
    <3>4. map' = FreeMap(IF s.iter[it].cur = 0 THEN gone ELSE map_decref_record(gone, s.iter[it].cur))
      BY <1>7, <3>1, <3>2, <3>3 DEF js_map_iterator_finalizer, MapState
    <3>5. PICK c : c = s.iter[it].cur
      OBVIOUS
    <3>6. /\ Body(gone, entries) /\ SameRest(s, gone) /\ gone.list = s.list /\ gone.rec = s.rec
          /\ Refs(gone, entries, c, 0)
      <4>1. IterPut(s, entries, gone, it, w)
        BY <1>8, <2>3, <3>2 DEF IterPut
      <4>2. Refs(gone, entries, s.iter[it].cur, 0)
        BY <1>8, <2>3, <4>1, IterLeaves
      <4>3. Body(gone, entries) /\ SameRest(s, gone) /\ gone.list = s.list /\ gone.rec = s.rec
        BY <4>1, IterSet
      <4>. QED  BY <3>5, <4>2, <4>3
    <3>7. map.clearing = 0
      BY DEF DropIterator, Intact
    <3>8. CASE c = 0
      <4>1. GoodMap(gone, entries)
        BY <2>3, <2>4, <3>6, <3>7, <3>8 DEF GoodMap, Table, SameRest
      <4>. QED  BY <1>1, <3>4, <3>5, <3>8, <4>1, FreeMapGood DEF MapInv
    <3>9. CASE c # 0
      <4>1. c \in Records /\ s.rec[c].ref >= 1 /\ (s.rec[c].ref = 1 => c \notin LiveIn(entries))
        BY <2>3, <3>5, <3>9, IterLocks
      <4>2. PICK n : n = map_decref_record(gone, c)
        OBVIOUS
      <4>3. Body(n, entries) /\ Refs(n, entries, c, c) /\ SameRest(gone, n)
        BY <3>6, <4>1, <4>2, DecrefGood
      <4>4. Refs(n, entries, 0, 0)
        BY <4>3, RefsMeet DEF Body
      <4>5. Table(n, entries)
        BY <2>3, <2>4, <3>6, <3>7, <4>3 DEF Table, SameRest
      <4>6. GoodMap(n, entries) /\ map' = FreeMap(n)
        BY <3>4, <3>5, <3>9, <4>2, <4>3, <4>4, <4>5 DEF GoodMap
      <4>. QED  BY <1>1, <4>6, FreeMapGood DEF MapInv
    <3>. QED  BY <3>8, <3>9
  <2>. QED  BY <2>5, <2>6
<1>10. CASE Gone(map)
  <2>1. PICK ii : ii = [map.iter EXCEPT ![it] = v]
    OBVIOUS
  <2>2. ii \in [Iters -> Iter] /\ \A j \in Iters : ii[j].cur = 0 /\ ii[j].state # "live"
    BY <1>2, <1>4, <1>10, <2>1 DEF Gone
  <2>3. /\ s \in MapState /\ s.iter = ii /\ s.freed = map.freed /\ s.held = map.held /\ s.used = map.used
        /\ s.clearing = map.clearing /\ s.each = map.each /\ s.rec = map.rec
    BY <1>2, <1>5, <2>1, <2>2 DEF MapState
  <2>4. Gone(s)
    BY <1>10, <2>2, <2>3 DEF Gone
  <2>5. CASE map' = s
    BY <1>1, <2>4, <2>5 DEF MapInv
  <2>6. CASE map' # s
    <3>1. map' = js_map_iterator_finalizer(s, it)
      BY <1>6, <2>6 DEF JS_FreeMapValue
    <3>2. PICK jj : jj = [s.iter EXCEPT ![it] = w]
      OBVIOUS
    <3>3. jj \in [Iters -> Iter] /\ \A j \in Iters : jj[j].cur = 0 /\ jj[j].state # "live"
      BY <1>8, <2>2, <2>3, <3>2
    <3>4. PICK gone : gone = [s EXCEPT !.iter = jj]
      OBVIOUS
    <3>5. /\ gone \in MapState /\ gone.iter = jj /\ gone.freed = s.freed /\ gone.held = s.held /\ gone.used = s.used
          /\ gone.clearing = s.clearing /\ gone.each = s.each /\ gone.rec = s.rec
      BY <2>3, <3>3, <3>4 DEF MapState
    <3>6. Gone(gone)
      BY <2>4, <3>3, <3>5 DEF Gone
    <3>7. map' = FreeMap(gone)
      BY <1>7, <2>2, <2>3, <3>1, <3>2, <3>4 DEF js_map_iterator_finalizer, MapState
    <3>8. map' = gone
      BY <3>6, <3>7 DEF FreeMap, Gone
    <3>. QED  BY <1>1, <3>6, <3>8 DEF MapInv
  <2>. QED  BY <2>5, <2>6
<1>. QED  BY <1>9, <1>10 DEF MapInv

LEMMA DropMapKeeps ==
  ASSUME MapInv, DropMap
  PROVE  MapInv'
<1>1. GoodMap(map, entries) /\ seen' = seen /\ entries' = entries /\ map.clearing = 0 /\ map.each = <<>>
  BY DEF MapInv, Gone, DropMap, Usable, Intact
<1>2. map \in MapState
  BY <1>1 DEF GoodMap, Body
<1>3. PICK n : n = [map EXCEPT !.held = FALSE]
  OBVIOUS
<1>4. /\ n \in MapState /\ n.hash = map.hash /\ n.list = map.list /\ n.rec = map.rec /\ n.iter = map.iter /\ n.each = map.each
      /\ n.count = map.count /\ n.made = map.made /\ n.freed = map.freed /\ n.used = map.used /\ n.clearing = map.clearing
  BY <1>2, <1>3 DEF MapState
<1>5. Body(n, entries)
  BY <1>1, <1>4 DEF GoodMap, Body
<1>6. Refs(n, entries, 0, 0)
  BY <1>1, <1>4 DEF GoodMap, Refs, ItersAt, CallsAt
<1>7. Table(n, entries)
  BY <1>1, <1>4 DEF GoodMap, Table
<1>8. GoodMap(n, entries) /\ map' = FreeMap(n)
  BY <1>3, <1>5, <1>6, <1>7 DEF GoodMap, DropMap
<1>. QED  BY <1>1, <1>8, FreeMapGood DEF MapInv

\* The iterator goes to the next entry: the one that is due.
LEMMA IteratorNextKeeps ==
  ASSUME MapInv, NEW it \in Iters, js_map_iterator_next(it)
  PROVE  MapInv'
<1>1. GoodMap(map, entries) /\ map.clearing = 0 /\ entries' = entries /\ map.iter[it].state = "live"
  BY DEF MapInv, Gone, js_map_iterator_next, Intact
<1>2. /\ map \in MapState /\ Body(map, entries) /\ Refs(map, entries, 0, 0) /\ map.iter \in [Iters -> Iter]
      /\ map.list \in SUBSET Records /\ map.iter[it] \in Iter
  BY <1>1 DEF GoodMap, Body, MapState
<1> DEFINE c == map.iter[it].cur
           left == IF c = 0 THEN map ELSE map_decref_record(map, c)
           mr == FirstFrom(left, NextRecord(map, c))
           at == [left EXCEPT !.iter[it].cur = mr]
<1>3. /\ map' = IF mr # 0 THEN LockRecord(at, mr) ELSE FreeMap([at EXCEPT !.iter[it].state = "done"])
      /\ seen' = [came |-> mr, due |-> Due(c)]
  BY DEF js_map_iterator_next
<1>4. c = map.iter[it].cur
  OBVIOUS
<1>5. left = IF c = 0 THEN map ELSE map_decref_record(map, c)
  OBVIOUS
<1>6. mr = FirstFrom(left, NextRecord(map, c))
  OBVIOUS
<1>7. at = [left EXCEPT !.iter[it].cur = mr]
  OBVIOUS
<1> HIDE DEF c, left, mr, at
<1>8. c \in 0..MaxRecords
  BY <1>2, <1>4 DEF Iter
<1>9. Body(left, entries) /\ Refs(left, entries, 0, c) /\ SameRest(map, left) /\ left.iter = map.iter
  <2>1. CASE c = 0
    BY <1>2, <1>5, <2>1 DEF SameRest
  <2>2. CASE c # 0
    <3>1. c \in Records /\ map.rec[c].ref >= 1 /\ (map.rec[c].ref = 1 => c \notin LiveIn(entries))
      BY <1>2, <1>4, <2>2, IterLocks
    <3>2. left = map_decref_record(map, c)
      BY <1>5, <2>2
    <3>. QED  BY <1>2, <3>1, <3>2, DecrefGood
  <2>. QED  BY <2>1, <2>2
<1>10. mr = DueIn(entries, c) /\ (mr = 0 \/ mr \in LiveIn(entries))
  <2>1. Lists(map, entries)
    BY <1>2 DEF Body, Lists
  <2>. QED  BY <1>8, <1>9, <1>6, <2>1, VisitDue
<1>11. seen'.came = seen'.due
  <2>1. Due(c) = mr
    BY <1>10 DEF Due, DueIn
  <2>. QED  BY <1>3, <2>1
<1>12. left \in MapState /\ left.iter \in [Iters -> Iter] /\ left.iter[it] \in Iter /\ left.iter[it].state = "live"
       /\ left.iter[it].cur = c
  BY <1>1, <1>2, <1>4, <1>9 DEF Body
<1>13. mr \in 0..MaxRecords
  BY <1>10, MapsAssumption, LiveRecords, <1>2 DEF Records, Body
<1>14. PICK v : v = [left.iter[it] EXCEPT !.cur = mr]
  OBVIOUS
<1>15. v \in Iter /\ v.cur = mr /\ v.state = "live"
  BY <1>12, <1>13, <1>14 DEF Iter
<1>16. at = [left EXCEPT !.iter = [left.iter EXCEPT ![it] = v]]
  BY <1>7, <1>12, <1>14 DEF MapState
<1>17. CASE mr # 0
  <2>1. IterPut(left, entries, at, it, v)
    BY <1>9, <1>15, <1>16 DEF IterPut
  <2>2. Body(at, entries) /\ SameRest(left, at) /\ at.rec = left.rec /\ at.list = left.list
    BY <2>1, IterSet
  <2>3. Refs(at, entries, 0, v.cur)
    <3>1. Refs(left, entries, 0, left.iter[it].cur)
      BY <1>9, <1>12
    <3>. QED  BY <2>1, <3>1, IterGoes
  <2>4. mr \in LiveIn(entries) /\ at.rec[mr].ref >= 1
    <3>1. mr \in LiveIn(entries) /\ mr \in Records
      BY <1>2, <1>10, <1>17, LiveRecords DEF Body
    <3>2. mr \in at.list /\ at.rec[mr].ref > 0
      BY <2>2, <3>1 DEF Body
    <3>3. at.rec[mr].ref \in Int
      BY <2>2, <3>1 DEF Body, MapState, Record
    <3>. QED  BY <3>1, <3>2, <3>3
  <2>5. PICK n : n = LockRecord(at, mr)
    OBVIOUS
  <2>6. Body(n, entries) /\ Refs(n, entries, 0, 0) /\ SameRest(at, n)
    <3>1. Refs(at, entries, 0, mr)
      BY <1>15, <2>3
    <3>. QED  BY <2>2, <2>4, <2>5, <3>1, LockGood
  <2>7. n.clearing = 0 /\ n.hash = map.hash
    BY <1>1, <1>9, <2>2, <2>6 DEF SameRest
  <2>8. Table(n, entries)
    BY <1>1, <2>7 DEF GoodMap, Table
  <2>9. map' = n
    BY <1>3, <1>17, <2>5
  <2>. QED  BY <1>1, <1>11, <2>6, <2>8, <2>9 DEF MapInv, GoodMap
<1>18. CASE mr = 0
  <2>1. PICK n : n = [at EXCEPT !.iter[it].state = "done"]
    OBVIOUS
  <2>2. PICK w : w = [v EXCEPT !.state = "done"]
    OBVIOUS
  <2>3. w \in Iter /\ w.cur = 0
    BY <1>15, <1>18, <2>2 DEF Iter
  <2>4. n = [left EXCEPT !.iter = [left.iter EXCEPT ![it] = w]]
    BY <1>12, <1>16, <2>1, <2>2 DEF MapState
  <2>5. IterPut(left, entries, n, it, w)
    BY <1>9, <2>3, <2>4 DEF IterPut
  <2>6. Body(n, entries) /\ SameRest(left, n)
    BY <2>5, IterSet
  <2>7. Refs(n, entries, 0, w.cur)
    <3>1. Refs(left, entries, 0, left.iter[it].cur)
      BY <1>9, <1>12
    <3>. QED  BY <2>5, <3>1, IterGoes
  <2>8. Refs(n, entries, 0, 0)
    BY <2>3, <2>7
  <2>9. n.clearing = 0 /\ n.hash = map.hash
    BY <1>1, <1>9, <2>6 DEF SameRest
  <2>10. Table(n, entries)
    BY <1>1, <2>9 DEF GoodMap, Table
  <2>11. GoodMap(n, entries) /\ map' = FreeMap(n)
    BY <1>3, <1>18, <2>1, <2>6, <2>8, <2>10 DEF GoodMap
  <2>. QED  BY <1>1, <1>11, <2>11, FreeMapGood DEF MapInv
<1>. QED  BY <1>17, <1>18

\* forEach goes on behind record c, which may be gone by now.
LEMMA ForEachFromKeeps ==
  ASSUME NEW s, GoodMap(s, entries), s.held, s.clearing = 0, Len(s.each) < MaxForEach, entries' = entries,
         NEW s0, Lists(s0, entries), NEW c \in 0..MaxRecords,
         ForEachFrom(s, NextRecord(s0, c), c)
  PROVE  MapInv'
<1>1. Body(s, entries) /\ Refs(s, entries, 0, 0) /\ Table(s, entries) /\ s \in MapState
  BY DEF GoodMap, Body
<1>2. PICK mr : mr = FirstFrom(s, NextRecord(s0, c))
  OBVIOUS
<1>3. mr = DueIn(entries, c) /\ (mr = 0 \/ mr \in LiveIn(entries))
  BY <1>1, <1>2, VisitDue
<1>4. seen'.came = seen'.due
  <2>1. seen' = [came |-> mr, due |-> Due(c)]
    BY <1>2 DEF ForEachFrom
  <2>2. Due(c) = mr
    BY <1>3 DEF Due, DueIn
  <2>. QED  BY <2>1, <2>2
<1>5. CASE mr = 0
  <2>1. map' = s
    BY <1>2, <1>5 DEF ForEachFrom
  <2>. QED  BY <1>4, <2>1 DEF MapInv
<1>6. CASE mr # 0
  <2>1. mr \in LiveIn(entries) /\ mr \in Records
    BY <1>1, <1>3, <1>6, LiveRecords DEF Body
  <2>2. PICK called : called = [mr |-> mr, val |-> s.rec[mr].val]
    OBVIOUS
  <2>3. called \in Call /\ called.val = Other /\ called.mr = mr
    <3>1. s.rec[mr].val = Other
      BY <1>1, <2>1 DEF Body
    <3>. QED  BY <2>1, <2>2, <3>1 DEF Call
  <2>4. PICK on : on = [s EXCEPT !.each = Append(@, called)]
    OBVIOUS
  <2>5. Body(on, entries) /\ Refs(on, entries, 0, called.mr) /\ SameRest(s, on) /\ on.rec = s.rec
    BY <1>1, <2>3, <2>4, CallOn
  <2>6. Refs(on, entries, 0, mr)
    BY <2>3, <2>5
  <2>7. on.rec[mr].ref >= 1
    <3>1. mr \in on.list /\ on.rec[mr].ref > 0 /\ on.rec[mr].ref \in Int
      BY <2>1, <2>5 DEF Body, MapState, Record
    <3>. QED  BY <3>1
  <2>8. PICK n : n = LockRecord(on, mr)
    OBVIOUS
  <2>9. Body(n, entries) /\ Refs(n, entries, 0, 0) /\ SameRest(on, n)
    BY <2>1, <2>5, <2>6, <2>7, <2>8, LockGood
  <2>10. n.clearing = 0 /\ n.hash = s.hash
    BY <2>5, <2>9 DEF SameRest
  <2>11. Table(n, entries)
    BY <1>1, <2>10 DEF Table
  <2>12. map' = n
    BY <1>2, <1>6, <2>2, <2>4, <2>8 DEF ForEachFrom
  <2>. QED  BY <1>4, <2>9, <2>11, <2>12 DEF MapInv, GoodMap
<1>. QED  BY <1>5, <1>6

LEMMA ForEachKeeps ==
  ASSUME MapInv, js_map_forEach
  PROVE  MapInv'
<1>1. GoodMap(map, entries) /\ map.clearing = 0 /\ map.held /\ Len(map.each) < MaxForEach /\ entries' = entries
      /\ ForEachFrom(map, NextRecord(map, 0), 0)
  BY DEF MapInv, Gone, js_map_forEach, Usable, Intact
<1>2. Lists(map, entries) /\ 0 \in 0..MaxRecords
  BY <1>1, MapsAssumption DEF GoodMap, Body, MapState, Lists
<1>. QED  BY <1>1, <1>2, ForEachFromKeeps

\* What a callback leaves behind: its record is unlocked, the next one is still there.
LEMMA CallbackEnds ==
  ASSUME MapInv, Intact, map.each # <<>>, NEW done, NEW left,
         done = JS_FreeMapValue([map EXCEPT !.each = Front(@)], Last(map.each).val),
         left = map_decref_record(done, Last(map.each).mr)
  PROVE  /\ GoodMap(map, entries) /\ GoodMap(left, entries) /\ left.held /\ left.clearing = 0
         /\ Len(left.each) < MaxForEach /\ done.list = map.list /\ Last(map.each).mr \in Records
         /\ \A y \in map.list : y # Last(map.each).mr => Allocated(left, y)
<1>1. GoodMap(map, entries) /\ map.clearing = 0
  BY DEF MapInv, Gone, Intact
<1>2. Body(map, entries) /\ Refs(map, entries, 0, 0) /\ map.held /\ map \in MapState
  BY <1>1 DEF GoodMap, Body
<1>3. PICK off : off = [map EXCEPT !.each = Front(@)]
  OBVIOUS
<1>4. PICK t : t = Last(map.each)
  OBVIOUS
<1>5. /\ Body(off, entries) /\ Refs(off, entries, t.mr, 0) /\ SameRest(map, off) /\ off.rec = map.rec
      /\ off.list = map.list /\ Len(off.each) < MaxForEach
      /\ t \in Call /\ t.val = Other
      /\ off.rec[t.mr].ref >= 1 /\ (off.rec[t.mr].ref = 1 => t.mr \notin LiveIn(entries))
  BY <1>2, <1>3, <1>4, CallOff
<1>6. done = off
  BY <1>3, <1>4, <1>5, MapsAssumption DEF JS_FreeMapValue
<1>7. t.mr \in Records /\ left = map_decref_record(off, t.mr)
  BY <1>4, <1>5, <1>6 DEF Call
<1>8. /\ Body(left, entries) /\ Refs(left, entries, t.mr, t.mr) /\ SameRest(off, left) /\ left.each = off.each
      /\ \A y \in Records \ {t.mr} : left.rec[y] = off.rec[y] /\ (y \in left.list <=> y \in off.list)
  BY <1>5, <1>7, DecrefGood
<1>9. Refs(left, entries, 0, 0)
  BY <1>8, RefsMeet DEF Body
<1>10. left.held /\ left.clearing = 0 /\ left.hash = map.hash
  BY <1>1, <1>2, <1>5, <1>8 DEF SameRest
<1>11. Table(left, entries)
  BY <1>1, <1>10 DEF GoodMap, Table
<1>12. \A y \in map.list : y # t.mr => Allocated(left, y)
  BY <1>2, <1>5, <1>8 DEF Body, MapState, Allocated
<1>. QED  BY <1>1, <1>4, <1>5, <1>6, <1>7, <1>8, <1>9, <1>10, <1>11, <1>12 DEF GoodMap

LEMMA CallbackReturnsKeeps ==
  ASSUME MapInv, CallbackReturns(Other)
  PROVE  MapInv'
<1>1. Intact /\ map.each # <<>> /\ entries' = entries
  BY DEF CallbackReturns
<1>2. PICK c : c = Last(map.each).mr
  OBVIOUS
<1>3. PICK done : done = JS_FreeMapValue([map EXCEPT !.each = Front(@)], Last(map.each).val)
  OBVIOUS
<1>4. PICK left : left = map_decref_record(done, Last(map.each).mr)
  OBVIOUS
<1>5. PICK el : el = NextRecord(done, c)
  OBVIOUS
<1>6. /\ GoodMap(map, entries) /\ GoodMap(left, entries) /\ left.held /\ left.clearing = 0
      /\ Len(left.each) < MaxForEach /\ done.list = map.list /\ c \in Records
      /\ \A y \in map.list : y # c => Allocated(left, y)
  BY <1>1, <1>2, <1>3, <1>4, CallbackEnds
<1>7. done.list \subseteq Records /\ Lists(done, entries) /\ c \in 0..MaxRecords
  BY <1>6, MapsAssumption DEF GoodMap, Body, MapState, Records, Lists
<1>8. el = 0 \/ Allocated(left, el)
  <2>1. el # 0 => el \in map.list /\ el > c
    BY <1>5, <1>6, <1>7, NextFacts
  <2>2. el # 0 => el # c
    BY <1>7, <2>1
  <2>. QED  BY <1>6, <2>1, <2>2
<1>9. IF el # 0 /\ ~ Allocated(left, el)
      THEN map' = [left EXCEPT !.used = TRUE] /\ UNCHANGED seen
      ELSE ForEachFrom(left, el, c)
  BY <1>2, <1>3, <1>4, <1>5, MapsAssumption DEF CallbackReturns
<1>10. ForEachFrom(left, NextRecord(done, c), c)
  BY <1>5, <1>8, <1>9
<1>. QED  BY <1>1, <1>6, <1>7, <1>10, ForEachFromKeeps

LEMMA CallbackThrowsKeeps ==
  ASSUME MapInv, CallbackThrows
  PROVE  MapInv'
<1>1. Intact /\ map.each # <<>> /\ entries' = entries /\ seen' = seen
  BY DEF CallbackThrows
<1>2. PICK done : done = JS_FreeMapValue([map EXCEPT !.each = Front(@)], Last(map.each).val)
  OBVIOUS
<1>3. PICK left : left = map_decref_record(done, Last(map.each).mr)
  OBVIOUS
<1>4. GoodMap(left, entries)
  BY <1>1, <1>2, <1>3, CallbackEnds
<1>5. map' = left
  BY <1>2, <1>3 DEF CallbackThrows
<1>. QED  BY <1>1, <1>4, <1>5 DEF MapInv

-----------------------------------------------------------------------------
(* The specification.                                                      *)

LEMMA InitMapInv == MapsInit => MapInv
<1> SUFFICES ASSUME MapsInit PROVE MapInv
  OBVIOUS
<1>1. PICK rr : rr = [r \in Records |-> NoRecord]
  OBVIOUS
<1>2. PICK ii : ii = [it \in Iters |-> NoIter]
  OBVIOUS
<1>3. rr \in [Records -> Record] /\ \A r \in Records : rr[r].ref = 0 /\ rr[r].empty = TRUE /\ rr[r].val = Other
  BY <1>1, NoRecordType
<1>4. 0 \in 0..MaxRecords /\ 0 \notin Records
  BY MapsAssumption DEF Records
<1>5. ii \in [Iters -> Iter] /\ \A it \in Iters : ii[it].cur = 0
  <2>1. NoIter \in Iter /\ NoIter.cur = 0
    BY <1>4 DEF Iter, NoIter, IterAtNone
  <2>. QED  BY <1>2, <2>1
<1>6. map = [list |-> {}, rec |-> rr, hash |-> {}, count |-> 0, threshold |-> Threshold, made |-> 0, clearing |-> 0,
             iter |-> ii, each |-> <<>>, held |-> TRUE, freed |-> FALSE, used |-> FALSE]
  BY <1>1, <1>2 DEF MapsInit, Records
<1>7. /\ map.list = {} /\ map.rec = rr /\ map.hash = {} /\ map.count = 0 /\ map.made = 0 /\ map.clearing = 0
      /\ map.iter = ii /\ map.each = <<>> /\ map.held = TRUE /\ map.freed = FALSE /\ map.used = FALSE
      /\ map.threshold = Threshold
  BY <1>6
<1>8. map \in MapState
  <2>1. <<>> \in Seq(Call) /\ Threshold \in Int
    BY MapsAssumption
  <2>. QED  BY <1>3, <1>4, <1>5, <1>6, <2>1 DEF MapState
<1>9. entries = {} /\ LiveIn(entries) = {} /\ seen.came = seen.due
  BY DEF MapsInit, LiveIn
<1>10. Body(map, entries)
  <2>1. map.count = Cardinality(LiveIn(entries))
    BY <1>7, <1>9, FS_EmptySet
  <2>2. Len(map.each) <= MaxForEach
    BY <1>7, MapsAssumption
  <2>. QED  BY <1>3, <1>5, <1>7, <1>8, <1>9, <2>1, <2>2 DEF Body
<1>11. Refs(map, entries, 0, 0)
  <2> SUFFICES ASSUME NEW r \in Records
      PROVE map.rec[r].ref = Cardinality(ItersAt(map, r)) + Cardinality(CallsAt(map, r)) + One(r \in LiveIn(entries))
                               + One(r = 0) - One(r = 0)
    BY DEF Refs
  <2>1. ItersAt(map, r) = {} /\ CallsAt(map, r) = {}
    BY <1>4, <1>5, <1>7 DEF ItersAt, CallsAt
  <2>2. Cardinality(ItersAt(map, r)) = 0 /\ Cardinality(CallsAt(map, r)) = 0
    BY <2>1, FS_EmptySet
  <2>3. map.rec[r].ref = 0 /\ r \notin LiveIn(entries) /\ r # 0 /\ r \in Nat
    BY <1>3, <1>4, <1>7, <1>9, MapsAssumption DEF Records
  <2>. QED  BY ONLY <2>2, <2>3 DEF One
<1>12. Table(map, entries)
  BY <1>7, <1>9 DEF Table
<1>. QED  BY <1>9, <1>10, <1>11, <1>12 DEF MapInv, GoodMap

LEMMA NextMapInv ==
  ASSUME IterValues = FALSE, MapInv, [MapsNext]_mapVars
  PROVE  MapInv'
<1>1. CASE UNCHANGED mapVars
  BY <1>1 DEF mapVars, MapInv, GoodMap, Body, Refs, Table, Gone, LiveIn, ItersAt, CallsAt
<1>2. ASSUME NEW key \in MapKeys, NEW val \in {Other} \cup (IF IterValues THEN Iters ELSE {}), js_map_set(key, val)
      PROVE  MapInv'
  BY <1>2, SetKeeps
<1>3. ASSUME NEW key \in MapKeys, js_map_delete(key) PROVE MapInv'
  BY <1>3, DeleteKeeps
<1>4. CASE js_map_clear
  BY <1>4, ClearKeeps
<1>5. CASE ClearRecord
  BY <1>5, ClearRecordKeeps
<1>6. ASSUME NEW it \in Iters, js_create_map_iterator(it) PROVE MapInv'
  BY <1>6, CreateKeeps
<1>7. ASSUME NEW it \in Iters, js_map_iterator_next(it) PROVE MapInv'
  BY <1>7, IteratorNextKeeps
<1>8. ASSUME NEW it \in Iters, DropIterator(it) PROVE MapInv'
  BY <1>8, DropIteratorKeeps
<1>9. CASE DropMap
  BY <1>9, DropMapKeeps
<1>10. CASE js_map_forEach
  BY <1>10, ForEachKeeps
<1>11. ASSUME NEW ret \in {Other} \cup (IF IterValues THEN Iters ELSE {}), CallbackReturns(ret) PROVE MapInv'
  BY <1>11, CallbackReturnsKeeps
<1>12. CASE CallbackThrows
  BY <1>12, CallbackThrowsKeeps
<1>. QED  BY <1>1, <1>2, <1>3, <1>4, <1>5, <1>6, <1>7, <1>8, <1>9, <1>10, <1>11, <1>12 DEF MapsNext

LEMMA ExactRefs ==
  ASSUME NEW s \in MapState, NEW E, Refs(s, E, 0, 0), NEW r \in Records
  PROVE  s.rec[r].ref = Cardinality(ItersAt(s, r)) + Cardinality(CallsAt(s, r)) + (IF r \in LiveIn(E) THEN 1 ELSE 0)
<1>1. s.rec[r].ref = Cardinality(ItersAt(s, r)) + Cardinality(CallsAt(s, r)) + One(r \in LiveIn(E))
                       + One(r = 0) - One(r = 0)
  BY DEF Refs
<1>2. Cardinality(ItersAt(s, r)) \in Nat /\ Cardinality(CallsAt(s, r)) \in Nat
  BY ItersAtFinite, CallsAtFinite DEF MapState
<1>3. r \in Nat /\ r # 0
  BY MapsAssumption DEF Records
<1>. QED  BY ONLY <1>1, <1>2, <1>3 DEF One

LEMMA MapInvExact == MapInv => MapExact
<1> SUFFICES ASSUME MapInv PROVE MapExact
  OBVIOUS
<1>1. CurrentLocked /\ seen.came = seen.due
  BY DEF MapInv, GoodMap, Body, Gone, CurrentLocked
<1>2. ASSUME ~ map.freed
      PROVE  /\ map.count = Cardinality(LiveIn(entries))
             /\ \A r \in 1..MaxRecords :
                   map.rec[r].ref = Cardinality(ItersAt(map, r)) + Cardinality(CallsAt(map, r))
                                      + (IF r \in LiveIn(entries) THEN 1 ELSE 0)
  <2>1. GoodMap(map, entries)
    BY <1>2 DEF MapInv, Gone
  <2>2. map.count = Cardinality(LiveIn(entries)) /\ map \in MapState /\ Refs(map, entries, 0, 0)
    BY <2>1 DEF GoodMap, Body
  <2>. QED  BY <2>2, ExactRefs DEF Records
<1>3. ASSUME ~ map.freed, map.clearing = 0
      PROVE  map.hash = LiveIn(entries) /\ \A e \in entries : map_find_record(map, e.key) = {e.r}
  <2>1. GoodMap(map, entries)
    BY <1>3 DEF MapInv, Gone
  <2>2. map.hash = LiveIn(entries) /\ Body(map, entries)
    BY <1>3, <2>1 DEF GoodMap, Table
  <2>3. ASSUME NEW e \in entries PROVE map_find_record(map, e.key) = {e.r}
    <3>1. e.r \in map.hash /\ ~ map.rec[e.r].empty /\ map.rec[e.r].key = e.key
      BY <2>2, LiveRecords DEF Body
    <3>2. ASSUME NEW q \in map.hash, map.rec[q].key = e.key PROVE q = e.r
      <4>1. PICK d \in entries : d.r = q
        BY <2>2 DEF LiveIn
      <4>2. d.key = e.key
        BY <2>2, <3>2, <4>1 DEF Body
      <4>. QED  BY <2>2, <4>1, <4>2 DEF Body
    <3>. QED  BY <3>1, <3>2 DEF map_find_record
  <2>. QED  BY <2>2, <2>3
<1>4. ASSUME map.freed PROVE \A it \in Iters : map.iter[it].cur = 0
  BY <1>4 DEF MapInv, GoodMap, Body, Gone
<1>. QED  BY <1>1, <1>2, <1>3, <1>4 DEF MapExact

\* A map stays exact, whatever scripts do to it while iterators and callbacks of
\* forEach are under way, as long as no iterator of the map is one of its values or
\* the result of a callback (for those, see CurrentLocked).
THEOREM MapsExact ==
  ASSUME IterValues = FALSE
  PROVE  MapsSpec => []MapExact
<1>1. MapsInit => MapInv
  BY InitMapInv
<1>2. MapInv /\ [MapsNext]_mapVars => MapInv'
  BY NextMapInv
<1>3. MapInv => MapExact
  BY MapInvExact
<1>. QED  BY <1>1, <1>2, <1>3, PTL DEF MapsSpec

=============================================================================
