------------------------------- MODULE Shapes -------------------------------
(***************************************************************************)
(* The own properties of objects and the shapes that objects share         *)
(* (quickjs.c).  A shape holds the names and flags of properties, in       *)
(* order, with a hash table of its own; an object holds the values.  A     *)
(* hashed shape may belong to many objects, and a new object finds it in   *)
(* the table of the runtime; a shape that is not hashed belongs to one.    *)
(*                                                                         *)
(* Shapes are known by their addresses, atoms and objects by numbers, and  *)
(* 0 is JS_ATOM_NULL, no prototype, and the end of a chain.  The record sp *)
(* holds                                                                   *)
(*   shapes       JSShape of every address in use, field by field; a       *)
(*                property is [atom, flags, next]                          *)
(*   table, bits  rt->shape_hash, the chains of hashed shapes, and its size*)
(*   owner        for each object its shape and its array of values; the   *)
(*                value of a property is its atom, 0 stands for others     *)
(*   atoms, protos   the references that shapes own                        *)
(*   bad          assertions that failed and accesses out of bounds        *)
(* The order of operations is that of the code where a step may move or    *)
(* free what a later one uses.  Objects are ordinary and extensible and    *)
(* have data properties; failures of malloc are left out.                  *)
(***************************************************************************)
EXTENDS Integers, SequencesExt, FiniteSetsExt

CONSTANTS
    MaxObject,      \* objects are 1 .. MaxObject
    MaxAtom,        \* names of properties are 1 .. MaxAtom
    PropFlags,      \* flags that scripts give to properties: 1 is JS_PROP_CONFIGURABLE,
                    \* 4 JS_PROP_ENUMERABLE; all properties are writable, which is left out
    InitialSize,    \* JS_PROP_INITIAL_SIZE, and
    InitialHash,    \* JS_PROP_INITIAL_HASH_SIZE
    DeleteLimit,    \* how many deleted properties a shape may keep (8 in the code)
    HashBits,       \* the width of a hash value (32 in the code)
    MaxChanges      \* bound: deletions, changes of flags and prototypes, objects that are freed

VARIABLES
    sp,
    own,            \* what scripts know: prototype, names and flags, in order (history)
    changes         \* changes so far

shapesVars == <<sp, own, changes>>

Atoms == 1 .. MaxAtom
JsObjects == 1 .. MaxObject

Complain(s, what) == [s EXCEPT !.bad = @ \cup {what}]
Require(s, P, what) == IF P THEN s ELSE Complain(s, what)

ShapeOf(s, o) == s.shapes[s.owner[o].shape]
NewAddress(s) == Min((1 .. MaxObject + 2) \ DOMAIN s.shapes)
Put(s, id, sh) == [s EXCEPT !.shapes = [i \in DOMAIN @ \cup {id} |-> IF i = id THEN sh ELSE @[i]]]
Discard(s, id) == [s EXCEPT !.shapes = [i \in DOMAIN @ \ {id} |-> @[i]]]
CountAtoms(s, props, d) ==
    [s EXCEPT !.atoms = [a \in Atoms |-> @[a] + d * Cardinality({i \in DOMAIN props : props[i].atom = a})]]
CountProto(s, p, d) == IF p = 0 THEN s ELSE [s EXCEPT !.protos[p] = @ + d]

-----------------------------------------------------------------------------
(* The table of hashed shapes.                                             *)

shape_hash(v, x) == ((v + x) * 3) % 2^HashBits
shape_initial_hash(proto) == shape_hash(shape_hash(1, proto), 0)
get_shape_hash(v, bits) == v \div 2^(HashBits - bits)

js_shape_hash_link(s, id) ==
    [s EXCEPT !.table[get_shape_hash(s.shapes[id].hash, s.bits)] = <<id>> \o @]

js_shape_hash_unlink(s, id) ==
    LET b == get_shape_hash(s.shapes[id].hash, s.bits)
    IN  Require([s EXCEPT !.table[b] = Remove(@, id)], Contains(s.table[b], id), "unlink")

Chains(s) == FlattenSeq([b \in 1 .. 2^s.bits |-> s.table[b - 1]])

resize_shape_hash(s, bits) ==
    LET Move(t, id) == [t EXCEPT ![get_shape_hash(s.shapes[id].hash, bits)] = <<id>> \o @]
    IN  [s EXCEPT !.bits = bits,
                  !.table = FoldLeft(Move, [b \in 0 .. 2^bits - 1 |-> <<>>], Chains(s))]

\* The first shape of a chain with this hash value that is as required, 0 if none.
FindHashed(s, v, Test(_)) ==
    LET chain == s.table[get_shape_hash(v, s.bits)]
        i == SelectInSeq(chain, LAMBDA id : s.shapes[id].hash = v /\ Test(s.shapes[id]))
    IN  IF i = 0 THEN 0 ELSE chain[i]

NameFlags(props) == [i \in DOMAIN props |-> <<props[i].atom, props[i].flags>>]

find_hashed_shape_proto(s, proto) ==
    FindHashed(s, shape_initial_hash(proto), LAMBDA sh : sh.proto = proto /\ sh.props = <<>>)

find_hashed_shape_prop(s, sh, a, f) ==
    FindHashed(s, shape_hash(shape_hash(sh.hash, a), f),
               LAMBDA t : t.proto = sh.proto /\ NameFlags(t.props) = NameFlags(sh.props) \o << <<a, f>> >>)

-----------------------------------------------------------------------------
(* Shapes.                                                                 *)

js_new_shape(s, proto) ==
    LET a == IF 2 * (Len(Chains(s)) + 1) > 2^s.bits THEN resize_shape_hash(s, s.bits + 1) ELSE s
        sh == [ref |-> 1, hashed |-> TRUE, proto |-> proto, hash |-> shape_initial_hash(proto),
               props |-> <<>>, size |-> InitialSize, deleted |-> 0,
               heads |-> [b \in 0 .. InitialHash - 1 |-> 0]]
    IN  js_shape_hash_link(CountProto(Put(a, NewAddress(a), sh), proto, 1), NewAddress(a))

\* The clone is at NewAddress(s).
js_clone_shape(s, id) ==
    LET sh == s.shapes[id]
    IN  CountAtoms(CountProto(Put(s, NewAddress(s), [sh EXCEPT !.ref = 1, !.hashed = FALSE]), sh.proto, 1),
                   sh.props, 1)

js_free_shape0(s, id) ==
    LET sh == s.shapes[id]
        a == IF sh.hashed THEN js_shape_hash_unlink(s, id) ELSE s
    IN  Discard(CountAtoms(CountProto(a, sh.proto, -1), sh.props, -1), id)

js_free_shape(s, id) ==
    LET a == [s EXCEPT !.shapes[id].ref = @ - 1]
    IN  IF a.shapes[id].ref <= 0 THEN js_free_shape0(a, id) ELSE a

\* The shape of o becomes id, which o owns already.
Adopt(s, o, id) == [js_free_shape(s, s.owner[o].shape) EXCEPT !.owner[o].shape = id]

\* The properties with new chains, for a hash table of that size.
Rehash(sh, size) ==
    LET Link(t, i) ==
          IF t.props[i].atom = 0 THEN t
          ELSE LET b == t.props[i].atom % size
               IN  [t EXCEPT !.props[i].next = t.heads[b], !.heads[b] = i]
    IN  FoldLeftDomain(Link, [sh EXCEPT !.heads = [b \in 0 .. size - 1 |-> 0]], sh.props)

HashSize(sh) == Cardinality(DOMAIN sh.heads)

\* The array of values gets another length.
Realloc(vals, n) == [i \in 1 .. n |-> IF i \in DOMAIN vals THEN vals[i] ELSE 0]

\* A shape that nobody else knows moves to another address.
MoveShape(s, o, sh) ==
    LET id == NewAddress(s)
    IN  Discard([Put(s, id, sh) EXCEPT !.owner[o].shape = id], s.owner[o].shape)

\* Sizes are doubled, or halved, as long as needed.
GrownHash(n, size) == n * Min({2^k : k \in {j \in 0 .. size : n * 2^j >= size}})
ShrunkHash(n, size) == n \div Max({2^k : k \in {j \in 0 .. n : j = 0 \/ n \div 2^j >= size}})

resize_properties(s, o, count) ==
    LET sh == ShapeOf(s, o)
        n == Max({count, (sh.size * 3) \div 2})
        hs == GrownHash(HashSize(sh), n)
        a == [s EXCEPT !.owner[o].vals = Realloc(@, n)]
        grown == [sh EXCEPT !.size = n]
    IN  MoveShape(a, o, IF hs # HashSize(sh) THEN Rehash(grown, hs) ELSE grown)

compact_properties(s, o) ==
    LET sh == ShapeOf(s, o)
        n == Max({InitialSize, Len(sh.props) - sh.deleted})
        Kept == SelectSeq([i \in DOMAIN sh.props |-> i], LAMBDA i : sh.props[i].atom # 0)
        vals == [i \in DOMAIN s.owner[o].vals |->
                   IF i \in DOMAIN Kept THEN s.owner[o].vals[Kept[i]] ELSE s.owner[o].vals[i]]
        t == [sh EXCEPT !.props = [i \in DOMAIN Kept |-> @[Kept[i]]], !.size = n, !.deleted = 0]
        a == Require(s, ~ sh.hashed /\ n <= sh.size, "compact_properties")
    IN  MoveShape([a EXCEPT !.owner[o].vals = Realloc(vals, n)], o,
                  Rehash(t, ShrunkHash(HashSize(sh), n)))

\* The hash value of a shape that is not hashed is never used again.
Unhash(s, id) == [js_shape_hash_unlink(s, id) EXCEPT !.shapes[id].hashed = FALSE, !.shapes[id].hash = 0]

\* A shape that others share is changed in place.
js_shape_prepare_updateShared(s, o) ==
    IF ~ ShapeOf(s, o).hashed THEN s
    ELSE Unhash(s, s.owner[o].shape)

js_shape_prepare_update(s, o) ==
    LET id == s.owner[o].shape
        sh == s.shapes[id]
    IN  IF ~ sh.hashed THEN s
        ELSE IF sh.ref # 1 THEN Adopt(js_clone_shape(s, id), o, NewAddress(s))
        ELSE Unhash(s, id)

-----------------------------------------------------------------------------
(* Properties.                                                             *)

add_shape_property(s, o, a, f) ==
    LET sh == ShapeOf(s, o)
        unlinked == IF sh.hashed THEN js_shape_hash_unlink(s, s.owner[o].shape) ELSE s
        roomy == IF Len(sh.props) >= sh.size THEN resize_properties(unlinked, o, Len(sh.props) + 1)
                 ELSE unlinked
        id == roomy.owner[o].shape
        linked == IF ~ sh.hashed THEN roomy
                  ELSE js_shape_hash_link([roomy EXCEPT !.shapes[id].hash =
                                             shape_hash(shape_hash(sh.hash, a), f)], id)
        b == a % HashSize(linked.shapes[id])
    IN  [linked EXCEPT
           !.shapes[id].props = Append(@, [atom |-> a, flags |-> f, next |-> linked.shapes[id].heads[b]]),
           !.shapes[id].heads[b] = Len(sh.props) + 1,
           !.atoms[a] = @ + 1]

\* The new property is the last one of the shape.
add_property(s, o, a, f) ==
    LET sh == ShapeOf(s, o)
        found == find_hashed_shape_prop(s, sh, a, f)
        cloned == LET c == js_clone_shape(s, s.owner[o].shape)
                      id == NewAddress(s)
                  IN  Adopt(js_shape_hash_link([c EXCEPT !.shapes[id].hashed = TRUE], id), o, id)
        mine == IF sh.hashed /\ sh.ref # 1 THEN cloned ELSE s
    IN  IF sh.hashed /\ found # 0
        THEN LET roomy == [s EXCEPT !.owner[o].vals = Realloc(@, s.shapes[found].size),
                                    !.shapes[found].ref = @ + 1]
             IN  Adopt(roomy, o, found)
        ELSE add_shape_property(Require(mine, ShapeOf(mine, o).ref = 1, "add_property"), o, a, f)

\* The places of a chain, from place i on.
RECURSIVE ChainFrom(_, _)
ChainFrom(sh, i) == IF i = 0 THEN <<>> ELSE <<i>> \o ChainFrom(sh, sh.props[i].next)
Chain(sh, a) == ChainFrom(sh, sh.heads[a % HashSize(sh)])

\* The place of a property, 0 if there is none.
find_own_property(sh, a) ==
    LET c == Chain(sh, a)
        i == SelectInSeq(c, LAMBDA k : sh.props[k].atom = a)
    IN  IF i = 0 THEN 0 ELSE c[i]

\* The property at place i is taken out of its chain.
Unchain(sh, a, i) ==
    LET c == Chain(sh, a)
        k == SelectInSeq(c, LAMBDA j : j = i)
    IN  IF k = 1 THEN [sh EXCEPT !.heads[a % HashSize(sh)] = sh.props[i].next]
        ELSE [sh EXCEPT !.props[c[k - 1]].next = sh.props[i].next]

delete_property(s, o, a) ==
    LET i == find_own_property(ShapeOf(s, o), a)
        b == js_shape_prepare_update(s, o)
        id == b.owner[o].shape
        sh == [Unchain(b.shapes[id], a, i) EXCEPT !.deleted = @ + 1, !.props[i].atom = 0, !.props[i].flags = 0]
        c == [b EXCEPT !.shapes[id] = sh, !.owner[o].vals[i] = 0, !.atoms[a] = @ - 1]
    IN  IF i = 0 \/ ShapeOf(s, o).props[i].flags % 2 = 0 THEN s
        ELSE IF sh.deleted >= DeleteLimit /\ sh.deleted >= Len(sh.props) \div 2 THEN compact_properties(c, o)
        ELSE c

\* pr->u.value = val, at place i.
SetValue(s, o, i, v) ==
    IF i \in DOMAIN s.owner[o].vals THEN [s EXCEPT !.owner[o].vals[i] = v]
    ELSE Complain(s, "a value is out of bounds")

check_define_prop_flags(old, f) == old % 2 = 1 \/ (f % 2 = 0 /\ f \div 4 = old \div 4)

js_update_property_flags(s, o, i, f) ==
    IF ShapeOf(s, o).props[i].flags = f THEN s
    ELSE LET a == js_shape_prepare_update(s, o)
         IN  [a EXCEPT !.shapes[a.owner[o].shape].props[i].flags = f]

\* The descriptor has a value and all flags.
JS_DefineProperty(s, o, a, f) ==
    LET i == find_own_property(ShapeOf(s, o), a)
        created == add_property(s, o, a, f)
    IN  IF i = 0 THEN SetValue(created, o, Len(ShapeOf(created, o).props), a)
        ELSE IF check_define_prop_flags(ShapeOf(s, o).props[i].flags, f)
        THEN js_update_property_flags(SetValue(s, o, i, a), o, i, f)
        ELSE s

JS_NewObjectProtoClass(s, o, proto) ==
    LET found == find_hashed_shape_proto(s, proto)
        a == IF found # 0 THEN [s EXCEPT !.shapes[found].ref = @ + 1] ELSE js_new_shape(s, proto)
        id == IF found # 0 THEN found ELSE NewAddress(s)
    IN  [a EXCEPT !.owner = [x \in DOMAIN @ \cup {o} |->
           IF x = o THEN [shape |-> id, vals |-> Realloc(<<>>, a.shapes[id].size)] ELSE @[x]]]

\* The prototypes of an object, from p on.
RECURSIVE ProtoChain(_, _)
ProtoChain(s, p) == IF p = 0 THEN {} ELSE {p} \cup ProtoChain(s, ShapeOf(s, p).proto)

JS_SetPrototypeInternal(s, o, proto) ==
    LET a == js_shape_prepare_update(CountProto(s, proto, 1), o)
        id == a.owner[o].shape
    IN  IF ShapeOf(s, o).proto = proto \/ o \in ProtoChain(s, proto) THEN s
        ELSE [CountProto(a, a.shapes[id].proto, -1) EXCEPT !.shapes[id].proto = proto]

\* free_object, as far as properties and shape go.
FreeProperties(s, o) ==
    LET a == js_free_shape(s, s.owner[o].shape)
    IN  [a EXCEPT !.owner = [x \in DOMAIN @ \ {o} |-> @[x]]]

-----------------------------------------------------------------------------
(* What scripts do.                                                        *)

ShapesInit ==
    /\ sp = [shapes |-> <<>>, table |-> [b \in {0} |-> <<>>], bits |-> 0, owner |-> <<>>,
             atoms |-> [a \in Atoms |-> 0], protos |-> [o \in JsObjects |-> 0], bad |-> {}]
    /\ own = <<>> /\ changes = 0

Alive == DOMAIN sp.owner

CreateObject(o, proto) ==
    /\ o \notin Alive /\ proto \in Alive \cup {0}
    /\ sp' = JS_NewObjectProtoClass(sp, o, proto)
    /\ own' = [x \in DOMAIN own \cup {o} |-> IF x = o THEN [proto |-> proto, props |-> <<>>] ELSE own[x]]
    /\ UNCHANGED changes

Change == changes < MaxChanges /\ changes' = changes + 1

\* Where a script finds the name, 0 if nowhere.
Known(o, a) == SelectInSeq(own[o].props, LAMBDA p : p[1] = a)

DefineOwn(o, a, f) ==
    LET i == Known(o, a)
    IN  /\ o \in Alive
        /\ IF i = 0 THEN UNCHANGED changes ELSE Change
        /\ sp' = JS_DefineProperty(sp, o, a, f)
        /\ own' = IF i = 0 THEN [own EXCEPT ![o].props = Append(@, <<a, f>>)]
                  ELSE IF own[o].props[i][2] % 2 = 0 THEN own
                  ELSE [own EXCEPT ![o].props[i] = <<a, f>>]

DeleteOwn(o, a) ==
    /\ Change
    /\ o \in Alive
    /\ sp' = delete_property(sp, o, a)
    /\ own' = [own EXCEPT ![o].props = SelectSeq(@, LAMBDA p : p[1] # a \/ p[2] % 2 = 0)]

RECURSIVE Ancestors(_)
Ancestors(o) == IF o = 0 THEN {} ELSE {o} \cup Ancestors(own[o].proto)

SetProto(o, proto) ==
    /\ Change
    /\ o \in Alive /\ proto \in Alive \cup {0}
    /\ sp' = JS_SetPrototypeInternal(sp, o, proto)
    /\ own' = IF o \in Ancestors(proto) THEN own ELSE [own EXCEPT ![o].proto = proto]

\* The last reference goes.  Scripts keep the objects that are prototypes.
FreeObject(o) ==
    /\ Change
    /\ o \in Alive /\ sp.protos[o] = 0
    /\ sp' = FreeProperties(sp, o)
    /\ own' = [x \in DOMAIN own \ {o} |-> own[x]]

ShapesNext ==
    \E o \in JsObjects :
        \/ \E proto \in JsObjects \cup {0} : CreateObject(o, proto) \/ SetProto(o, proto)
        \/ \E a \in Atoms : DeleteOwn(o, a) \/ \E f \in PropFlags : DefineOwn(o, a, f)
        \/ FreeObject(o)

-----------------------------------------------------------------------------
ShapesTypeOK ==
    /\ Alive \subseteq JsObjects /\ DOMAIN own = Alive
    /\ DOMAIN sp.atoms = Atoms /\ DOMAIN sp.protos = JsObjects
    /\ DOMAIN sp.table = 0 .. 2^sp.bits - 1 /\ sp.bits \in 0 .. HashBits

\* The properties of an object are those that scripts gave it.
OwnExact(o) ==
    LET sh == ShapeOf(sp, o)
        named == SelectSeq(NameFlags(sh.props), LAMBDA p : p[1] # 0)
    IN  /\ named = own[o].props /\ sh.proto = own[o].proto
        /\ Len(sp.owner[o].vals) = sh.size /\ Len(sh.props) <= sh.size
        /\ \A a \in Atoms :
             LET i == find_own_property(sh, a)
             IN  IF Known(o, a) = 0 THEN i = 0
                 ELSE i # 0 /\ NameFlags(sh.props)[i] = own[o].props[Known(o, a)]
                        /\ sp.owner[o].vals[i] = a

\* A shape has the references that objects hold and is where the table says.
ShapeExact(id) ==
    LET sh == sp.shapes[id]
        places == {b \in DOMAIN sp.table : Contains(sp.table[b], id)}
    IN  /\ sh.ref = Cardinality({o \in Alive : sp.owner[o].shape = id})
        /\ ~ sh.hashed => sh.ref = 1 /\ places = {}
        /\ sh.hashed => places = {get_shape_hash(sh.hash, sp.bits)} /\ sh.deleted = 0
        /\ \A other \in DOMAIN sp.shapes \ {id} :
             sh.hashed /\ sp.shapes[other].hashed =>
               sp.shapes[other].proto # sh.proto \/ NameFlags(sp.shapes[other].props) # NameFlags(sh.props)

(***************************************************************************)
(* However objects are made, extended, changed and freed, and whatever     *)
(* shapes they share meanwhile: each has the properties and the prototype  *)
(* that scripts gave it, in order, finds each by its name and its value at *)
(* the place of the name, no access is out of bounds, no two hashed shapes *)
(* are alike, only hashed shapes are shared, and the references of shapes, *)
(* atoms and prototypes are counted exactly (add_property,                 *)
(* delete_property, js_shape_prepare_update).                              *)
(***************************************************************************)
PropertiesExact ==
    /\ sp.bad = {}
    /\ \A o \in Alive : OwnExact(o)
    /\ \A id \in DOMAIN sp.shapes : ShapeExact(id)
    /\ ToSet(Chains(sp)) \subseteq DOMAIN sp.shapes
    /\ \A a \in Atoms : sp.atoms[a] = Cardinality({<<id, i>> \in (DOMAIN sp.shapes) \X (1 .. MaxAtom + MaxChanges) :
                                        i \in DOMAIN sp.shapes[id].props /\ sp.shapes[id].props[i].atom = a})
    /\ \A o \in JsObjects : sp.protos[o] = Cardinality({id \in DOMAIN sp.shapes : sp.shapes[id].proto = o})
=============================================================================
