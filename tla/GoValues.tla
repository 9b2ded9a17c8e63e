------------------------------ MODULE GoValues ------------------------------
(***************************************************************************)
(* Go values in the hands of scripts: makeJsValue and fromJsValue for      *)
(* numbers and arrays, and the exotic methods goObjGet and goObjSet of     *)
(* Go objects (go-proxy-value.go, value.go).                               *)
(*                                                                         *)
(* A Go value is a record with a kind k.  Slices, maps and pointers to     *)
(* structs refer to an address of mem; arrays and structs hold their       *)
(* content themselves, and are copied with it.  A JavaScript value is a    *)
(* record with a tag t.  A Go object is a copy of a Go value in an         *)
(* interface variable of its own (makeGoObject registers &v): copies of    *)
(* references share their content, copies of arrays and structs do not.    *)
(*                                                                         *)
(* The widths are parameters: 32 bits for JS_TAG_INT and for lengths, 53   *)
(* for the mantissa of a double, 64 for int64.  All slots have the type    *)
(* interface{}, for which elutils.SetValue (external) stores the value as  *)
(* it is; it cannot store into a slot that is not addressable.             *)
(***************************************************************************)
EXTENDS Integers, Sequences, TLC

CONSTANTS
    IntBits, MantBits, LongBits,
    Numbers,    \* Go numbers that the host has
    JsNumbers,  \* numbers, and
    Lengths,    \* lengths of arrays that scripts make
    Vars,       \* variables of a script for Go objects
    MaxWrites   \* bound: successful writes

ASSUME WidthAssumption == IntBits < MantBits /\ MantBits < LongBits

VARIABLES
    mem,    \* the content of slices, maps and structs behind pointers
    objs,   \* objs[x]: the Go value of the Go object in variable x
    got,    \* the last read, until a write: the Go value and what became of it
    wrote,  \* the last write, until something else is written
    writes,
    panicked

objectsVars == <<mem, objs, got, wrote, writes, panicked>>

-----------------------------------------------------------------------------
(* Numbers.                                                                *)

Signed(n, bits) == ((n + 2^(bits - 1)) % 2^bits) - 2^(bits - 1)

Abs(n) == IF n < 0 THEN -n ELSE n

\* The nearest number with a mantissa of MantBits bits, to even if two are near.
ToDouble(n) ==
    LET e == CHOOSE i \in 0..LongBits : /\ Abs(n) < 2^(MantBits + i)
                                        /\ i > 0 => Abs(n) >= 2^(MantBits + i - 1)
        u == 2^e
        q == Abs(n) \div u
        r == Abs(n) % u
        up == 2 * r > u \/ (2 * r = u /\ q % 2 = 1)
        d == (IF up THEN q + 1 ELSE q) * u
    IN  IF n < 0 THEN -d ELSE d

JS_NewInt32(n) == [t |-> "int", n |-> Signed(n, IntBits)]

JS_NewInt64(n) == IF n = Signed(n, IntBits) THEN JS_NewInt32(n) ELSE [t |-> "float", n |-> ToDouble(n)]

JS_NewFloat64(n) == IF n = Signed(n, IntBits) THEN JS_NewInt32(n) ELSE [t |-> "float", n |-> n]

Undefined == [t |-> "undefined"]
Panics == [t |-> "panic"]

\* The kinds of reflect: int32 stands for the narrower ones, uint16 for uint8,
\* uint for uint32 too.  A wrong conversion treats uint64 like uint.
makeJsValueUint(v) ==
    CASE v.k \in {"int32", "uint16"} -> JS_NewInt32(v.n)
      [] v.k = "int" -> JS_NewInt64(v.n)
      [] v.k \in {"uint", "uint64"} -> JS_NewInt64(Signed(v.n, LongBits))
      [] v.k = "float" -> JS_NewFloat64(v.n)
      [] v.k \in {"nilptr", "named"} -> Panics
      [] OTHER -> [t |-> "goobj", v |-> v]

\* A nil pointer, and a named type whose kind is bool or string, panic.
makeJsValue(v) ==
    CASE v.k \in {"int32", "uint16"} -> JS_NewInt32(v.n)
      [] v.k = "int" -> JS_NewInt64(v.n)
      [] v.k = "uint" -> JS_NewInt64(Signed(v.n, LongBits))
      [] v.k = "uint64" -> IF v.n < 2^(LongBits - 1) THEN JS_NewInt64(v.n) ELSE JS_NewFloat64(ToDouble(v.n))
      [] v.k = "float" -> JS_NewFloat64(v.n)
      [] v.k \in {"nilptr", "named"} -> Panics
      [] OTHER -> [t |-> "goobj", v |-> v]

\* The length of an array is read with JS_ToInt32; make panics if it is negative.
fromJsLength(len) ==
    LET l == Signed(len, IntBits)
    IN  IF l < 0 THEN [k |-> "panic"] ELSE [k |-> "list", len |-> l]

\* A Go object has no own properties: it comes back as a map that is nil.
fromJs(x) ==
    CASE x.t = "int" -> [k |-> "int", n |-> x.n]
      [] x.t = "float" -> [k |-> "float", n |-> x.n]
      [] x.t = "array" -> fromJsLength(x.len)
      [] x.t = "goobj" -> [k |-> "nilmap"]

-----------------------------------------------------------------------------
(* Properties of Go objects.  Every slice and array here has one element,  *)
(* every struct a field K and a method M.                                  *)

Keys == {"0", "k", "m", "length", "symbol"}

Content(v) == IF v.k \in {"slice", "map", "intmap", "ptr"} THEN mem[v.at] ELSE v.c

go_arr_get(v, key) ==
    CASE key = "length" -> makeJsValue([k |-> "int", n |-> IF v.k = "list" THEN v.len ELSE 1])
      [] key = "0" /\ v.k # "list" -> makeJsValue(Content(v)["0"])
      [] OTHER -> Undefined

\* A map whose keys are not strings ("intmap"): reflect panics.
go_map_get(v, key) ==
    IF v.k = "intmap" THEN Panics
    ELSE IF v.k = "map" /\ key \in DOMAIN mem[v.at] THEN makeJsValue(mem[v.at][key]) ELSE Undefined

go_struct_get(v, key) ==
    CASE key = "k" -> makeJsValue(Content(v)["k"])
      [] key = "m" -> [t |-> "func"]
      [] OTHER -> Undefined

\* getKeyName gives no name for a symbol.
goObjGet(v, key) ==
    CASE key = "symbol" -> Undefined
      [] key # "symbol" /\ v.k \in {"slice", "array", "list"} -> go_arr_get(v, key)
      [] key # "symbol" /\ v.k \in {"map", "intmap", "nilmap"} -> go_map_get(v, key)
      [] key # "symbol" /\ v.k \in {"struct", "ptr"} -> go_struct_get(v, key)

\* What a write does: "set" at an address, "ignored", or "panic".
Outcome(v, key, gv) ==
    CASE gv.k = "panic" -> {"panic"}
      [] gv.k # "panic" /\ v.k = "nilmap" -> {"panic"}
      [] gv.k # "panic" /\ v.k \in {"slice", "map", "ptr"} -> {"set"}
      [] OTHER -> {"ignored", "panic"}

\* The conversion comes first for maps and structs; an index that is no
\* element, and a key that is a symbol, end the call before it.
go_set(v, key, x) ==
    CASE key = "symbol" -> {"ignored"}
      [] key # "symbol" /\ v.k \in {"slice", "array"} ->
             IF key = "0" THEN Outcome(v, key, fromJs(x)) ELSE {"ignored"}
      [] key # "symbol" /\ v.k = "list" -> {"ignored"}
      [] key # "symbol" /\ v.k \in {"map", "intmap", "nilmap"} -> Outcome(v, key, fromJs(x))
      [] key # "symbol" /\ v.k \in {"struct", "ptr"} ->
             IF key = "k" \/ fromJs(x).k = "panic" THEN Outcome(v, key, fromJs(x)) ELSE {"ignored"}

-----------------------------------------------------------------------------
(* Steps.                                                                  *)

Nil == [k |-> "nil"]
NoRead == [go |-> Nil, js |-> Undefined]
NoWrite == [x |-> Nil]

Slot(kind) == CASE kind \in {"slice", "array"} -> "0" [] kind = "intmap" -> "1" [] OTHER -> "k"
Refs == {"slice", "map", "intmap", "ptr"}
Kinds == Refs \cup {"array", "struct"}
Container(kind, at, inner) ==
    IF kind \in Refs THEN [k |-> kind, at |-> at]
    ELSE [k |-> kind, c |-> [s \in {Slot(kind)} |-> inner]]

\* The host passes a container that holds a number or a container, of any
\* kind, to a script, which keeps it in a variable.
ObjectsInit ==
    \E outer \in Kinds, inner \in Kinds \cup {"nilptr", "named", "number"}, num \in Numbers :
      LET in == CASE inner \in Kinds -> Container(inner, 2, num)
                  [] inner = "number" -> num
                  [] OTHER -> [k |-> inner]
          content(kind, val) == [s \in {Slot(kind)} |-> val]
      IN  /\ mem = [at \in {i \in 1..2 : <<outer, inner>>[i] \in Refs} |->
                       IF at = 1 THEN content(outer, in) ELSE content(inner, num)]
          /\ objs = [x \in Vars |-> Container(outer, 1, in)]
          /\ got = NoRead /\ wrote = NoWrite /\ writes = 0 /\ panicked = FALSE

\* x.key, kept in a variable if it is a Go object.
Get(x, key, y) ==
    /\ ~panicked
    /\ LET v == objs[x]
           js == goObjGet(v, key)
           slot == IF v.k \in Kinds /\ key \in DOMAIN Content(v) THEN Content(v)[key] ELSE Nil
       IN  /\ got' = [go |-> slot, js |-> js]
           /\ panicked' = (js = Panics)
           /\ objs' = IF js.t = "goobj" THEN [objs EXCEPT ![y] = js.v] ELSE objs
           /\ wrote' = IF js.t = "goobj" /\ wrote # NoWrite /\ wrote.var = y THEN NoWrite ELSE wrote
    /\ UNCHANGED <<mem, writes>>

\* x.key = js
goObjSet(x, key, js) ==
    /\ ~panicked /\ writes < MaxWrites
    /\ LET v == objs[x]
       IN  \E out \in go_set(v, key, js) :
             /\ panicked' = (out = "panic")
             /\ IF out = "set"
                THEN /\ mem' = [mem EXCEPT ![v.at] = (key :> fromJs(js)) @@ @]
                     /\ wrote' = [var |-> x, key |-> key, x |-> js]
                     /\ writes' = writes + 1
                ELSE UNCHANGED <<mem, wrote, writes>>
    /\ got' = NoRead /\ UNCHANGED objs

\* The host writes to what it has passed, in a Go function that a script calls.
HostWrites(at, num) ==
    /\ ~panicked /\ writes < MaxWrites
    /\ \E key \in DOMAIN mem[at] : mem' = [mem EXCEPT ![at][key] = num]
    /\ wrote' = NoWrite /\ writes' = writes + 1 /\ got' = NoRead
    /\ UNCHANGED <<objs, panicked>>

\* A write to another key goes the way of one of these three.
ObjectsNext ==
    \/ \E x, y \in Vars, key \in Keys : Get(x, key, y)
    \/ \E x \in Vars, key \in {"0", "k", "symbol"} :
          \/ \E n \in JsNumbers : goObjSet(x, key, JS_NewFloat64(n))
          \/ \E len \in Lengths : goObjSet(x, key, [t |-> "array", len |-> len])
          \/ \E y \in Vars : goObjSet(x, key, [t |-> "goobj", v |-> objs[y]])
    \/ \E at \in DOMAIN mem, num \in Numbers : HostWrites(at, num)

-----------------------------------------------------------------------------
(* Properties.                                                             *)

ObjectsTypeOK ==
    /\ DOMAIN mem \subseteq 1..2 /\ DOMAIN objs = Vars /\ writes \in 0..MaxWrites /\ panicked \in BOOLEAN
    /\ \A x \in Vars : objs[x].k \in Kinds \cup {"list", "nilmap"}

\* Scripts see the numbers of the host as the nearest doubles, but for a Go
\* uint from 2^63 on, which becomes negative.
NumberSeen(v, js) ==
    v.k \in {"int", "int32", "uint16", "uint", "uint64", "float"} =>
        js.n = IF v.k = "uint" /\ v.n >= 2^(LongBits - 1)
               THEN ToDouble(v.n - 2^LongBits) ELSE ToDouble(v.n)

\* What a script has written it reads again: a number is the same number, an
\* array has its length; a Go object has become an empty map.
ReadAgain(js, x) ==
    CASE x.t \in {"int", "float"} -> js = x
      [] x.t = "array" -> js.t = "goobj" /\ goObjGet(js.v, "length").n = x.len
      [] x.t = "goobj" -> js.t = "goobj" /\ \A key \in Keys : goObjGet(js.v, key) = Undefined

(* A value keeps its meaning on its way between Go and a script: numbers   *)
(* are rounded to doubles and no more, and a write that goObjSet reports   *)
(* as done is there when the property is read, through whichever copy of   *)
(* the reference, until something else is written.                         *)
ValuesCarried ==
    /\ ~panicked => NumberSeen(got.go, got.js)
    /\ ~panicked /\ wrote # NoWrite => ReadAgain(goObjGet(objs[wrote.var], wrote.key), wrote.x)
=============================================================================
