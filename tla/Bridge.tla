------------------------------- MODULE Bridge -------------------------------
(***************************************************************************)
(* What a call between Go and JavaScript owns, and what becomes of an      *)
(* exception: eval, GetGlobal, CallFunc and bound functions (context.go,   *)
(* js-func.go), the callbacks of scripts into Go (go-func.go) and the      *)
(* conversion of values that may run getters (value.go).                   *)
(*                                                                         *)
(* A JavaScript value is a tree [k |-> kind, e |-> parts].  A part that is *)
(* an accessor has one of the kinds of Throwing, and its getter throws, or *)
(* the kind "deletes": its getter deletes the properties of the object.    *)
(* An object of kind "proxy" throws when it is asked for its keys; one of  *)
(* kind "revoked" passes for an array (JS_IsArray is not 0) and throws     *)
(* when it is asked for its length; "prim" stands for all primitives.      *)
(* The functions of value.go are operators on a record s:                  *)
(*   refs, atoms, tables   what Go code owns of the engine: references,    *)
(*                         atoms, tables of property names                 *)
(*   pending               rt->current_exception, see Exceptions           *)
(*   origin                where the pending exception was thrown:         *)
(*                         "script" (a getter too), or a call of Go code   *)
(*                         that does not look whether it failed            *)
(*   swallowed, cut        exceptions dropped, objects left half converted *)
(*   deleted, ghosts       properties deleted while their object is being  *)
(*                         converted, names read from atoms without owner  *)
(* and return [s, err, val], val being "nil", "go" or "func".              *)
(***************************************************************************)
EXTENDS Integers, SequencesExt

CONSTANTS
    Values,     \* values that scripts return, pass and keep
    Names,      \* names of globals that an environment sets
    MaxArgs,    \* bound: arguments of a call
    MaxCalls    \* bound: calls and callbacks of one behaviour

VARIABLES
    op,         \* the call of the host that is under way
    s,          \* the record above
    unwinding,  \* whether the script is on its way to a catch clause
    globals,    \* globals[n]: the call whose environment set it, 0 if none did
    locked,     \* globals that scripts made read-only, or gave a setter that throws
    last,       \* how the last call ended
    calls       \* calls so far

bridgeVars == <<op, s, unwinding, globals, locked, last, calls>>

Leaf(kind) == [k |-> kind, e |-> <<>>]
Prim == Leaf("prim")
Exception == Leaf("exception")

\* "error": an Error; "trap": an Error whose stack, name or message cannot be
\* read without another exception; "other": something else; "odd": something
\* else that cannot be converted to a string.
Exceptions == {"none", "error", "trap", "other", "odd"}
Thrown == [throwsError |-> "error", throwsTrap |-> "trap", throwsOther |-> "other", throwsOdd |-> "odd"]
Throwing == DOMAIN Thrown
IsError(x) == x \in {"error", "trap"}

HasRef(v) == v.k \in {"func", "array", "object", "proxy", "revoked", "symbol"}
Ref(v) == IF HasRef(v) THEN 1 ELSE 0

Result(st, err, val) == [s |-> st, err |-> err, val |-> val]

-----------------------------------------------------------------------------
(* The engine, as far as Go code sees it.                                  *)

\* The exception that was pending, if any, is freed.
JS_Throw(st, x, origin) == [st EXCEPT !.pending = x, !.origin = origin]

\* The pending exception passes to the caller; it cannot be asked for twice.
JS_GetException(st) == [st EXCEPT !.pending = "none", !.origin = "none",
                                  !.refs = @ + IF st.pending = "none" THEN 0 ELSE 1]

FreeRefOf(st, v) == [st EXCEPT !.refs = @ - Ref(v)]

\* JS_GetProperty and JS_GetPropertyUint32: the value of a part, and the state.
GetPart(st, p) ==
    IF p.k \in Throwing THEN [s |-> JS_Throw(st, Thrown[p.k], "script"), v |-> Exception]
    ELSE IF p.k = "deletes" THEN [s |-> st, v |-> Prim]
    ELSE [s |-> [st EXCEPT !.refs = @ + Ref(p)], v |-> p]

\* Reading the texts of an exception x may throw; nobody looks.
Described(st, x) ==
    CASE x = "trap" -> JS_Throw(st, "error", "report")
      [] x = "odd" -> JS_Throw(st, "other", "report")
      [] OTHER -> st

-----------------------------------------------------------------------------
(* value.go                                                                *)

fromJsExceptionSilent(st) == Result([JS_GetException(st) EXCEPT !.refs = st.refs], FALSE, "nil")

\* Only an Error becomes a Go error, after dumpException and getExceptionStr have
\* read its stack and its name; anything else is neither reported nor freed.
fromJsException(st) ==
    LET got == JS_GetException(st)
    IN  IF IsError(st.pending)
        THEN Result(Described([got EXCEPT !.refs = @ - 1], st.pending), TRUE, "nil")
        ELSE Result([got EXCEPT !.swallowed = @ + IF st.pending = "none" THEN 0 ELSE 1], FALSE, "nil")

RECURSIVE fromJsValue(_, _)

\* The elements one after the other, up to the first that fails.
Elements(st, v) ==
    LET Element(a, p) ==
            IF a.done THEN a
            ELSE LET g == GetPart(a.r.s, p)
                     r == fromJsValue(g.s, g.v)
                     freed == Result(FreeRefOf(r.s, g.v), r.err, "nil")
                 IN  IF g.v = Exception THEN [r |-> fromJsException(g.s), done |-> TRUE]
                     ELSE [r |-> freed, done |-> r.err]
    IN  FoldLeft(Element, [r |-> Result(st, FALSE, "nil"), done |-> FALSE], v.e)

\* Nobody looks whether the length could be read: without one the array is empty.
fromJsArray(st, v) ==
    LET all == Elements(st, v)
    IN  IF v.k = "revoked" THEN Result(JS_Throw(st, "error", "length"), FALSE, "go")
        ELSE IF all.done THEN all.r ELSE Result(all.r.s, FALSE, "go")

\* The table gives up an atom; then only the object owns the name, if the property
\* is still there (gone says that it is not).
JS_FreeAtom(st) == [st EXCEPT !.atoms = @ - 1]
JS_AtomToCString(st, gone) == [st EXCEPT !.ghosts = @ + IF gone THEN 1 ELSE 0]

\* The properties one after the other, each atom given up on the way and its
\* name read afterwards; a failure leaves the rest behind.
Properties(st, v) ==
    LET Property(a, p) ==
            IF a.r.err THEN a
            ELSE LET g == GetPart(a.r.s, IF a.gone THEN Prim ELSE p)
                     gone == a.gone \/ p.k = "deletes"
                     d == IF gone /\ ~ a.gone THEN [g.s EXCEPT !.deleted = @ + Len(v.e)] ELSE g.s
                     r == fromJsValue(JS_FreeAtom(d), g.v)
                     freed == FreeRefOf(r.s, g.v)
                 IN  [gone |-> gone,
                      r |-> IF r.err THEN Result([freed EXCEPT !.cut = @ + 1], TRUE, "nil")
                            ELSE Result(JS_AtomToCString(freed, gone), FALSE, "go")]
        names == [st EXCEPT !.atoms = @ + Len(v.e), !.tables = @ + 1]
    IN  FoldLeft(Property, [r |-> Result(names, FALSE, "go"), gone |-> FALSE], v.e).r

fromJsObject(st, v) ==
    LET all == Properties(st, v)
    IN  IF v.k = "proxy" THEN Result(JS_Throw(st, "error", "keys"), TRUE, "nil")
        ELSE IF all.err THEN all
        ELSE Result([all.s EXCEPT !.tables = @ - 1], FALSE, "go")

fromJsValue(st, v) ==
    CASE v.k = "exception" -> fromJsException(st)
      [] v.k = "prim" -> Result(st, FALSE, "go")
      [] v.k \in {"array", "revoked"} -> fromJsArray(st, v)
      [] v.k = "func" -> Result(st, FALSE, "func")
      [] v.k \in {"object", "proxy"} -> fromJsObject(st, v)
      [] OTHER -> Result(st, TRUE, "nil")

-----------------------------------------------------------------------------
(* Calls of the host.  op is the call that is under way: its name, the     *)
(* references it has to give up at its end, what had been swallowed before *)
(* it, its number and its environment ("nil" stands for no value too).     *)

NoEnv == [n \in Names |-> "nil"]
Idle == [name |-> "idle", held |-> 0, swallowed |-> 0, call |-> 0, env |-> NoEnv]
NoCall == [name |-> "none", threw |-> "no", err |-> FALSE, val |-> "nil", lost |-> 0]

BridgeInit ==
    /\ op = Idle
    /\ s = [refs |-> 0, atoms |-> 0, tables |-> 0, pending |-> "none", origin |-> "none",
            swallowed |-> 0, cut |-> 0, deleted |-> 0, ghosts |-> 0]
    /\ unwinding = FALSE /\ last = NoCall /\ calls = 0
    /\ globals = [n \in Names |-> 0] /\ locked = {}

\* A call that began when n exceptions had been swallowed returns r.
ReturnToGo(name, threw, r, n) ==
    /\ op' = Idle /\ s' = r.s /\ unwinding' = FALSE
    /\ last' = [name |-> name, threw |-> threw, err |-> r.err, val |-> r.val,
                lost |-> r.s.swallowed - n]

Enter(name, held, st, en) ==
    /\ op' = [name |-> name, held |-> held, swallowed |-> s.swallowed, call |-> calls', env |-> en]
    /\ s' = [st EXCEPT !.refs = @ + held]
    /\ last' = NoCall
    /\ UNCHANGED unwinding

Counted == calls < MaxCalls /\ calls' = calls + 1

\* The names of an environment in the random order of a Go map, up to the first
\* value that cannot be converted: set are those that were gone through.  Nil
\* values are skipped.  An assignment that fails is not noticed.
setEnv(en, set) ==
    LET good == {n \in Names : en[n] = "good"}
    IN  /\ set \subseteq good
        /\ (\A n \in Names : en[n] # "bad") => set = good
        /\ globals' = [n \in Names |-> IF n \in set \ locked THEN calls' ELSE globals[n]]
        /\ UNCHANGED locked

AfterEnv(set, x) == IF set \cap locked = {} THEN s ELSE JS_Throw(s, x, "setter")

eval(en, set, x) ==
    /\ op = Idle /\ Counted
    /\ setEnv(en, set)
    /\ IF \E n \in Names : en[n] = "bad"
       THEN ReturnToGo("eval", "no", Result(AfterEnv(set, x), TRUE, "nil"), s.swallowed)
       ELSE Enter("eval", 0, AfterEnv(set, x), en)

Threw(x) == IF x = "none" THEN "empty" ELSE IF IsError(x) THEN "error" ELSE "other"
ThrewBy(v) == IF v.k \in Throwing THEN Threw(Thrown[v.k]) ELSE "no"

\* GetGlobal: getVar, which may run a getter, and the conversion.
GetGlobal(v) ==
    /\ op = Idle /\ Counted /\ UNCHANGED <<globals, locked>>
    /\ LET g == GetPart(s, v)
           e == fromJsException(g.s)
           r == fromJsValue(g.s, g.v)
       IN  ReturnToGo("global", ThrewBy(v),
               IF g.v # Exception THEN Result(FreeRefOf(r.s, g.v), r.err, r.val)
               ELSE IF e.err THEN e ELSE fromJsValue(e.s, Exception), s.swallowed)

\* getVar finds v, or runs a getter that throws, which wrapFunc does not look at.
getVar(v) == IF v.k \in Throwing THEN fromJsException(GetPart(s, v).s).s ELSE s

\* CallFunc, BindFunc and the function that wrapFunc made for it: the function
\* itself and n arguments that are objects.  What cannot be converted is passed
\* as undefined.
CallFunc(name, v, n) ==
    /\ op = Idle /\ Counted /\ UNCHANGED <<globals, locked>>
    /\ CASE v.k = "func" /\ name # "bind" -> Enter(name, n + 1, s, NoEnv)
         [] v.k = "func" /\ name = "bind" -> ReturnToGo(name, "no", Result(s, FALSE, "func"), s.swallowed)
         [] v.k # "func" /\ name # "bound" -> ReturnToGo(name, ThrewBy(v), Result(getVar(v), TRUE, "nil"), s.swallowed)
         [] OTHER -> ReturnToGo(name, "error", fromJsException(JS_Throw(getVar(v), "error", "script")), s.swallowed)

Running == op # Idle /\ ~unwinding

\* The script calls a Go function (goFuncBridge), which returns a value,
\* nothing, or an error; the error is thrown as a string.
goFuncBridge(args, how) ==
    /\ Running /\ Counted
    /\ LET conv == FoldLeft(LAMBDA st, v : fromJsValue(st, v).s, s, args)
       IN  s' = IF how = "error" THEN JS_Throw(conv, "other", "script") ELSE conv
    /\ unwinding' = (how # "value")
    /\ UNCHANGED <<op, globals, locked, last>>

\* A throw statement, or an operation that throws.
ScriptThrows(kind) ==
    /\ Running
    /\ s' = JS_Throw(s, Thrown[kind], "script") /\ unwinding' = TRUE
    /\ UNCHANGED <<op, globals, locked, last, calls>>

\* A catch clause takes the pending exception, whatever it is.
ScriptCatches ==
    /\ op # Idle /\ unwinding
    /\ s' = [s EXCEPT !.pending = "none", !.origin = "none"] /\ unwinding' = FALSE
    /\ UNCHANGED <<op, globals, locked, last, calls>>

\* A script defines a global as read-only, or with a setter that throws.
ScriptLocks(n) ==
    /\ Running /\ n \notin locked /\ locked' = locked \cup {n}
    /\ UNCHANGED <<op, s, unwinding, globals, last, calls>>


\* The arguments are freed after JS_Call, the result and the function at the end.
\* After eval, js_std_dump_error prints the exception and frees it.
EndOf(st, v) ==
    LET r == fromJsValue(st, v)
        given == [r.s EXCEPT !.refs = @ - op.held - Ref(v)]
        e == JS_GetException(st)
    IN  IF op.name = "eval" /\ v = Exception
        THEN Result(Described([e EXCEPT !.refs = st.refs], st.pending), TRUE, "nil")
        ELSE Result(given, r.err, r.val)

ScriptReturns(v) ==
    /\ Running
    /\ ReturnToGo(op.name, "no", EndOf([s EXCEPT !.refs = @ + Ref(v)], v), op.swallowed)
    /\ UNCHANGED <<globals, locked, calls>>

ScriptUnwinds ==
    /\ op # Idle /\ unwinding
    /\ ReturnToGo(op.name, Threw(s.pending), EndOf(s, Exception), op.swallowed)
    /\ UNCHANGED <<globals, locked, calls>>

Getters == {Leaf(kind) : kind \in Throwing}

BridgeNext ==
    \/ \E en \in [Names -> {"nil", "good", "bad"}], set \in SUBSET Names, x \in {"error", "other"} :
          eval(en, set, x)
    \/ \E v \in Values \cup Getters : GetGlobal(v)
    \/ \E name \in {"call", "bound", "bind"}, v \in {Leaf("func"), Prim} \cup Getters, n \in 0..MaxArgs :
          CallFunc(name, v, n)
    \/ \E v \in Values, how \in {"value", "nothing", "error"} : goFuncBridge(<<v>>, how)
    \/ \E kind \in Throwing : ScriptThrows(kind)
    \/ ScriptCatches
    \/ \E n \in Names : ScriptLocks(n)
    \/ \E v \in Values : ScriptReturns(v)
    \/ ScriptUnwinds

-----------------------------------------------------------------------------
(* Properties.                                                             *)

Unchecked == {"keys", "length", "report", "setter"}

BridgeTypeOK ==
    /\ op.name \in {"idle", "eval", "call", "bound"} /\ op.held \in 0..MaxArgs + 1 /\ op.call \in 0..MaxCalls
    /\ s.pending \in Exceptions /\ s.origin \in Unchecked \cup {"none", "script"}
    /\ \A f \in {"refs", "atoms", "tables", "swallowed", "cut", "deleted", "ghosts"} : s[f] \in Nat
    /\ unwinding \in BOOLEAN /\ calls \in 0..MaxCalls
    /\ op.env \in [Names -> {"nil", "good", "bad"}]
    /\ globals \in [Names -> 0..MaxCalls] /\ locked \subseteq Names
    /\ last.val \in {"nil", "go", "func"} /\ last.err \in BOOLEAN /\ last.lost \in Nat

(* "res, err := ctx.CallFunc(...)" and "if err != nil" (README.md:87): a   *)
(* call that ends with an exception returns an error.                      *)
ExceptionReported == last.name = "call" /\ last.threw # "no" => last.err


(* A call that ends with an uncaught Error returns a Go error, whichever   *)
(* of the entry points it went through, also if the Error was left over    *)
(* from an earlier call and a Go function without a result threw it again; *)
(* one that returns neither a value nor an error has itself swallowed an   *)
(* exception, or a Go function without a result ended it.  A script runs   *)
(* only if its whole environment could be converted, although setEnv may   *)
(* have set a part of it before it fails; it then sees every value that    *)
(* its caller passed, but for nil and for what an earlier script locked,   *)
(* where it sees what an earlier call left.                                *)
OutcomeExplained ==
    /\ last.threw = "error" => last.err
    /\ last.val = "nil" /\ ~ last.err /\ last.name # "none" => last.threw = "empty" \/ last.lost > 0
    /\ op.name = "eval" => \A n \in Names :
          op.env[n] # "bad" /\ (op.env[n] = "good" => globals[n] = op.call \/ n \in locked)

=============================================================================
