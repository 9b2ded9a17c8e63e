------------------------------- MODULE Regexp -------------------------------
(***************************************************************************)
(* Regular expressions (libregexp.c): the compiler from patterns to byte   *)
(* code, and the machine with a stack of states that runs it.  A pattern   *)
(* is a tree, as the recursive descent of re_parse_disjunction sees it:    *)
(*   char, dot, bol, eol, word      atoms and assertions                   *)
(*   ref i                          \i                                     *)
(*   seq, alt                       terms in a row, alternatives           *)
(*   group, cap                     (?: ) and ( )                          *)
(*   look                           (?= ), (?! ), (?<= ) and (?<! )        *)
(*   quant                          a term with min, max and greedy        *)
(* An instruction takes one place of the code, whatever its size in bytes, *)
(* and jumps are relative to the next one, as in the source.  The text has *)
(* the letter "a" and the newline "n".  Case folding, classes of           *)
(* characters and surrogate pairs are left out.  The reference is the      *)
(* Matcher of ECMAScript, as the list of all the ways to match, best first,*)
(* with one exception, which the code makes throughout: what the captures  *)
(* inside a repeated term hold is forgotten before the first repetition    *)
(* when there may be none, where ECMAScript forgets it before every one    *)
(* (for /(?:(a)|b)*/ and "ab", the code leaves "a" in the capture).        *)
(***************************************************************************)
EXTENDS Integers, SequencesExt

CONSTANTS
    Patterns,   \* patterns, and
    Texts,      \* texts to match them with
    Multiline   \* the values that the flag m takes

VARIABLES
    re,     \* the pattern, its code, the number of captures, the stack size, the flag m
    text,
    vm      \* the machine: pc, cptr, capture, stack, states; ret is its result

regexpVars == <<re, text, vm>>

Inf == 99                       \* INT32_MAX, no upper limit
Null == -1

-----------------------------------------------------------------------------
(* The compiler.  Its operators return the code and the capture count.     *)

Op(o) == <<[op |-> o]>>
OpV(o, val) == <<[op |-> o, v |-> val]>>
Code(c, n) == [code |-> c, n |-> n]

IsChar(i) == i.op \in {"char", "dot", "any"}
IsAssertion(i) == i.op \in {"line_start", "line_end", "word_boundary"}

\* A wrong test: a capture or an assertion counts as an advance.
re_need_check_advanceLoose(code) ==
    \E i \in DOMAIN code :
       /\ ~ IsChar(code[i]) /\ ~ IsAssertion(code[i])
       /\ code[i].op \notin {"push_i32", "push_char_pos", "drop", "prev", "save_start",
                             "save_end", "save_reset", "back_reference", "backward_back_reference"}

\* Whether running the code may leave the position where it is.
re_need_check_advance(code) ==
    \/ \E i \in DOMAIN code :
          /\ ~ IsChar(code[i]) /\ ~ IsAssertion(code[i])
          /\ code[i].op \notin {"push_i32", "push_char_pos", "drop", "prev", "save_start",
                                "save_end", "save_reset", "back_reference", "backward_back_reference"}
    \/ \A i \in DOMAIN code : ~ IsChar(code[i])

\* The number of characters, or -1 if there is more than characters and assertions.
re_is_simple_quantifier(code) ==
    IF \E i \in DOMAIN code : ~ IsChar(code[i]) /\ ~ IsAssertion(code[i]) THEN -1
    ELSE Len(SelectSeq(code, IsChar))

\* A term with its quantifier; the term has captures from..to-1.
Quantifier(atom, min, max, greedy, from, to) ==
    LET count == re_is_simple_quantifier(atom)
        check == re_need_check_advance(atom)
        body == IF check THEN Op("push_char_pos") \o atom \o Op("check_advance") ELSE atom
        L == Len(body)
        split == OpV(IF greedy THEN "split_next_first" ELSE "split_goto_first", L + 1)
        reset == IF from # to THEN <<[op |-> "save_reset", v |-> from, to |-> to - 1]>> ELSE <<>>
        limited(n) == OpV("push_i32", n) \o split \o body \o OpV("loop", -(L + 2)) \o Op("drop")
        forever == split \o body \o OpV("goto", -(L + 2))
        first == IF min = 1 THEN atom
                 ELSE OpV("push_i32", min) \o atom \o OpV("loop", -(Len(atom) + 1)) \o Op("drop")
        once == <<[split[1] EXCEPT !.v = L]>> \o body
    IN  CASE greedy /\ max > 0 /\ count > 0 ->
                 <<[op |-> "simple_greedy_quant", v |-> Len(atom) + 1, min |-> min, max |-> max,
                    count |-> count]>> \o atom \o Op("match")
          [] ~(greedy /\ max > 0 /\ count > 0) /\ min = 0 ->
                 reset \o (CASE max = 0 -> <<>> [] max = 1 -> once [] max = Inf -> forever
                             [] OTHER -> limited(max))
          [] ~(greedy /\ max > 0 /\ count > 0) /\ min = 1 /\ max = Inf /\ ~check ->
                 atom \o OpV(IF greedy THEN "split_goto_first" ELSE "split_next_first", -(L + 1))
          [] OTHER -> first \o (CASE max = Inf -> forever
                                  [] max # Inf /\ max > min -> limited(max - min)
                                  [] OTHER -> <<>>)

\* In a lookbehind a character is stepped over backwards, before and after.
Step(code, back) == IF back THEN Op("prev") \o code \o Op("prev") ELSE code

RECURSIVE re_parse_term(_, _, _)

\* What is emitted around and between the parts that are compiled.
InRow(a, c, back) == Code(IF back THEN c.code \o a.code ELSE a.code \o c.code, c.n)

Either(a, c) ==
    Code(OpV("split_next_first", Len(a.code) + 1) \o a.code \o OpV("goto", Len(c.code)) \o c.code, c.n)

Capturing(c, n, back) ==
    Code(OpV(IF back THEN "save_end" ELSE "save_start", n) \o c.code
             \o OpV(IF back THEN "save_start" ELSE "save_end", n), c.n)

Looking(c, neg) ==
    Code(OpV(IF neg THEN "negative_lookahead" ELSE "lookahead", Len(c.code) + 1)
             \o c.code \o Op("match"), c.n)

Repeating(c, t, n) == Code(Quantifier(c.code, t.min, t.max, t.greedy, n, c.n), c.n)

\* The terms one after the other; backwards, each before the ones so far.
re_parse_alternative(terms, n, back) ==
    FoldLeft(LAMBDA a, t : InRow(a, re_parse_term(t, a.n, back), back), Code(<<>>, n), terms)

re_parse_disjunction(alts, n, back) ==
    FoldLeft(LAMBDA a, t : Either(a, re_parse_alternative(t, a.n, back)),
             re_parse_alternative(alts[1], n, back), Tail(alts))

re_parse_term(t, n, back) ==
    CASE t.k = "char" -> Code(Step(OpV("char", t.c), back), n)
      [] t.k = "dot" -> Code(Step(Op("dot"), back), n)
      [] t.k = "bol" -> Code(Op("line_start"), n)
      [] t.k = "eol" -> Code(Op("line_end"), n)
      [] t.k = "word" -> Code(Op("word_boundary"), n)
      [] t.k = "ref" -> Code(OpV(IF back THEN "backward_back_reference" ELSE "back_reference", t.i), n)
      [] t.k = "group" -> re_parse_disjunction(t.d, n, back)
      [] t.k = "cap" ->
            Capturing(re_parse_disjunction(t.d, n + 1, back), n, back)
      [] t.k = "look" ->
            Looking(re_parse_disjunction(t.d, n, t.back), t.neg)
      [] t.k = "quant" ->
            Repeating(re_parse_term(t.t, n, back), t, n)

\* Without the flag y the code begins with a loop over all positions.
Searching(c) ==
    Code(OpV("split_goto_first", 2) \o Op("any") \o OpV("goto", -3) \o OpV("save_start", 0)
             \o c.code \o OpV("save_end", 0) \o Op("match"), c.n)

lre_compile(alts) == Searching(re_parse_disjunction(alts, 1, FALSE))

\* The depth of the stack: pushes and pops in the order of the code.
compute_stack_size(code) ==
    FoldLeft(LAMBDA a, i :
                 LET d == CASE i.op \in {"push_i32", "push_char_pos"} -> a.size + 1
                            [] i.op \in {"drop", "check_advance"} -> a.size - 1
                            [] OTHER -> a.size
                 IN  [size |-> d, max |-> IF d > a.max THEN d ELSE a.max],
             [size |-> 0, max |-> 0], code).max

-----------------------------------------------------------------------------
(* The machine.  Positions in the text are 0..Len(text).                   *)

Executing(ops) == vm.ret = Null /\ re.code[vm.pc].op \in ops
Instr == re.code[vm.pc]

is_word_char(c) == c = "a"
is_line_terminator(c) == c = "n"

Matches(i, c) == i.op = "any" \/ (i.op = "dot" /\ ~ is_line_terminator(c)) \/ (i.op = "char" /\ i.v = c)

Holds(i, p) ==
    LET before == p > 0 /\ is_word_char(text[p])
        after == p < Len(text) /\ is_word_char(text[p + 1])
    IN  CASE i.op = "line_start" -> p = 0 \/ (re.multi /\ is_line_terminator(text[p]))
          [] i.op = "line_end" -> p = Len(text) \/ (re.multi /\ is_line_terminator(text[p + 1]))
          [] i.op = "word_boundary" -> before # after

push_state(m, type, pc, count) ==
    [m EXCEPT !.states = Append(@, [type |-> type, pc |-> pc, cptr |-> m.cptr, count |-> count,
                                    capture |-> m.capture, stack |-> m.stack])]

RECURSIVE Recurse(_, _)

\* Goes back to the last state that is to be tried, and ends if there is none.
Recurse(m, ret) ==
    IF m.states = <<>> THEN [m EXCEPT !.ret = ret]
    ELSE LET rs == Last(m.states)
             popped == [m EXCEPT !.states = Front(@)]
             back == [popped EXCEPT !.pc = rs.pc, !.cptr = rs.cptr, !.stack = rs.stack]
             restored == [back EXCEPT !.capture = rs.capture]
             q == re.code[rs.pc]
             pos == rs.cptr - q.count
             again == [restored EXCEPT !.pc = rs.pc + 1 + q.v, !.cptr = pos,
                          !.states = IF rs.count = 1 THEN Front(m.states)
                                     ELSE Append(Front(m.states), [rs EXCEPT !.cptr = pos, !.count = @ - 1])]
         IN  CASE rs.type = "split" -> IF ret = 0 THEN restored ELSE Recurse(popped, ret)
               [] rs.type = "greedy" -> IF ret = 0 THEN again ELSE Recurse(popped, ret)
               [] rs.type = "lookahead" -> IF ret = 1 THEN back ELSE Recurse(popped, 0)
               [] rs.type = "negative_lookahead" -> IF ret = 0 THEN restored ELSE Recurse(popped, 0)

no_match(m) == Recurse(m, 0)
Advance(m) == [m EXCEPT !.pc = @ + 1]
Jump(m, v) == [m EXCEPT !.pc = @ + 1 + v]

OpMatch == Executing({"match"}) /\ vm' = Recurse(vm, 1)

OpChar ==
    /\ Executing({"char", "dot", "any"})
    /\ vm' = IF vm.cptr < Len(text) /\ Matches(Instr, text[vm.cptr + 1])
             THEN Advance([vm EXCEPT !.cptr = @ + 1]) ELSE no_match(vm)

OpAssertion ==
    /\ Executing({"line_start", "line_end", "word_boundary"})
    /\ vm' = IF Holds(Instr, vm.cptr) THEN Advance(vm) ELSE no_match(vm)

OpSplit ==
    /\ Executing({"split_goto_first", "split_next_first"})
    /\ LET next == vm.pc + 1
           other == next + Instr.v
       IN  vm' = IF Instr.op = "split_next_first" THEN Advance(push_state(vm, "split", other, 0))
                 ELSE Jump(push_state(vm, "split", next, 0), Instr.v)

OpLookahead ==
    /\ Executing({"lookahead", "negative_lookahead"})
    /\ vm' = Advance(push_state(vm, Instr.op, vm.pc + 1 + Instr.v, 0))

OpGoto == Executing({"goto"}) /\ vm' = Jump(vm, Instr.v)

OpSave ==
    /\ Executing({"save_start", "save_end"})
    /\ vm' = Advance([vm EXCEPT !.capture[Instr.v][IF Instr.op = "save_start" THEN 1 ELSE 2] = vm.cptr])

OpSaveReset ==
    /\ Executing({"save_reset"})
    /\ vm' = Advance([vm EXCEPT !.capture = [i \in DOMAIN @ |->
                      IF i \in Instr.v..Instr.to THEN <<Null, Null>> ELSE @[i]]])

OpPush ==
    /\ Executing({"push_i32", "push_char_pos"})
    /\ vm' = Advance([vm EXCEPT !.stack = Append(@, IF Instr.op = "push_i32" THEN Instr.v ELSE vm.cptr)])

OpDrop == Executing({"drop"}) /\ vm' = Advance([vm EXCEPT !.stack = Front(@)])

OpLoop ==
    /\ Executing({"loop"})
    /\ LET m == [vm EXCEPT !.stack[Len(vm.stack)] = @ - 1]
       IN  vm' = IF Last(m.stack) # 0 THEN Jump(m, Instr.v) ELSE Advance(m)

OpCheckAdvance ==
    /\ Executing({"check_advance"})
    /\ LET m == [vm EXCEPT !.stack = Front(@)]
       IN  vm' = IF Last(vm.stack) = vm.cptr THEN no_match(m) ELSE Advance(m)

\* An unset capture matches; so does one whose end lies before its start.
OpBackReference ==
    /\ Executing({"back_reference", "backward_back_reference"})
    /\ LET c == vm.capture[Instr.v]
           len == IF c[1] = Null \/ c[2] = Null \/ c[2] < c[1] THEN 0 ELSE c[2] - c[1]
           from == IF Instr.op = "back_reference" THEN vm.cptr ELSE vm.cptr - len
           fits == from >= 0 /\ from + len <= Len(text)
                   /\ \A i \in 1..len : text[from + i] = text[c[1] + i]
       IN  vm' = IF fits
                 THEN Advance([vm EXCEPT !.cptr = IF Instr.op = "back_reference" THEN @ + len ELSE @ - len])
                 ELSE no_match(vm)

OpPrev == Executing({"prev"}) /\ vm' = IF vm.cptr = 0 THEN no_match(vm) ELSE Advance([vm EXCEPT !.cptr = @ - 1])

\* lre_exec_backtrack with no_recurse: characters and assertions up to match.
RECURSIVE Simple(_, _)
Simple(pc, p) ==
    LET i == re.code[pc]
    IN  CASE i.op = "match" -> p
          [] IsChar(i) -> IF p < Len(text) /\ Matches(i, text[p + 1]) THEN Simple(pc + 1, p + 1) ELSE Null
          [] IsAssertion(i) -> IF Holds(i, p) THEN Simple(pc + 1, p) ELSE Null

RECURSIVE Greedily(_, _, _)
\* As often as the atom matches, up to max: how often, and where that ends.
Greedily(pc, p, max) ==
    LET next == Simple(pc, p)
        more == Greedily(pc, next, max - 1)
    IN  IF max = 0 \/ next = Null THEN [q |-> 0, cptr |-> p]
        ELSE [q |-> more.q + 1, cptr |-> more.cptr]

OpSimpleGreedyQuant ==
    /\ Executing({"simple_greedy_quant"})
    /\ LET r == Greedily(vm.pc + 1, vm.cptr, Instr.max)
           m == [vm EXCEPT !.cptr = r.cptr]
           kept == IF r.q > Instr.min THEN push_state(m, "greedy", vm.pc, r.q - Instr.min) ELSE m
       IN  vm' = IF r.q < Instr.min THEN no_match(m) ELSE Jump(kept, Instr.v)

\* lre_exec from position 0.
RegexpInit ==
    \E d \in Patterns, multi \in Multiline : \E c \in {lre_compile(d)} :
      /\ re = [alts |-> d, code |-> c.code, n |-> c.n, multi |-> multi,
               stack |-> compute_stack_size(c.code)]
      /\ text \in Texts
      /\ vm = [pc |-> 1, cptr |-> 0, capture |-> [i \in 0..c.n - 1 |-> <<Null, Null>>],
               stack |-> <<>>, states |-> <<>>, ret |-> Null]

RegexpNext ==
    /\ \/ OpMatch \/ OpChar \/ OpAssertion \/ OpSplit \/ OpLookahead \/ OpGoto \/ OpSave
       \/ OpSaveReset \/ OpPush \/ OpDrop \/ OpLoop \/ OpCheckAdvance \/ OpBackReference
       \/ OpPrev \/ OpSimpleGreedyQuant
    /\ UNCHANGED <<re, text>>

-----------------------------------------------------------------------------
(* Properties.                                                             *)

RECURSIVE Captures(_)
Captures(t) ==
    LET inside == UNION {UNION {Captures(alt[j]) : j \in DOMAIN alt} : alt \in ToSet(t.d)}
    IN  CASE t.k = "cap" -> {t.i} \cup inside
          [] t.k \in {"group", "look"} -> inside
          [] t.k = "quant" -> Captures(t.t)
          [] OTHER -> {}

Forget(x, is) == [x EXCEPT !.cap = [i \in DOMAIN @ |-> IF i \in is THEN <<Null, Null>> ELSE @[i]]]

Each(xs, W(_)) == FlattenSeq([i \in DOMAIN xs |-> W(xs[i])])

RECURSIVE Ways(_, _, _), Repeated(_, _, _, _, _)

\* The ways to match one alternative after the other.
WaysOf(alts, x, back) ==
    LET terms(alt) == IF back THEN Reverse(alt) ELSE alt
        row(alt) == FoldLeft(LAMBDA xs, t : Each(xs, LAMBDA y : Ways(t, y, back)),
                             <<x>>, terms(alt))
    IN  FlattenSeq([i \in DOMAIN alts |-> row(alts[i])])

\* RepeatMatcher: an optional repetition that does not advance is no way.
Repeated(t, x, min, max, back) ==
    LET once == Ways(t.t, x, back)
        useful == SelectSeq(once, LAMBDA y : min > 0 \/ y.pos # x.pos)
        more == Each(useful, LAMBDA y : Repeated(t, y, IF min > 0 THEN min - 1 ELSE 0,
                                                 IF max = Inf THEN Inf ELSE max - 1, back))
    IN  IF max = 0 THEN <<x>>
        ELSE IF min > 0 THEN more
        ELSE IF t.greedy THEN Append(more, x) ELSE <<x>> \o more

Ways(t, x, back) ==
    LET after == IF back THEN x.pos - 1 ELSE x.pos + 1
        c == IF after \in 0..Len(text) THEN text[IF back THEN x.pos ELSE x.pos + 1] ELSE "none"
        on(y) == <<[x EXCEPT !.pos = y]>>
        look == WaysOf(t.d, x, t.back)
        ref == x.cap[t.i]
        len == IF ref[1] = Null \/ ref[2] = Null THEN 0 ELSE ref[2] - ref[1]
        from == IF back THEN x.pos - len ELSE x.pos
    IN  CASE t.k = "char" -> IF c = t.c THEN on(after) ELSE <<>>
          [] t.k = "dot" -> IF c \notin {"none", "n"} THEN on(after) ELSE <<>>
          [] t.k = "bol" -> IF Holds([op |-> "line_start"], x.pos) THEN <<x>> ELSE <<>>
          [] t.k = "eol" -> IF Holds([op |-> "line_end"], x.pos) THEN <<x>> ELSE <<>>
          [] t.k = "word" -> IF Holds([op |-> "word_boundary"], x.pos) THEN <<x>> ELSE <<>>
          [] t.k = "ref" -> IF /\ from >= 0 /\ from + len <= Len(text)
                               /\ \A i \in 1..len : text[from + i] = text[ref[1] + i]
                            THEN on(IF back THEN from ELSE from + len) ELSE <<>>
          [] t.k = "group" -> WaysOf(t.d, x, back)
          [] t.k = "cap" ->
                Each(WaysOf(t.d, x, back), LAMBDA y :
                    <<[y EXCEPT !.cap[t.i] = IF back THEN <<y.pos, x.pos>> ELSE <<x.pos, y.pos>>]>>)
          [] t.k = "look" -> IF t.neg THEN IF look = <<>> THEN <<x>> ELSE <<>>
                             ELSE IF look = <<>> THEN <<>> ELSE <<[x EXCEPT !.cap = look[1].cap]>>
          [] t.k = "quant" ->
                Repeated(t, IF t.min = 0 THEN Forget(x, Captures(t.t)) ELSE x, t.min, t.max, back)

\* The best way from the first position that has one; Null if there is none.
Best ==
    LET from(p) == Each(WaysOf(re.alts, [pos |-> p, cap |-> [i \in 1..re.n - 1 |-> <<Null, Null>>]],
                               FALSE),
                        LAMBDA y : <<[i \in 0..re.n - 1 |-> IF i = 0 THEN <<p, y.pos>> ELSE y.cap[i]]>>)
        all == FlattenSeq([i \in 1..Len(text) + 1 |-> from(i - 1)])
    IN  IF all = <<>> THEN Null ELSE all[1]

\* The machine stays within its code and the text.
RegexpTypeOK ==
    /\ vm.pc \in DOMAIN re.code /\ vm.cptr \in 0..Len(text) /\ vm.ret \in {Null, 0, 1}
    /\ DOMAIN vm.capture = 0..re.n - 1

(***************************************************************************)
(* Whatever the pattern, with all its shortcuts for simple, empty and lazy *)
(* repetitions, the machine ends with the captures of the best way to      *)
(* match, or without one if there is none; and it never needs more of the  *)
(* stack, for which push_state copies a fixed number of places, than       *)
(* compute_stack_size has reserved.                                        *)
(***************************************************************************)
RegexpExact ==
    /\ Len(vm.stack) <= re.stack
    /\ vm.ret # Null => (IF vm.ret = 1 THEN vm.capture ELSE Null) = Best
=============================================================================
