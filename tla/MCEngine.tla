------------------------------ MODULE MCEngine ------------------------------
(* The values that TLC gives to Engine.                                    *)
EXTENDS Engine

Leaves == {Leaf(kind) : kind \in {"func", "symbol", "throwsError", "throwsTrap", "throwsOther"}}
Containers == {[k |-> kind, e |-> <<p>>] : kind \in {"array", "object"}, p \in Leaves}
\* An array in an object, an object in an array, and what fails elsewhere.
Nested == {[k |-> IF c.k = "array" THEN "object" ELSE "array", e |-> <<c, Prim>>] :
              c \in Containers \cup {Leaf("proxy"), Leaf("revoked")}}
            \cup {[k |-> "object", e |-> <<Leaf("deletes"), Prim>>]}

MCValues == {Prim, Leaf("func"), Leaf("symbol"), Leaf("proxy"), Leaf("revoked"), Leaf("object"),
             Leaf("array")} \cup Nested
(* Patterns: a group, a capture or a lookaround around each of a few       *)
(* disjunctions, with or without a quantifier, and with or without         *)
(* something after it.                                                     *)
A == [k |-> "char", c |-> "a"]
Dot == [k |-> "dot"]
Bol == [k |-> "bol"]
Eol == [k |-> "eol"]
Word == [k |-> "word"]
Ref1 == [k |-> "ref", i |-> 1]
Quant(t, min, max, g) == [k |-> "quant", t |-> t, min |-> min, max |-> max, greedy |-> g]
Bounds == {<<0, 0>>, <<0, 1>>, <<0, 2>>, <<0, Inf>>, <<1, Inf>>, <<2, 3>>, <<2, Inf>>}
Quantified(t) == {Quant(t, m[1], m[2], g) : m \in Bounds, g \in BOOLEAN}
Group(d) == [k |-> "group", d |-> d]
Capture(d) == [k |-> "cap", d |-> d, i |-> 1]
Look(d, neg, back) == [k |-> "look", d |-> d, neg |-> neg, back |-> back]

CapA == Capture(<<<<A>>>>)
Plainly == {<<<<t>>>> : t \in {A, Dot, Bol, Word}} \cup {<<<<t>>, <<u>>>> : t, u \in {A, Eol}}
             \cup {<<<<Quant(A, 0, Inf, g)>>>> : g \in BOOLEAN} \cup {<<<<A>>, <<>>>>}
WithCapture == {<<<<CapA>>, <<Dot>>>>, <<<<CapA, Quant(Dot, 0, 1, TRUE)>>>>,
              <<<<Quant(CapA, 0, 1, TRUE)>>>>, <<<<Dot, Quant(CapA, 0, 1, TRUE), Ref1>>>>,
              <<<<Capture(<<<<A>>, <<Eol>>>>)>>, <<Word>>>>}
Grouped == {Group(d) : d \in Plainly \cup WithCapture} \cup {Capture(d) : d \in Plainly}
Looks == {Look(d, neg, back) : d \in Plainly \cup WithCapture, neg, back \in BOOLEAN}
\* A lookbehind takes no quantifier.
Firsts(t) == IF t.k = "look" /\ t.back THEN {t} ELSE {t} \cup Quantified(t)
Rests(t) == {<<>>, <<A>>} \cup (IF Captures(t) = {} THEN {} ELSE {<<Ref1>>})

MCPatterns ==
    UNION {{<<<<first>> \o rest>> : first \in Firsts(t), rest \in Rests(t)} : t \in Grouped \cup Looks}
      \cup {<<<<Quant(Group(<<<<g, A>>, <<g>>>>), m[1], m[2], TRUE)>>>> :
               g \in {Quant(CapA, 0, 2, FALSE)}, m \in {<<0, Inf>>, <<2, 3>>}}
MCTexts == {<<>>, <<"n", "a">>, <<"a", "a", "n", "a">>}

(* Numbers on both sides of the limits of int and of the mantissa.         *)
MCNumbers == {[k |-> "int", n |-> 21], [k |-> "uint", n |-> 45], [k |-> "uint64", n |-> 45]}

\* The two plain objects play the same part.
MCSymmetry == Permutations(Plain)
=============================================================================
