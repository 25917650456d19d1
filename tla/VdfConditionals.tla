-------------------------- MODULE VdfConditionals --------------------------
(***************************************************************************)
(* The conditionals of Valve's KeyValues text (vdf.c): an expression is    *)
(* evaluated while it is read.  Its text is a sequence of symbols that are *)
(* true "t" or false "f", "!", parentheses, and "&" and "|" for the two    *)
(* operators; "half" is one that its second character does not follow.     *)
(* Each operator returns a value and the place it stopped at.              *)
(***************************************************************************)
EXTENDS Naturals, Sequences

CONSTANT MaxNesting     \* VDF_MAX_DEPTH, of the parentheses

Symbol(e, i) == IF i \in DOMAIN e.text THEN e.text[i] ELSE "]"

RECURSIVE MakeExpression(_, _)

\* A parenthesis too deep is false and not read; what closes one is not looked at.
MakeFactor(e, i) ==
    IF Symbol(e, i) = "("
    THEN LET inner == IF e.depth < MaxNesting
                      THEN MakeExpression([e EXCEPT !.depth = @ + 1], i + 1)
                      ELSE [value |-> FALSE, next |-> i + 1]
         IN [inner EXCEPT !.next = @ + 1]
    ELSE [value |-> Symbol(e, i) = "t", next |-> IF Symbol(e, i) = "!" THEN i ELSE i + 1]

RECURSIVE NegatedFactors(_, _)
NegatedFactors(e, left) ==
    IF Symbol(e, left.next) # "!" THEN left
    ELSE LET factor == MakeFactor(e, left.next + 1)
         IN NegatedFactors(e, [factor EXCEPT !.value = ~@])
MakeTerm(e, i) == NegatedFactors(e, MakeFactor(e, i))

Apply(op, left, right) == IF op = "&" THEN left /\ right ELSE left \/ right

\* Mutant: the operators bind to the right.
RECURSIVE JoinedToTheRight(_, _)
JoinedToTheRight(e, left) ==
    IF Symbol(e, left.next) \notin {"&", "|"} THEN left
    ELSE LET right == JoinedToTheRight(e, MakeTerm(e, left.next + 1))
         IN [right EXCEPT !.value = Apply(Symbol(e, left.next), left.value, @)]

RECURSIVE JoinedTerms(_, _)
JoinedTerms(e, left) ==
    IF Symbol(e, left.next) \notin {"&", "|"} THEN left
    ELSE LET right == MakeTerm(e, left.next + 1)
         IN JoinedTerms(e, [right EXCEPT !.value = Apply(Symbol(e, left.next), left.value, @)])
MakeExpression(e, i) == JoinedTerms(e, MakeTerm(e, i))

EvaluateConditional(text) == MakeExpression([text |-> text, depth |-> 0], 1).value
=============================================================================
