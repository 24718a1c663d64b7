--------------------------- MODULE MCScoring -----------------------------
(***************************************************************************)
(* For TLC: constraints over <item>, over symbols <x> and <y>, and over an *)
(* identifier n that quantifiers bind; one of those alone, or some simple  *)
(* ones with bounds.                                                       *)
(***************************************************************************)
EXTENDS Scoring

Symbol(x) == [kind |-> "search", of |-> x]
Item == Symbol("item")
Local(n) == [kind |-> "local", of |-> n]
Literal(v) == [kind |-> "literal", of |-> v]

(* A constraint is the sequence of its objects, the last of which is it.   *)
Moved(os, n) ==
    [i \in DOMAIN os |-> [os[i] EXCEPT !.parts = [k \in DOMAIN @ |-> n + @[k]]]]

Atom(kind, op, left, right) ==
    <<[kind |-> kind, op |-> op, left |-> left, right |-> right, parts |-> <<>>]>>

Connect(kind, lazy, one, two) ==
    LET parts == <<Len(one), Len(one) + Len(two)>>
    IN one \o Moved(two, Len(one))
       \o <<IF kind = "implication" THEN [kind |-> kind, parts |-> parts]
            ELSE [kind |-> kind, lazy |-> lazy, parts |-> parts]>>

Quantified(kind, lazy, bound, statement) ==
    Append(statement, [kind |-> kind, lazy |-> lazy, bound |-> bound, search |-> "item",
                       parts |-> <<Len(statement)>>])

Connectives == {"conjunction", "disjunction", "implication"}
Quantifiers == {"exists", "forall"}

OfItem == {Atom("comparison", "==", Item, Literal(1)), Atom("expression", "<", Item, Literal(1)),
           Atom("comparison", ">=", Item, Item)}
OfX == {Atom("comparison", "==", Symbol("x"), Literal(1)), Atom("expression", "!=", Symbol("x"), Literal(0)),
        Atom("comparison", "<", Symbol("x"), Item)}
OfXY == {Atom("comparison", "==", Symbol("x"), Symbol("y")), Atom("expression", "<", Symbol("x"), Symbol("y"))}
OfN == {Atom("comparison", "==", Local("n"), Literal(0)), Atom("expression", "==", Local("n"), Literal(0))}

Lazy == BOOLEAN

OverX == {Quantified(q, lazy, "x", s) : q \in Quantifiers, lazy \in Lazy,
             s \in OfX \cup {Connect(k, l, a, b) : k \in Connectives, l \in Lazy, a \in OfX, b \in OfX}}

OverXY == {Quantified(q, lazy, "x", Connect(k, lazy, a, Quantified(r, lazy, "y", b))) :
              q \in Quantifiers, r \in Quantifiers, lazy \in Lazy, k \in Connectives,
              a \in OfX, b \in OfXY}

(* any(n == 0 for n in *<item>)                                            *)
OverN == {Quantified(q, FALSE, "n", a) : q \in Quantifiers, a \in OfN}

Rich ==
    OfItem \cup OverX \cup OverXY \cup OverN
    \cup {Connect(k, lazy, a, Quantified(q, lazy, "x", b)) :
             k \in Connectives, lazy \in Lazy, q \in Quantifiers, a \in OfItem, b \in OfX}

Bounds(min, max) == [min |-> min, max |-> max]
Specification(os, positions, bs) == [objects |-> os, hard |-> positions, bounds |-> bs]
Single(c, bs) == Specification(c, <<Len(c)>>, bs)

(* Atoms one after the other.                                              *)
Several(cs, bs) ==
    Specification([k \in DOMAIN cs |-> cs[k][1]], [k \in DOMAIN cs |-> k], bs)

Alone == {Single(c, <<>>) : c \in Rich}
Together ==
    {Several(cs, bs) :
        cs \in UNION {[1..h -> OfItem] : h \in 0..2},
        bs \in UNION {[1..r -> {Bounds(1, 1), Bounds(0, 2)}] : r \in 0..2}}

MCSpecifications == Alone \cup Together

(* Five times that all items are one, and a bound.                         *)
MCSixConstraints ==
    {Several([k \in 1..5 |-> Atom("comparison", "==", Item, Literal(1))], <<Bounds(0, 2)>>)}

MCTrees == UNION {[1..n -> {0, 1, Bad}] : n \in 0..2} \cup {<<1, 0, 1>>}
=============================================================================
