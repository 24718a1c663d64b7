---------------------------- MODULE Constraints ----------------------------
(***************************************************************************)
(* The constraints of a specification: how comparisons, expressions,       *)
(* connectives and quantifiers compute a fitness from those of their       *)
(* parts, each with a cache, and what a constraint means.                  *)
(*                                                                         *)
(* A tree is the sequence of the values of its items, and a node is an     *)
(* index into it; searches find the items, or what a quantifier bound to   *)
(* their name.  An expression compares two operands, and raises an         *)
(* exception where one of them is Bad.  Suggestions are left out.          *)
(*                                                                         *)
(* Constraints are objects: a sequence of them, in which each refers to    *)
(* its parts by their positions, and comes after them.                     *)
(***************************************************************************)
EXTENDS Integers, Sequences, FiniteSets

CONSTANTS
    None,
    Bad,            \* a value on which expressions raise
    Data,           \* the values of items, Bad among them
    Symbols,        \* the nonterminals, which a scope binds
    Locals          \* the names of local variables

ASSUME ConstraintsAssumption ==
    /\ Bad \in Data
    /\ Data \ {Bad} \subseteq Int
    /\ Symbols \cap Locals = {}
    /\ None \notin Nat \X Nat

Names == Symbols \cup Locals

Count(S) == Cardinality(S)
ItemsOf(s) == {s[k] : k \in DOMAIN s}

-----------------------------------------------------------------------------
(* Objects.                                                                *)

Operators == {"==", "!=", "<", ">="}
Atomic == {"comparison", "expression"}
Connective == {"conjunction", "disjunction", "implication"}
Quantifier == {"exists", "forall"}

Operands ==
    [kind : {"search"}, of : Symbols] \cup [kind : {"local"}, of : Locals]
        \cup [kind : {"literal"}, of : Data \ {Bad}]

(* An implication has its antecedent and its consequent for parts, and a   *)
(* quantifier its statement.                                               *)
IsObject(c) ==
    \/ c \in [kind : Atomic, op : Operators, left : Operands, right : Operands,
              parts : {<<>>}]
    \/ c \in [kind : {"conjunction", "disjunction"}, lazy : BOOLEAN, parts : Seq(Nat)]
       /\ c.parts # <<>>
    \/ c \in [kind : {"implication"}, parts : Seq(Nat)] /\ Len(c.parts) = 2
    \/ c \in [kind : Quantifier, lazy : BOOLEAN, bound : Names, search : Symbols,
              parts : Seq(Nat)]
       /\ Len(c.parts) = 1

AreObjects(os) ==
    \A i \in DOMAIN os : IsObject(os[i]) /\ ItemsOf(os[i].parts) \subseteq 1..(i - 1)

-----------------------------------------------------------------------------
(* A scope, with the local variables, gives the node that is bound to a    *)
(* name, or 0.                                                             *)

Scopes(tree) == [Names -> 0..Len(tree)]

Nothing == [x \in Names |-> 0]

BoundIn(scope) == {x \in Names : scope[x] # 0}

Values(scope, tree) == {<<x, tree[scope[x]]>> : x \in BoundIn(scope)}

Find(name, tree, scope) ==
    IF scope[name] # 0 THEN <<scope[name]>> ELSE [n \in 1..Len(tree) |-> n]

(* The combinations of what the searches of both sides find; an operand    *)
(* without a search has none to offer, and 0 stands for that.              *)
Found(o, tree, scope) ==
    IF o.kind = "search" THEN ItemsOf(Find(o.of, tree, scope)) ELSE {0}

Combinations(c, tree, scope) ==
    Found(c.left, tree, scope) \X Found(c.right, tree, scope)

Value(o, n, tree, scope) ==
    CASE o.kind = "search"  -> tree[n]
      [] o.kind = "local"   -> IF scope[o.of] # 0 THEN tree[scope[o.of]] ELSE Bad
      [] o.kind = "literal" -> o.of

Compare(op, left, right) ==
    CASE op = "==" -> left = right
      [] op = "!=" -> left # right
      [] op = "<"  -> left < right
      [] op = ">=" -> left >= right

(* "true", "false" or "raises"                                             *)
Eval(c, combination, tree, scope) ==
    LET left  == Value(c.left, combination[1], tree, scope)
        right == Value(c.right, combination[2], tree, scope)
    IN IF Bad \in {left, right} THEN "raises"
       ELSE IF Compare(c.op, left, right) THEN "true" ELSE "false"

Having(c, result, tree, scope) ==
    {n \in Combinations(c, tree, scope) : Eval(c, n, tree, scope) = result}

Nodes(combinations) == (UNION {{n[1], n[2]} : n \in combinations}) \ {0}

-----------------------------------------------------------------------------
(* A fitness: the numbers, the verdict and the failing trees.  That of a   *)
(* comparison is an average of values, of which fit.values[1] of           *)
(* fit.values[2] are one and the others zero.                              *)

Fits == [solved : Nat, total : Nat, success : BOOLEAN, failing : SUBSET Nat,
         values : {None} \cup (Nat \X Nat)]

Plain(solved, total, success, failing) ==
    [solved |-> solved, total |-> total, success |-> success,
     failing |-> failing, values |-> None]

DistanceAware(ones, of, failing) ==
    [solved |-> ones, total |-> of, success |-> ones = of,
     failing |-> failing, values |-> <<ones, of>>]

(* Mutant: the failing trees are not copied.                               *)
CopyNumbers(fit) == [fit EXCEPT !.failing = {}]

(* A copy of an average computes solved and total from its values again.   *)
Copy(fit) ==
    IF fit.values = None THEN fit
    ELSE [fit EXCEPT !.solved = fit.values[1], !.total = fit.values[2]]

(* fitness(), as a numerator and a denominator; 0 if there is nothing.     *)
Number(fit) ==
    LET n == IF fit.values = None THEN <<fit.solved, fit.total>> ELSE fit.values
    IN IF n[2] = 0 THEN <<0, 1>> ELSE n

ComparisonFitness(c, tree, scope) ==
    LET ones == Count(Having(c, "true", tree, scope))
        zeros == Having(c, "false", tree, scope)
    IN IF Combinations(c, tree, scope) = {} THEN DistanceAware(1, 1, {})
       ELSE DistanceAware(ones, ones + Count(zeros), Nodes(zeros))

ExpressionFitness(c, tree, scope) ==
    LET all == Combinations(c, tree, scope)
        solved == Count(Having(c, "true", tree, scope))
    IN IF all = {} THEN Plain(1, 1, TRUE, {})
       ELSE Plain(solved, Count(all), solved = Count(all),
                  Nodes(Having(c, "false", tree, scope)))

(* The items are the iterations of a repetition with computed bounds.      *)
BoundsFitness(b, tree) ==
    LET solved == tree = <<>> \/ Len(tree) \in b.min..b.max
    IN Plain(IF solved THEN 1 ELSE 0, 1, solved, IF solved THEN {} ELSE {0})

SumOf(numbers) ==
    LET sum[k \in 0..Len(numbers)] == IF k = 0 THEN 0 ELSE sum[k - 1] + numbers[k]
    IN sum[Len(numbers)]

Solved(fits) == SumOf([k \in 1..Len(fits) |-> fits[k].solved])
Total(fits) == SumOf([k \in 1..Len(fits) |-> fits[k].total])

AllSucceed(fits) == \A k \in 1..Len(fits) : fits[k].success
AnySucceeds(fits) == \E k \in 1..Len(fits) : fits[k].success
Failing(fits) == UNION {fits[k].failing : k \in 1..Len(fits)}

(* A connective of one part only passes it on; all others count one more.  *)
Extra(c) == IF Len(c.parts) > 1 \/ c.kind \in Quantifier THEN 1 ELSE 0

Conjunction(fits, extra) ==
    Plain(Solved(fits) + (IF AllSucceed(fits) THEN extra ELSE 0),
          Total(fits) + extra, AllSucceed(fits), Failing(fits))

(* Mutant: one more is solved, as for a conjunction.                       *)
PerfectIfOneMore(success, fits, extra) ==
    Plain(Solved(fits) + (IF success THEN extra ELSE 0),
          Total(fits) + extra, success, Failing(fits))

(* What disjunctions and quantifiers make of their parts.                  *)
PerfectIf(success, fits, extra) ==
    Plain(IF success /\ extra = 1 THEN Total(fits) + 1 ELSE Solved(fits),
          Total(fits) + extra, success, Failing(fits))

(* The consequent's, of which one more counts.                             *)
Consequent(fit) ==
    LET copied == Copy(fit)
    IN [copied EXCEPT !.total = @ + 1, !.solved = IF fit.success THEN @ + 1 ELSE @]

-----------------------------------------------------------------------------
(* Evaluation of an object is a function of a state [scope, cache]; it     *)
(* returns that with its fitness, leaving what it has cached and, a scope  *)
(* being shared, what it has bound.  A cache of the model is the caches of *)
(* all objects.                                                            *)

(* Mutant: what is bound is not part of the key.                           *)
KeyOfTree(i, tree, scope) == [of |-> i, tree |-> tree, values |-> {}]

Key(i, tree, scope) == [of |-> i, tree |-> tree, values |-> Values(scope, tree)]

Entries ==
    [key : [of : Nat, tree : Seq(Data), values : SUBSET (Names \X Data)], fit : Fits]

States(tree) == [scope : Scopes(tree), cache : SUBSET Entries]

Result(fit, st) == [fit |-> fit, scope |-> st.scope, cache |-> st.cache]

(* A call of a part binds names before.                                    *)
Entered(scope, call) ==
    [x \in Names |-> IF x \in call.names THEN call.node ELSE scope[x]]

(* Calls, one after the other; lazily, until one succeeds, or fails.       *)
Run(parts, calls, lazy, enough, st) ==
    LET run[k \in 0..Len(calls)] ==
            IF k = 0 THEN [fits |-> <<>>, scope |-> st.scope, cache |-> st.cache,
                           stop |-> FALSE]
            ELSE LET before == run[k - 1]
                     call == calls[k]
                     done == parts[call.part][[scope |-> Entered(before.scope, call),
                                               cache |-> before.cache]]
                 IN IF before.stop THEN before
                    ELSE [fits |-> Append(before.fits, done.fit), scope |-> done.scope,
                          cache |-> done.cache, stop |-> lazy /\ done.fit.success = enough]
    IN run[Len(calls)]

RunParts(c, parts, enough, st) ==
    Run(parts, [k \in 1..Len(c.parts) |-> [part |-> k, names |-> {}, node |-> 0]],
        c.lazy, enough, st)

SameKind(x) == IF x \in Symbols THEN Symbols ELSE Locals

(* The statement for each container that the search finds.  An empty scope *)
(* is replaced by a new one, and any other is written to; local variables  *)
(* are treated alike.                                                      *)
RunInstances(c, tree, parts, enough, st) ==
    LET found == Find(c.search, tree, st.scope)
        done == Run(parts, [k \in 1..Len(found) |-> [part |-> 1, names |-> {c.bound},
                                                     node |-> found[k]]],
                    c.lazy, enough, st)
    IN [done EXCEPT !.scope = [x \in Names |-> IF SameKind(x) \cap BoundIn(st.scope) = {}
                                               THEN 0 ELSE @[x]]]

Computed(c, tree, parts, st) ==
    CASE c.kind = "comparison" -> Result(ComparisonFitness(c, tree, st.scope), st)
      [] c.kind = "expression" -> Result(ExpressionFitness(c, tree, st.scope), st)
      [] c.kind = "conjunction" ->
            LET done == RunParts(c, parts, FALSE, st)
            IN Result(Conjunction(done.fits, Extra(c)), done)
      [] c.kind = "disjunction" ->
            LET done == RunParts(c, parts, TRUE, st)
            IN Result(PerfectIf(AnySucceeds(done.fits), done.fits, Extra(c)), done)
      [] c.kind = "implication" ->
            LET if == parts[1][st]
                then == parts[2][[scope |-> if.scope, cache |-> if.cache]]
            IN IF if.fit.success THEN Result(Consequent(then.fit), then)
               ELSE Result(Plain(1, 1, TRUE, {}), if)
      [] c.kind = "exists" ->
            LET done == RunInstances(c, tree, parts, TRUE, st)
            IN Result(PerfectIf(AnySucceeds(done.fits), done.fits, Extra(c)), done)
      [] c.kind = "forall" ->
            LET done == RunInstances(c, tree, parts, FALSE, st)
            IN Result(PerfectIf(AllSucceed(done.fits), done.fits, Extra(c)), done)

Evaluation(i, c, tree, parts) ==
    [st \in States(tree) |->
        LET key == Key(i, tree, st.scope)
            known == {entry \in st.cache : entry.key = key}
            done == Computed(c, tree, parts, st)
        IN IF known # {} THEN Result(Copy((CHOOSE entry \in known : TRUE).fit), st)
           ELSE [done EXCEPT !.cache = @ \cup {[key |-> key, fit |-> done.fit]}]]

Fitness(os, tree) ==
    LET fitness[i \in DOMAIN os] ==
            Evaluation(i, os[i], tree, [k \in 1..Len(os[i].parts) |-> fitness[os[i].parts[k]]])
    IN fitness

-----------------------------------------------------------------------------
Opposite == [op \in Operators |->
                CASE op = "==" -> "!=" [] op = "!=" -> "=="
                  [] op = "<"  -> ">=" [] op = ">=" -> "<"]

(* Mutant: De Morgan forgotten.                                            *)
DualOfParts(kind) == IF kind = "exists" THEN "forall"
                     ELSE IF kind = "forall" THEN "exists" ELSE kind

Dual(kind) == CASE kind = "conjunction" -> "disjunction"
                [] kind = "disjunction" -> "conjunction"
                [] kind = "exists" -> "forall"
                [] kind = "forall" -> "exists"

(* What the object becomes, the inverses of its parts being n further on.  *)
(* Inverting the expression wraps it into a not, which is the opposite     *)
(* operator for one that compares; the antecedent is not copied.           *)
Inverted(c, n) ==
    CASE c.kind \in Atomic -> [c EXCEPT !.op = Opposite[@]]
      [] c.kind = "implication" ->
            [kind |-> "conjunction", lazy |-> FALSE,
             parts |-> <<c.parts[1], n + c.parts[2]>>]
      [] OTHER -> [c EXCEPT !.kind = Dual(@),
                            !.parts = [k \in 1..Len(@) |-> n + @[k]]]

(* The objects and, after them, their inverses.                            *)
WithInverses(os) ==
    [i \in 1..(2 * Len(os)) |-> IF i <= Len(os) THEN os[i]
                                ELSE Inverted(os[i - Len(os)], Len(os))]

-----------------------------------------------------------------------------
(* What an object says of a tree, in the words of logic: symbols that are  *)
(* not bound are universally quantified; a comparison says nothing of what *)
(* it can not evaluate, and an expression denies it.                       *)

With(scope, x, n) == [scope EXCEPT ![x] = n]

Meaning(c, tree, parts) ==
    [scope \in Scopes(tree) |->
        CASE c.kind = "comparison" -> Having(c, "false", tree, scope) = {}
          [] c.kind = "expression" ->
                Combinations(c, tree, scope) = Having(c, "true", tree, scope)
          [] c.kind = "conjunction" -> \A k \in DOMAIN parts : parts[k][scope]
          [] c.kind = "disjunction" -> \E k \in DOMAIN parts : parts[k][scope]
          [] c.kind = "implication" -> parts[1][scope] => parts[2][scope]
          [] c.kind = "exists" -> \E n \in ItemsOf(Find(c.search, tree, scope)) :
                                     parts[1][With(scope, c.bound, n)]
          [] c.kind = "forall" -> \A n \in ItemsOf(Find(c.search, tree, scope)) :
                                     parts[1][With(scope, c.bound, n)]]

Holds(os, tree) ==
    LET holds[i \in DOMAIN os] ==
            Meaning(os[i], tree, [k \in 1..Len(os[i].parts) |-> holds[os[i].parts[k]]])
    IN holds

(* The names that an object                                                *)
(*   free     takes from the outside,                                      *)
(*   open     takes from the outside for the operands of its expressions,  *)
(*   bound    binds;                                                       *)
(* and if                                                                  *)
(*   searches each of its expressions has a search,                        *)
(*   apart    no statement binds a name that it also takes from outside.   *)
SearchedIn(c) == {o.of : o \in {p \in {c.left, c.right} : p.kind = "search"}}
UsedIn(c) == {o.of : o \in {p \in {c.left, c.right} : p.kind = "local"}}

Scoping(c, parts) ==
    CASE c.kind \in Atomic ->
            [free |-> SearchedIn(c) \cup UsedIn(c), open |-> SearchedIn(c), bound |-> {},
             searches |-> SearchedIn(c) # {}, apart |-> TRUE]
      [] c.kind \in Connective ->
            [free |-> UNION {parts[k].free : k \in DOMAIN parts},
             open |-> UNION {parts[k].open : k \in DOMAIN parts},
             bound |-> UNION {parts[k].bound : k \in DOMAIN parts},
             searches |-> \A k \in DOMAIN parts : parts[k].searches,
             apart |-> \A k \in DOMAIN parts : parts[k].apart]
      [] c.kind \in Quantifier ->
            [free |-> {c.search} \cup (parts[1].free \ {c.bound}),
             open |-> parts[1].open \ {c.bound},
             bound |-> parts[1].bound \cup {c.bound},
             searches |-> parts[1].searches,
             apart |-> parts[1].apart /\ parts[1].bound \cap parts[1].free = {}]

ScopingOf(os) ==
    LET scoping[i \in DOMAIN os] ==
            Scoping(os[i], [k \in 1..Len(os[i].parts) |-> scoping[os[i].parts[k]]])
    IN scoping

(* An object can be evaluated on a tree if nothing is Bad, and its local   *)
(* variables are those of its quantifiers.                                 *)
Evaluable(scoping, tree) ==
    Bad \notin ItemsOf(tree) /\ scoping.free \cap Locals = {}

(* Each expression has one combination to evaluate.                        *)
OneCombination(scoping, tree) == Len(tree) = 1 \/ scoping.open = {}

=============================================================================
