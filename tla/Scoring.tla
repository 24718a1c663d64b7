------------------------------ MODULE Scoring ------------------------------
(***************************************************************************)
(* The evaluation of trees against the constraints of a specification, the *)
(* hard ones and the bounds of repetitions, into the number that makes a   *)
(* tree a solution; soft constraints are left out.                         *)
(***************************************************************************)
EXTENDS Constraints, Doubles

CONSTANTS
    Specifications, \* records [objects, hard, bounds], of which one is used:
                    \* constraints, which of them are those of the specification
                    \* (the others are their parts), and repetition bounds
    Trees,          \* the trees that are evaluated
    MaxTrees        \* bound: trees whose fitness is cached

ASSUME ScoringAssumption ==
    /\ MaxTrees \in Nat
    /\ \A tree \in Trees : tree \in Seq(Data)
    /\ \A s \in Specifications :
          /\ Len(s.objects) \in Nat /\ DOMAIN s.objects = 1..Len(s.objects)
          /\ AreObjects(s.objects)
          /\ s.hard \in Seq(1..Len(s.objects))

VARIABLES
    objects,        \* the constraints
    hard,           \* the hard constraints: positions in objects
    bounds,         \* the repetition bounds: [min, max]
    cache,          \* of the hard constraints and their parts
    last            \* the last evaluation: [tree, hard, bounds]: fitness

vars == <<objects, hard, bounds, cache, last>>

-----------------------------------------------------------------------------
Ratio(fit) == Over(OfNat(Number(fit)[1]), Number(fit)[2])

(* sum += fitness(), and then divided by how many there are.               *)
Mean(fits) ==
    LET sum[k \in 0..Len(fits)] ==
            IF k = 0 THEN Zero ELSE Plus2(sum[k - 1], Ratio(fits[k]))
    IN IF fits = <<>> THEN One ELSE Over(sum[Len(fits)], Len(fits))

(* Mutant: each kind of constraints counts as if there was no other.       *)
ShareOfKind(fits, total) == IF fits = <<>> THEN Zero ELSE Mean(fits)

(* What so many of the constraints contribute.                             *)
Share(fits, total) == Times(Over(Mean(fits), total), Len(fits))

(* The bounds count for nothing unless the hard constraints are satisfied. *)
Score(fits, boundsFits) ==
    LET total == Len(hard) + Len(bounds)
    IN IF total = 0 THEN Mean(fits)
       ELSE Plus2(Share(fits, total),
                  IF boundsFits = <<>> THEN Zero ELSE Share(boundsFits, total))

IsSolution(score) == AtLeast(score, One)

(* Each is called without a scope and without local variables.             *)
HardCalls == [k \in 1..Len(hard) |-> [part |-> hard[k], names |-> Names, node |-> 0]]

Evaluated(tree) ==
    Run(Fitness(objects, tree), HardCalls, FALSE, FALSE, [scope |-> Nothing, cache |-> cache])

BoundsFits(tree, fits) ==
    IF bounds # <<>> /\ Mean(fits) = One
    THEN [k \in DOMAIN bounds |-> BoundsFitness(bounds[k], tree)]
    ELSE <<>>

CachedTrees == {entry.key.tree : entry \in cache}

Init ==
    /\ \E s \in Specifications : objects = s.objects /\ hard = s.hard /\ bounds = s.bounds
    /\ cache = {}
    /\ last = None

EvaluateIndividual ==
    \E tree \in Trees :
        /\ tree \in CachedTrees \/ Count(CachedTrees) < MaxTrees
        /\ \E done \in {Evaluated(tree)} :
              /\ cache' = done.cache
              /\ last' = [tree |-> tree, hard |-> done.fits,
                          bounds |-> BoundsFits(tree, done.fits)]
        /\ UNCHANGED <<objects, hard, bounds>>

Next == EvaluateIndividual

Spec == Init /\ [][Next]_vars

-----------------------------------------------------------------------------
LastScore == Score(last.hard, last.bounds)

HoldsBounds(tree) == \A k \in DOMAIN bounds : BoundsFitness(bounds[k], tree).success

Satisfied(tree) ==
    /\ \A k \in DOMAIN hard : Holds(objects, tree)[hard[k]][Nothing]
    /\ HoldsBounds(tree)

ScopingOfHard(k) == ScopingOf(objects)[hard[k]]

(* A hard constraint succeeds iff it holds, whatever was evaluated before, *)
(* lazy or not, with the values other bindings have left in the caches.    *)
(* This is not so if a statement binds a name that it also uses outside of *)
(* the quantifier: the binding remains in the scope.                       *)
ChecksMeaning ==
    last # None => \A k \in DOMAIN hard :
        ScopingOfHard(k).apart =>
            last.hard[k].success = Holds(objects, last.tree)[hard[k]][Nothing]

(* The evaluator only looks at the number of a constraint: it is one for   *)
(* no tree that violates the constraint, and for every tree that satisfies *)
(* it and whose expressions can be evaluated.                              *)
PerfectMeansSatisfied ==
    last # None => \A k \in DOMAIN hard :
        LET perfect == Number(last.hard[k])[1] = Number(last.hard[k])[2]
        IN /\ perfect => last.hard[k].success
           /\ last.hard[k].success /\ Evaluable(ScopingOfHard(k), last.tree) => perfect

(* Nothing is a solution that violates a constraint or the bounds of a     *)
(* repetition, however the doubles are rounded.                            *)
SolutionsSatisfy ==
    last # None /\ (\A k \in DOMAIN hard : ScopingOfHard(k).apart)
        /\ ~Satisfied(last.tree) => ~IsSolution(LastScore)

(* "until all inputs satisfy the constraints": an evaluable tree that      *)
(* satisfies everything is a solution.                                     *)
SatisfiedIsSolution ==
    last # None /\ Satisfied(last.tree)
        /\ (\A k \in DOMAIN hard : ScopingOfHard(k).apart
                                   /\ Evaluable(ScopingOfHard(k), last.tree))
        => IsSolution(LastScore)

(* "failing_trees are required for mutations": a constraint that fails on  *)
(* a tree with items it can evaluate names a node to change, if each of    *)
(* its expressions has a search of its own.                                *)
FailureIsBlamed ==
    last # None /\ last.tree # <<>> =>
        \A k \in DOMAIN hard :
            /\ ScopingOfHard(k).searches
            /\ Evaluable(ScopingOfHard(k), last.tree)
            /\ ~last.hard[k].success
            => last.hard[k].failing # {}

(* "The inverted constraint should have the opposite logical meaning", if  *)
(* each of its expressions has one combination to evaluate: also with what *)
(* the antecedents they share have cached.                                 *)
InvertOpposes ==
    last # None => \A k \in DOMAIN hard :
        /\ ScopingOfHard(k).apart
        /\ Evaluable(ScopingOfHard(k), last.tree)
        /\ OneCombination(ScopingOfHard(k), last.tree)
        => LET inverse == Fitness(WithInverses(objects), last.tree)[Len(objects) + hard[k]]
           IN inverse[[scope |-> Nothing, cache |-> cache]].fit.success
                  = ~last.hard[k].success

=============================================================================
