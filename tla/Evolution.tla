------------------------------ MODULE Evolution ------------------------------
(***************************************************************************)
(* The generator FandangoStrategy._generate_simple with its Evaluator and  *)
(* PopulationManager: a coroutine that refills, evaluates and evolves a    *)
(* population and yields each solution as it meets it, from deep inside    *)
(* these phases.  Its consumer may resume it, or drop it there and later   *)
(* call generate() again on the same strategy, whose caches and population *)
(* are as the dropped generator left them.                                 *)
(*                                                                         *)
(* An individual stands for a derivation tree up to its hash.  What random *)
(* choice and the diversity bonus decide is left open.                     *)
(***************************************************************************)
EXTENDS Naturals, Sequences, FiniteSets, SequencesExt

CONSTANTS
    Individuals,
    Strategies,        \* [soft: there are soft constraints, survivors:
                       \* int(population_size * (1 - destruction_rate))]
    Scores,            \* Scores[i]: the fitness, in percent, of i
    SoftScores,        \* SoftScores[i]: the values it may have with soft
                       \* constraints, which depend on what was seen before
    Fixed,             \* Fixed[i]: i after its suggested replacements
    ExpectedFitness,   \* expected_fitness, in percent
    PopulationSize,    \* population_size
    Elites,            \* int(elitism_rate * population_size)
    AttemptsPerSlot,   \* the factor 10 of refill_population
    NoLimit            \* max_generations is None

ASSUME EvolutionAssumption ==
    /\ IsFiniteSet(Individuals)
    /\ Strategies \subseteq [soft : BOOLEAN, survivors : 0..PopulationSize]
    /\ Scores \in [Individuals -> 0..100]
    /\ SoftScores \in [Individuals -> (SUBSET (0..100)) \ {{}}]
    /\ Fixed \in [Individuals -> Individuals]
    /\ ExpectedFitness \in 0..100
    /\ PopulationSize \in Nat \ {0}
    /\ Elites \in 0..PopulationSize
    /\ AttemptsPerSlot \in Nat \ {0}
    /\ NoLimit \notin Nat

VARIABLES
    strategy,     \* the settings of the FandangoStrategy
    cache,        \* Evaluator._fitness_cache: the individuals in it
    solved,       \* Evaluator._solution_set
    population,   \* FandangoStrategy.population
    evaluation,   \* FandangoStrategy.evaluation, without the fitness
    phase,        \* where the generator is; "idle" when there is none
    limit,        \* max_generations of the current call
    generation,   \* generations of the current call
    next,         \* the local new_population
    todo,         \* individuals the current phase has still to evaluate
    budget,       \* attempts left to the current loop
    suspended,    \* <<i>> while the generator is suspended at yielding i
    yielded       \* all that was ever yielded: a history variable

vars == <<strategy, cache, solved, population, evaluation, phase, limit, generation,
          next, todo, budget, suspended, yielded>>

evaluatorVars == <<strategy, cache, solved, suspended, yielded>>
callVars == <<limit, generation>>

Phases == {"idle", "fill_initial", "add_initial", "evaluate_initial", "select",
           "crossover", "mutate", "fill", "add", "fix", "evaluate", "key_error"}

TypeOK ==
    /\ strategy \in Strategies
    /\ cache \subseteq Individuals
    /\ solved \subseteq Individuals
    /\ population \in Seq(Individuals)
    /\ evaluation \in Seq(Individuals)
    /\ phase \in Phases
    /\ limit \in Nat \cup {NoLimit}
    /\ generation \in Nat
    /\ next \in Seq(Individuals)
    /\ todo \in Seq(Individuals)
    /\ budget \in Nat
    /\ suspended \in Seq(Individuals)
    /\ yielded \in Seq(Individuals)

Init ==
    /\ strategy \in Strategies
    /\ cache = {} /\ solved = {} /\ population = <<>> /\ evaluation = <<>>
    /\ phase = "idle" /\ limit = NoLimit /\ generation = 0
    /\ next = <<>> /\ todo = <<>> /\ budget = 0
    /\ suspended = <<>> /\ yielded = <<>>

Min2(a, b) == IF a <= b THEN a ELSE b

Deficit(list) == IF Len(list) < PopulationSize THEN PopulationSize - Len(list)
                                               ELSE 0

(* add_unique_individual.                                                  *)
AddUnique(list, i) == IF i \in ToSet(list) THEN list ELSE Append(list, i)

Idle == phase' = "idle" /\ next' = <<>> /\ todo' = <<>> /\ budget' = 0

-----------------------------------------------------------------------------
(* Evaluator.evaluate_individual, and the consumer's side of its yield.    *)

Evaluating == todo # <<>> /\ suspended = <<>>

Ready(p) == phase = p /\ todo = <<>>

phaseVars == <<population, evaluation, phase, callVars, next, budget>>

CacheHit ==
    /\ Evaluating
    /\ Head(todo) \in cache
    /\ todo' = Tail(todo)
    /\ UNCHANGED <<evaluatorVars, phaseVars>>

FitnessOf(i) == IF strategy.soft THEN SoftScores[i] ELSE {Scores[i]}

(* A solution seen for the first time is yielded before it is cached:      *)
(* solving are the fitness values for which the individual is yielded.     *)
CacheMissGiven(solving) ==
    /\ Evaluating
    /\ Head(todo) \notin cache
    /\ \E fitness \in FitnessOf(Head(todo)) :
          IF fitness \in solving
          THEN /\ solved' = solved \cup {Head(todo)}
               /\ suspended' = <<Head(todo)>>
               /\ yielded' = Append(yielded, Head(todo))
               /\ UNCHANGED <<cache, todo>>
          ELSE /\ cache' = cache \cup {Head(todo)}
               /\ todo' = Tail(todo)
               /\ UNCHANGED <<solved, suspended, yielded>>
    /\ UNCHANGED <<strategy, phaseVars>>

Unless(seen, solving) == IF seen THEN {} ELSE solving

Seen == Head(todo) \in solved

(* Mutant: the bound is exclusive.                                         *)
CacheMissExclusive ==
    CacheMissGiven(Unless(Seen, (ExpectedFitness + 1)..100))

CacheMiss == CacheMissGiven(Unless(Seen, ExpectedFitness..100))

Resume ==
    /\ suspended # <<>>
    /\ cache' = cache \cup ToSet(suspended)
    /\ suspended' = <<>>
    /\ todo' = Tail(todo)
    /\ UNCHANGED <<strategy, solved, yielded, phaseVars>>

(* The consumer drops the suspended generator.                             *)
Abandon ==
    /\ suspended # <<>>
    /\ suspended' = <<>>
    /\ Idle
    /\ UNCHANGED <<strategy, cache, solved, yielded, population, evaluation,
                   callVars>>

-----------------------------------------------------------------------------
(* _generate_simple.                                                       *)

Generate(maxGenerations) ==
    /\ phase = "idle"
    /\ limit' = maxGenerations
    /\ generation' = 0
    /\ next' = population
    /\ todo' = <<>>
    /\ IF Len(population) < PopulationSize
       THEN phase' = "fill_initial"
            /\ budget' = AttemptsPerSlot * Deficit(population)
       ELSE phase' = "select" /\ budget' = 0
    /\ UNCHANGED <<evaluatorVars, population, evaluation>>

(* refill_population: a generated individual is evaluated, fixed, and      *)
(* evaluated again; a duplicate costs an attempt.  The initial population  *)
(* is refilled in place.                                                   *)
Attempt(fill, add) ==
    /\ Ready(fill)
    /\ Len(next) < PopulationSize /\ budget > 0
    /\ \E i \in Individuals : todo' = <<i, Fixed[i]>> /\ next' = Append(next, Fixed[i])
    /\ phase' = add
    /\ UNCHANGED <<evaluatorVars, population, evaluation, callVars, budget>>

Candidate == Last(next)

(* Mutant: duplicates are not counted.                                     *)
AddFreely(add, fill) ==
    /\ Ready(add)
    /\ next' = AddUnique(Front(next), Candidate)
    /\ population' = IF add = "add_initial" THEN next' ELSE population
    /\ phase' = fill
    /\ UNCHANGED <<evaluatorVars, evaluation, callVars, todo, budget>>

Add(add, fill) ==
    /\ Ready(add)
    /\ next' = AddUnique(Front(next), Candidate)
    /\ budget' = IF Candidate \in ToSet(Front(next)) THEN budget - 1 ELSE budget
    /\ population' = IF add = "add_initial" THEN next' ELSE population
    /\ phase' = fill
    /\ UNCHANGED <<evaluatorVars, evaluation, callVars, todo>>

FillInitial == Attempt("fill_initial", "add_initial")
AddInitial == Add("add_initial", "fill_initial")
Fill == Attempt("fill", "add")
AddFilled == Add("add", "fill")

Filled == Len(next) >= PopulationSize \/ budget = 0

InitialFilled ==
    /\ Ready("fill_initial")
    /\ Filled
    /\ phase' = "evaluate_initial"
    /\ todo' = population
    /\ UNCHANGED <<evaluatorVars, population, evaluation, callVars, next, budget>>

(* The first n of a list sorted by fitness and diversity bonus.            *)
Fittest(list, n) ==
    {[k \in 1..Cardinality(K) |-> list[SetToSeq(K)[k]]] :
        K \in kSubset(Min2(n, Len(list)), DOMAIN list)}

InitialEvaluated ==
    /\ Ready("evaluate_initial")
    /\ evaluation' = population
    /\ phase' = "select"
    /\ UNCHANGED <<evaluatorVars, population, callVars, next, todo, budget>>

Exhausted ==
    /\ Ready("select")
    /\ generation = limit
    /\ Idle
    /\ UNCHANGED <<evaluatorVars, population, evaluation, callVars>>

Select ==
    /\ Ready("select")
    /\ generation # limit
    /\ generation' = IF limit = NoLimit THEN generation ELSE generation + 1
    /\ next' \in Fittest(evaluation, Elites)
    /\ budget' = PopulationSize
    /\ phase' = "crossover"
    /\ UNCHANGED <<evaluatorVars, population, evaluation, limit, todo>>

(* Two parents give two children, of which the too large ones are dropped. *)
Crossover ==
    /\ Ready("crossover")
    /\ Len(next) < PopulationSize /\ budget > 0
    /\ Len(evaluation) >= 2
    /\ \E c, d \in Individuals : \E children \in {<<c>>, <<c, d>>} :
          /\ todo' = children
          /\ LET one == AddUnique(next, c) IN
             next' = IF Len(children) = 2 /\ Len(one) < PopulationSize
                     THEN AddUnique(one, d) ELSE one
    /\ budget' = budget - 1
    /\ UNCHANGED <<evaluatorVars, population, evaluation, phase, callVars>>

CrossoverDone ==
    /\ Ready("crossover")
    /\ phase' = "mutate"
    /\ next' = SubSeq(next, 1, Min2(Len(next), PopulationSize))
    /\ UNCHANGED <<evaluatorVars, population, evaluation, callVars, todo, budget>>

(* What destruction may leave of the individuals of a list: it cuts the    *)
(* list, in which an individual may occur more than once.                  *)
Destroyed(S) ==
    LET n == strategy.survivors IN
    IF n = PopulationSize THEN {S}
    ELSE {K \in SUBSET S : Cardinality(K) \in Min2(1, n)..n}

(* compute_mutation_pool looks every individual up in the cache; then some *)
(* of the pool give a mutated individual each, which is not evaluated; and *)
(* destruction and list(set(...)) reduce the population.                   *)
Mutate ==
    /\ Ready("mutate")
    /\ ToSet(next) \subseteq cache
    /\ \E mutated \in {M \in SUBSET Individuals : Cardinality(M) <= Len(next)} :
          \E kept \in Destroyed(ToSet(next) \cup mutated) : next' \in SetToSeqs(kept)
    /\ phase' = "fill"
    /\ budget' = AttemptsPerSlot * Deficit(next')
    /\ UNCHANGED <<evaluatorVars, population, evaluation, callVars, todo>>

MutationPoolRaises ==
    /\ Ready("mutate")
    /\ ~(ToSet(next) \subseteq cache)
    /\ phase' = "key_error"
    /\ UNCHANGED <<evaluatorVars, population, evaluation, callVars, next, todo,
                   budget>>

RefillDone ==
    /\ Ready("fill")
    /\ Filled
    /\ phase' = "fix"
    /\ population' = <<>>
    /\ todo' = <<Head(next)>>
    /\ UNCHANGED <<evaluatorVars, evaluation, callVars, next, budget>>

FixOne(flushed) ==
    /\ Ready("fix")
    /\ LET n == Len(population) + 1 IN
       /\ population' = Append(population, Fixed[next[n]])
       /\ IF n < Len(next)
          THEN todo' = <<next[n + 1]>> /\ UNCHANGED <<phase, cache>>
          ELSE todo' = population' /\ phase' = "evaluate" /\ cache' = flushed
    /\ UNCHANGED <<strategy, suspended, yielded, evaluation, callVars, next,
                   budget>>

(* Mutants: the cache is always flushed; the solutions are flushed too.    *)
FixAndFlush == FixOne({}) /\ UNCHANGED solved

FixAndForget ==
    /\ FixOne(IF strategy.soft THEN {} ELSE cache)
    /\ solved' = IF strategy.soft /\ phase' = "evaluate" THEN {} ELSE solved

(* The individual just evaluated is fixed and joins the population; after  *)
(* the last one, soft constraints flush the cache.                         *)
Fix == FixOne(IF strategy.soft THEN {} ELSE cache) /\ UNCHANGED solved

Evaluated ==
    /\ Ready("evaluate")
    /\ evaluation' \in Fittest(population, PopulationSize)
    /\ phase' = "select"
    /\ UNCHANGED <<evaluatorVars, population, callVars, next, todo, budget>>

Evolve == \/ CacheHit \/ CacheMiss
          \/ FillInitial \/ AddInitial \/ InitialFilled \/ InitialEvaluated
          \/ Exhausted \/ Select \/ Crossover \/ CrossoverDone \/ Mutate
          \/ Fill \/ AddFilled \/ RefillDone \/ Fix \/ Evaluated

Evolving == Evolve \/ MutationPoolRaises

-----------------------------------------------------------------------------
(* Properties.                                                             *)

(* No solution is yielded twice: not by two phases of one generator, not   *)
(* by a second generator after the first was dropped, not after a flush.   *)
SolutionsDistinct == IsInjective(yielded)

(* Solutions found are not lost: what is in the cache with the expected    *)
(* fitness has been yielded, also when the yield was the last thing the    *)
(* generator did.                                                          *)
SolutionsNotLost ==
    \A i \in cache : (\A f \in FitnessOf(i) : f >= ExpectedFitness)
                        => i \in ToSet(yielded)

(* The individuals selection can draw elites from are in the cache when    *)
(* the mutation pool looks up their fitness.                               *)
NoKeyError == phase # "key_error"

(* A generator always comes to yield, to end or, if its generations are    *)
(* not limited, to the next one: refilling gives up when it finds no new   *)
(* individual, and crossover when it gives no new child.                   *)
GeneratorProgresses ==
    phase # "idle" ~> \/ suspended # <<>>
                      \/ phase \in {"idle", "key_error"}
                      \/ limit = NoLimit /\ phase = "select"

=============================================================================
