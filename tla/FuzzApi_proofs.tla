---------------------------- MODULE FuzzApi_proofs ----------------------------
(***************************************************************************)
(* The safety of fuzz() and generate_solutions(), for every population     *)
(* size, every fitness and any number of calls.                            *)
(***************************************************************************)
EXTENDS FuzzApi, FiniteSetTheorems, SequenceTheorems, TLAPS

(* What an evaluation, a refill and the end of a generator rest on.        *)
InPhase ==
    /\ phase = "idle" => todo = <<>>
    /\ suspended # <<>> => todo # <<>> /\ suspended = <<Head(todo)>>
    /\ phase \in {"add", "add_initial"} => budget > 0 /\ next # <<>>
    /\ phase = "fill" => next # <<>> \/ budget > 0
    /\ phase = "fix" => Len(population) < Len(next)
    /\ call = "start" => phase = "idle" /\ population = <<>> /\ evaluation = <<>>
                         /\ solutions = <<>> /\ yielded = <<>>
    /\ call \in {"returned", "raised"} => phase = "idle"

(* What was yielded is what was found, and what is suspended was found.    *)
YieldedIsSolved ==
    /\ solved = ToSet(yielded)
    /\ ToSet(suspended) \subseteq solved

(* While the cache cannot have been flushed under a dropped generator, it  *)
(* holds what was evaluated, or what the phase still has to evaluate.      *)
Unflushed == ~strategy.soft \/ call # "stream"

EvaluatedIsCached ==
    Unflushed =>
        /\ phase = "select" \/ ~strategy.soft => ToSet(evaluation) \subseteq cache
        /\ phase \in {"crossover", "mutate"}
              => ToSet(next) \subseteq cache \cup ToSet(todo)
        /\ phase \in {"evaluate_initial", "evaluate"}
              => ToSet(population) \subseteq cache \cup ToSet(todo)
        /\ phase # "key_error"

(* The list of fuzz() is what was yielded, the last one perhaps not taken. *)
SolutionsCollected ==
    call = "take" =>
        /\ IF settings.infinite THEN solutions = <<>>
                                ELSE solutions \o suspended = yielded
        /\ settings.desired # NoLimit =>
              /\ Len(yielded) <= settings.desired
              /\ phase # "idle" /\ suspended = <<>> => Len(yielded) < settings.desired

IInv == /\ ApiTypeOK
        /\ InPhase
        /\ YieldedIsSolved
        /\ SolutionsDistinct
        /\ SolutionsNotLost
        /\ EvaluatedIsCached
        /\ SolutionsCollected
        /\ ReturnsSolutions
        /\ FailsIffMissing

-----------------------------------------------------------------------------
(* Lists of individuals.                                                   *)

LEMMA ToSetType ==
    ASSUME NEW S, NEW s \in Seq(S)
    PROVE  ToSet(s) \subseteq S
BY DEF ToSet

LEMMA ToSetEmpty == ToSet(<<>>) = {}
BY DEF ToSet

LEMMA ToSetSingle ==
    ASSUME NEW S, NEW e \in S
    PROVE  ToSet(<<e>>) = {e}
BY DEF ToSet

LEMMA ToSetPair ==
    ASSUME NEW S, NEW e \in S, NEW f \in S
    PROVE  ToSet(<<e, f>>) = {e, f}
<1>1. DOMAIN <<e, f>> = {1, 2}
    OBVIOUS
<1> QED
    BY <1>1 DEF ToSet

LEMMA ToSetAppend ==
    ASSUME NEW S, NEW s \in Seq(S), NEW e \in S
    PROVE  ToSet(Append(s, e)) = ToSet(s) \cup {e}
<1>1. \A k \in 1..Len(s) : Append(s, e)[k] = s[k]
    OBVIOUS
<1>2. Append(s, e)[Len(s) + 1] = e /\ DOMAIN Append(s, e) = 1..(Len(s) + 1)
    OBVIOUS
<1>3. ToSet(Append(s, e)) \subseteq ToSet(s) \cup {e}
    BY <1>1, <1>2 DEF ToSet
<1>4. ToSet(s) \subseteq ToSet(Append(s, e))
    BY <1>1, <1>2 DEF ToSet
<1>5. e \in ToSet(Append(s, e))
    <2>1. Len(s) + 1 \in DOMAIN Append(s, e)
        OBVIOUS
    <2> QED
        BY <1>2, <2>1 DEF ToSet
<1> QED
    BY <1>3, <1>4, <1>5

(* What is left to do when the first of a list is done.                    *)
LEMMA ToSetHeadTail ==
    ASSUME NEW S, NEW s \in Seq(S), s # <<>>
    PROVE  /\ Head(s) \in S
           /\ Tail(s) \in Seq(S)
           /\ ToSet(s) = {Head(s)} \cup ToSet(Tail(s))
<1>1. /\ Head(s) \in S /\ Tail(s) \in Seq(S)
      /\ Len(Tail(s)) = Len(s) - 1 /\ Len(s) \in Nat \ {0}
      /\ Head(s) = s[1]
      /\ \A i \in 1..Len(Tail(s)) : Tail(s)[i] = s[i + 1]
    BY HeadTailProperties
<1>2. ToSet(Tail(s)) \subseteq ToSet(s)
    BY <1>1 DEF ToSet
<1>3. Head(s) \in ToSet(s)
    BY <1>1 DEF ToSet
<1>4. ASSUME NEW i \in 1..Len(s) PROVE s[i] \in {Head(s)} \cup ToSet(Tail(s))
    <2>1. CASE i = 1
        BY <2>1, <1>1
    <2>2. CASE i # 1
        <3>1. i - 1 \in 1..Len(Tail(s)) /\ Tail(s)[i - 1] = s[i]
            BY <1>1, <2>2
        <3>2. DOMAIN Tail(s) = 1..Len(Tail(s))
            BY <1>1
        <3>3. Tail(s)[i - 1] \in ToSet(Tail(s))
            BY <3>1, <3>2 DEF ToSet
        <3> QED
            BY <3>1, <3>3
    <2> QED
        BY <2>1, <2>2
<1> QED
    BY <1>1, <1>2, <1>3, <1>4 DEF ToSet

LEMMA ToSetBeginning ==
    ASSUME NEW S, NEW s \in Seq(S), NEW n \in 0..Len(s)
    PROVE  /\ SubSeq(s, 1, n) \in Seq(S)
           /\ ToSet(SubSeq(s, 1, n)) \subseteq ToSet(s)
<1>1. /\ SubSeq(s, 1, n) \in Seq(S) /\ Len(SubSeq(s, 1, n)) = n
      /\ \A i \in 1..n : SubSeq(s, 1, n)[i] = s[i]
    OBVIOUS
<1> QED
    BY <1>1 DEF ToSet

(* The choice of a listing of a finite set.                                *)
LEMMA SetToSeqType ==
    ASSUME NEW S, IsFiniteSet(S)
    PROVE  /\ Cardinality(S) \in Nat
           /\ SetToSeq(S) \in [1..Cardinality(S) -> S]
<1>1. Cardinality(S) \in Nat /\ ExistsBijection(1..Cardinality(S), S)
    BY FS_CardinalityType
<1>2. \E f \in [1..Cardinality(S) -> S] : IsInjective(f)
    BY <1>1 DEF ExistsBijection, Bijection, Injection, IsInjective
<1> QED
    BY <1>1, <1>2 DEF SetToSeq

LEMMA SetToSeqsType ==
    ASSUME NEW S, NEW K, K \subseteq S, IsFiniteSet(K), NEW s \in SetToSeqs(K)
    PROVE  s \in Seq(S)
<1>1. Cardinality(K) \in Nat
    BY FS_CardinalityType
<1>2. s \in [1..Cardinality(K) -> K]
    BY DEF SetToSeqs
<1> QED
    BY <1>1, <1>2, SeqDef

(* The fittest are individuals of the list they are taken from.            *)
LEMMA FittestType ==
    ASSUME NEW list \in Seq(Individuals), NEW n \in Nat,
           NEW s \in Fittest(list, n)
    PROVE  s \in Seq(Individuals) /\ ToSet(s) \subseteq ToSet(list)
<1>1. PICK K \in kSubset(Min2(n, Len(list)), DOMAIN list) :
          s = [k \in 1..Cardinality(K) |-> list[SetToSeq(K)[k]]]
    BY DEF Fittest
<1>2. K \subseteq 1..Len(list)
    BY DEF kSubset
<1>3. IsFiniteSet(K)
    <2>1. IsFiniteSet(1..Len(list))
        BY FS_Interval
    <2> QED
        BY <1>2, <2>1, FS_Subset
<1>4. Cardinality(K) \in Nat /\ SetToSeq(K) \in [1..Cardinality(K) -> K]
    BY <1>3, SetToSeqType
<1>5. \A k \in 1..Cardinality(K) :
          SetToSeq(K)[k] \in 1..Len(list) /\ s[k] = list[SetToSeq(K)[k]]
    BY <1>1, <1>2, <1>4
<1>6. s \in [1..Cardinality(K) -> Individuals]
    BY <1>1, <1>5
<1>7. s \in Seq(Individuals)
    BY <1>4, <1>6, SeqDef
<1> QED
    BY <1>4, <1>5, <1>6, <1>7 DEF ToSet

LEMMA AddUniqueType ==
    ASSUME NEW list \in Seq(Individuals), NEW i \in Individuals
    PROVE  /\ AddUnique(list, i) \in Seq(Individuals)
           /\ ToSet(AddUnique(list, i)) = ToSet(list) \cup {i}
           /\ AddUnique(list, i) # <<>>
<1>1. CASE i \in ToSet(list)
    <2>1. list # <<>>
        BY <1>1 DEF ToSet
    <2> QED
        BY <1>1, <2>1 DEF AddUnique
<1>2. CASE i \notin ToSet(list)
    BY <1>2, ToSetAppend DEF AddUnique
<1> QED
    BY <1>1, <1>2

LEMMA FrontAndLast ==
    ASSUME NEW s \in Seq(Individuals), s # <<>>
    PROVE  Front(s) \in Seq(Individuals) /\ Last(s) \in Individuals
BY DEF Front, Last

(* An attempt is left for each of the missing individuals.                 *)
LEMMA AttemptsType ==
    ASSUME NEW list \in Seq(Individuals)
    PROVE  /\ AttemptsPerSlot * Deficit(list) \in Nat
           /\ list = <<>> => AttemptsPerSlot * Deficit(list) > 0
<1>1. AttemptsPerSlot \in Nat \ {0} /\ PopulationSize \in Nat \ {0}
    BY EvolutionAssumption
<1>2. Deficit(list) \in Nat /\ (list = <<>> => Deficit(list) > 0)
    BY <1>1 DEF Deficit
<1>3. \A m, n \in Nat : m * n \in Nat /\ (m > 0 /\ n > 0 => m * n > 0)
    OBVIOUS
<1> QED
    BY <1>1, <1>2, <1>3

-----------------------------------------------------------------------------
(* The generator and its consumer start with nothing.                      *)
LEMMA InitIInv == ApiInit => IInv
<1> SUFFICES ASSUME ApiInit PROVE IInv
    OBVIOUS
<1>1. ApiTypeOK
    BY DEF ApiInit, Init, ApiTypeOK, TypeOK, Phases
<1>2. InPhase /\ EvaluatedIsCached /\ SolutionsCollected
    BY ToSetEmpty DEF ApiInit, Init, InPhase, EvaluatedIsCached, SolutionsCollected
<1>3. YieldedIsSolved /\ SolutionsDistinct /\ SolutionsNotLost
    BY ToSetEmpty DEF ApiInit, Init, YieldedIsSolved, SolutionsDistinct,
                      SolutionsNotLost, IsInjective
<1>4. ReturnsSolutions /\ FailsIffMissing
    BY DEF ApiInit, ReturnsSolutions, FailsIffMissing, Returned
<1> QED
    BY <1>1, <1>2, <1>3, <1>4 DEF IInv

(* What the evaluator holds is not disturbed by a step that does not       *)
(* evaluate.                                                               *)
LEMMA EvaluatorQuiet ==
    ASSUME IInv, UNCHANGED evaluatorVars
    PROVE  YieldedIsSolved' /\ SolutionsDistinct' /\ SolutionsNotLost'
BY DEF IInv, evaluatorVars, YieldedIsSolved, SolutionsDistinct, SolutionsNotLost,
       FitnessOf

(* What the consumer holds is not disturbed by a generator that yields     *)
(* nothing.                                                                *)
LEMMA ConsumerQuiet ==
    ASSUME IInv, UNCHANGED <<apiVars, suspended, yielded>>, phase # "idle"
    PROVE  SolutionsCollected' /\ ReturnsSolutions' /\ FailsIffMissing'
<1>1. call \notin {"returned", "raised"} /\ UNCHANGED <<settings, call, solutions>>
    BY DEF IInv, InPhase, apiVars
<1>2. ReturnsSolutions' /\ FailsIffMissing'
    BY <1>1 DEF ReturnsSolutions, FailsIffMissing, Returned
<1>3. SolutionsCollected'
    BY <1>1 DEF IInv, SolutionsCollected
<1> QED
    BY <1>2, <1>3

LEMMA GeneratorStep ==
    ASSUME IInv, UNCHANGED <<evaluatorVars, apiVars>>, phase # "idle",
           TypeOK', InPhase', EvaluatedIsCached'
    PROVE  IInv'
<1>1. YieldedIsSolved' /\ SolutionsDistinct' /\ SolutionsNotLost'
    BY EvaluatorQuiet
<1>2. SolutionsCollected' /\ ReturnsSolutions' /\ FailsIffMissing'
    BY ConsumerQuiet DEF evaluatorVars
<1>3. ApiTypeOK'
    BY DEF IInv, ApiTypeOK, apiVars
<1> QED
    BY <1>1, <1>2, <1>3 DEF IInv

-----------------------------------------------------------------------------
(* Evaluation.                                                             *)

LEMMA CacheHitStep ==
    ASSUME IInv, CacheHit, UNCHANGED apiVars
    PROVE  IInv'
<1>1. /\ todo \in Seq(Individuals) /\ todo # <<>> /\ suspended = <<>>
      /\ Head(todo) \in cache /\ todo' = Tail(todo) /\ phase # "idle"
      /\ UNCHANGED <<evaluatorVars, phaseVars, apiVars>>
    BY DEF IInv, ApiTypeOK, TypeOK, InPhase, CacheHit, Evaluating
<1>2. todo' \in Seq(Individuals) /\ ToSet(todo) \subseteq cache \cup ToSet(todo')
    BY <1>1, ToSetHeadTail
<1>3. TypeOK'
    BY <1>1, <1>2 DEF IInv, ApiTypeOK, TypeOK, evaluatorVars, phaseVars, callVars
<1>4. InPhase'
    BY <1>1 DEF IInv, InPhase, evaluatorVars, phaseVars, apiVars
<1>5. EvaluatedIsCached'
    BY <1>1, <1>2 DEF IInv, EvaluatedIsCached, Unflushed, evaluatorVars, phaseVars,
                      apiVars
<1> QED
    BY <1>1, <1>3, <1>4, <1>5, GeneratorStep

(* A solution is suspended as the first of the list.                       *)
LEMMA CacheMissStep ==
    ASSUME IInv, CacheMiss, UNCHANGED apiVars
    PROVE  IInv'
<1> DEFINE i == Head(todo)
<1>1. /\ todo \in Seq(Individuals) /\ todo # <<>> /\ suspended = <<>>
      /\ i \notin cache /\ phase # "idle"
      /\ UNCHANGED <<strategy, phaseVars, apiVars>>
    BY DEF IInv, ApiTypeOK, TypeOK, InPhase, CacheMiss, CacheMissGiven, Evaluating
<1>2. /\ i \in Individuals /\ Tail(todo) \in Seq(Individuals)
      /\ ToSet(todo) = {i} \cup ToSet(Tail(todo))
      /\ ToSet(<<i>>) = {i}
    BY <1>1, ToSetHeadTail, ToSetSingle
<1>3. PICK fitness \in FitnessOf(i) :
          IF fitness \in Unless(Seen, ExpectedFitness..100)
          THEN /\ solved' = solved \cup {i}
               /\ suspended' = <<i>>
               /\ yielded' = Append(yielded, i)
               /\ UNCHANGED <<cache, todo>>
          ELSE /\ cache' = cache \cup {i}
               /\ todo' = Tail(todo)
               /\ UNCHANGED <<solved, suspended, yielded>>
    BY DEF CacheMiss, CacheMissGiven
<1>4. call \notin {"returned", "raised", "start"}
    BY <1>1 DEF IInv, InPhase
<1>5. ReturnsSolutions' /\ FailsIffMissing'
    BY <1>1, <1>4 DEF ReturnsSolutions, FailsIffMissing, Returned, apiVars
<1>6. TypeOK' => ApiTypeOK'
    BY <1>1 DEF IInv, ApiTypeOK, apiVars
<1>7. /\ yielded \in Seq(Individuals) /\ solved = ToSet(yielded)
      /\ IsInjective(yielded) /\ solutions \in Seq(Individuals)
    BY DEF IInv, ApiTypeOK, TypeOK, YieldedIsSolved, SolutionsDistinct
<1>8. CASE fitness \in Unless(Seen, ExpectedFitness..100)
    <2>1. /\ i \notin solved /\ fitness \in ExpectedFitness..100
          /\ solved' = solved \cup {i} /\ suspended' = <<i>>
          /\ yielded' = Append(yielded, i) /\ cache' = cache /\ todo' = todo
        BY <1>3, <1>8 DEF Unless, Seen
    <2>2. ToSet(yielded') = ToSet(yielded) \cup {i}
        BY <2>1, <1>2, <1>7, ToSetAppend
    <2>3. TypeOK'
        BY <1>1, <1>2, <1>7, <2>1
        DEF IInv, ApiTypeOK, TypeOK, phaseVars, callVars
    <2>4. InPhase'
        BY <1>1, <1>4, <2>1 DEF IInv, InPhase, phaseVars, apiVars
    <2>5. YieldedIsSolved'
        BY <1>2, <1>7, <2>1, <2>2 DEF YieldedIsSolved
    <2>6. SolutionsDistinct'
        <3>1. \A k \in 1..Len(yielded) : yielded[k] # i
            BY <1>7, <2>1 DEF ToSet
        <3>2. /\ DOMAIN yielded' = 1..(Len(yielded) + 1)
              /\ yielded'[Len(yielded) + 1] = i
              /\ \A k \in 1..Len(yielded) : yielded'[k] = yielded[k]
            BY <1>2, <1>7, <2>1
        <3> QED
            BY <1>7, <3>1, <3>2 DEF SolutionsDistinct, IsInjective
    <2>7. SolutionsNotLost'
        BY <1>1, <2>1, <2>2 DEF IInv, SolutionsNotLost, FitnessOf
    <2>8. EvaluatedIsCached'
        BY <1>1, <2>1 DEF IInv, EvaluatedIsCached, Unflushed, phaseVars, apiVars
    <2>9. SolutionsCollected'
        <3> SUFFICES ASSUME call = "take" PROVE SolutionsCollected'
            BY <1>1 DEF SolutionsCollected, apiVars
        <3>1. settings \in Settings
            BY DEF IInv, ApiTypeOK
        <3>2. settings.desired \in Nat \cup {NoLimit}
            BY <3>1, SettingsAssumption
        <3>3. UNCHANGED <<settings, call, solutions, phase>>
            BY <1>1 DEF apiVars, phaseVars
        <3>4. ~settings.infinite => solutions = yielded
            BY <1>1, <1>7 DEF IInv, SolutionsCollected
        <3>5. solutions \o <<i>> = Append(solutions, i)
            BY <1>2, <1>7
        <3>6. settings.desired # NoLimit => Len(yielded) < settings.desired
            BY <1>1 DEF IInv, SolutionsCollected
        <3>7. Len(yielded') = Len(yielded) + 1 /\ Len(yielded) \in Nat
            BY <1>2, <1>7, <2>1
        <3>8. settings.desired # NoLimit => Len(yielded') <= settings.desired
            BY <3>2, <3>6, <3>7
        <3>9. settings.infinite => solutions = <<>>
            BY DEF IInv, SolutionsCollected
        <3>10. suspended' # <<>>
            BY <2>1
        <3> QED
            BY <2>1, <3>3, <3>4, <3>5, <3>8, <3>9, <3>10 DEF SolutionsCollected
    <2> QED
        BY <1>5, <1>6, <2>3, <2>4, <2>5, <2>6, <2>7, <2>8, <2>9
        DEF IInv, ApiTypeOK
<1>9. CASE fitness \notin Unless(Seen, ExpectedFitness..100)
    <2>1. /\ cache' = cache \cup {i} /\ todo' = Tail(todo)
          /\ UNCHANGED <<solved, suspended, yielded>>
        BY <1>3, <1>9
    <2>2. TypeOK'
        BY <1>1, <1>2, <2>1 DEF IInv, ApiTypeOK, TypeOK, phaseVars, callVars
    <2>3. InPhase'
        BY <1>1, <1>4, <2>1 DEF IInv, InPhase, phaseVars, apiVars
    <2>4. YieldedIsSolved' /\ SolutionsDistinct'
        BY <2>1 DEF IInv, YieldedIsSolved, SolutionsDistinct
    <2>5. SolutionsNotLost'
        <3>1. fitness \in 0..100
            BY <1>2, EvolutionAssumption, ZenonT(60) DEF FitnessOf, IInv, ApiTypeOK, TypeOK
        <3>2. fitness >= ExpectedFitness => i \in solved
            BY <1>9, <3>1, EvolutionAssumption DEF Unless, Seen
        <3> QED
            BY <1>1, <1>7, <2>1, <3>2 DEF IInv, SolutionsNotLost, FitnessOf
    <2>6. EvaluatedIsCached'
        BY <1>1, <1>2, <2>1
        DEF IInv, EvaluatedIsCached, Unflushed, phaseVars, apiVars
    <2>7. SolutionsCollected'
        BY <1>1, <2>1, ConsumerQuiet
    <2> QED
        BY <1>5, <1>6, <2>2, <2>3, <2>4, <2>5, <2>6, <2>7
        DEF IInv, ApiTypeOK
<1> QED
    BY <1>8, <1>9

-----------------------------------------------------------------------------
(* Refilling.                                                              *)

LEMMA AttemptStep ==
    ASSUME IInv, FillInitial \/ Fill, UNCHANGED apiVars
    PROVE  IInv'
<1>1. PICK i \in Individuals : todo' = <<i, Fixed[i]>> /\ next' = Append(next, Fixed[i])
    BY DEF FillInitial, Fill, Attempt
<1>2. /\ UNCHANGED <<evaluatorVars, population, evaluation, callVars, budget, apiVars>>
      /\ phase' \in {"add", "add_initial"} /\ phase # "idle" /\ budget > 0
      /\ todo = <<>>
    BY DEF FillInitial, Fill, Attempt, Ready
<1>3. Fixed[i] \in Individuals /\ next \in Seq(Individuals)
    BY EvolutionAssumption DEF IInv, ApiTypeOK, TypeOK
<1>4. /\ next' \in Seq(Individuals) /\ next' # <<>>
      /\ todo' \in Seq(Individuals)
    BY <1>1, <1>3
<1>5. TypeOK'
    BY <1>2, <1>4 DEF IInv, ApiTypeOK, TypeOK, evaluatorVars, callVars, Phases
<1>6. InPhase'
    BY <1>2, <1>4 DEF IInv, InPhase, evaluatorVars, apiVars
<1>7. EvaluatedIsCached'
    BY <1>2 DEF IInv, EvaluatedIsCached, Unflushed, evaluatorVars, apiVars
<1> QED
    BY <1>2, <1>5, <1>6, <1>7, GeneratorStep

LEMMA AddStep ==
    ASSUME IInv, AddInitial \/ AddFilled, UNCHANGED apiVars
    PROVE  IInv'
<1>1. /\ UNCHANGED <<evaluatorVars, evaluation, callVars, todo, apiVars>>
      /\ phase \in {"add", "add_initial"} /\ phase' \in {"fill", "fill_initial"}
      /\ next' = AddUnique(Front(next), Candidate)
      /\ budget' \in {budget - 1, budget}
      /\ population' \in {next', population}
      /\ todo = <<>> /\ phase # "idle"
    BY DEF AddInitial, AddFilled, Add, Ready
<1>2. budget > 0 /\ next # <<>> /\ budget \in Nat /\ next \in Seq(Individuals)
    BY <1>1 DEF IInv, ApiTypeOK, TypeOK, InPhase
<1>3. next' \in Seq(Individuals) /\ next' # <<>> /\ budget' \in Nat
    <2>1. Front(next) \in Seq(Individuals) /\ Candidate \in Individuals
        BY <1>2, FrontAndLast DEF Candidate
    <2>2. /\ AddUnique(Front(next), Candidate) \in Seq(Individuals)
          /\ AddUnique(Front(next), Candidate) # <<>>
        BY <2>1, AddUniqueType
    <2> QED
        BY <1>1, <1>2, <2>2
<1>4. TypeOK'
    BY <1>1, <1>3 DEF IInv, ApiTypeOK, TypeOK, evaluatorVars, callVars, Phases
<1>5. InPhase'
    BY <1>1, <1>3 DEF IInv, InPhase, evaluatorVars, apiVars
<1>6. EvaluatedIsCached'
    BY <1>1 DEF IInv, EvaluatedIsCached, Unflushed, evaluatorVars, apiVars
<1> QED
    BY <1>1, <1>4, <1>5, <1>6, GeneratorStep

LEMMA InitialFilledStep ==
    ASSUME IInv, InitialFilled, UNCHANGED apiVars
    PROVE  IInv'
<1>1. /\ UNCHANGED <<evaluatorVars, population, evaluation, callVars, next, budget,
                     apiVars>>
      /\ phase = "fill_initial" /\ phase' = "evaluate_initial" /\ todo' = population
      /\ phase # "idle" /\ todo = <<>>
    BY DEF InitialFilled, Ready
<1>2. TypeOK'
    BY <1>1 DEF IInv, ApiTypeOK, TypeOK, evaluatorVars, callVars, Phases
<1>3. InPhase'
    BY <1>1 DEF IInv, InPhase, evaluatorVars, apiVars
<1>4. EvaluatedIsCached'
    BY <1>1 DEF IInv, EvaluatedIsCached, Unflushed, evaluatorVars, apiVars
<1> QED
    BY <1>1, <1>2, <1>3, <1>4, GeneratorStep

(* The list is not empty: refilling it may fail only when there is         *)
(* something in it.                                                        *)
LEMMA RefillDoneStep ==
    ASSUME IInv, RefillDone, UNCHANGED apiVars
    PROVE  IInv'
<1>1. /\ UNCHANGED <<evaluatorVars, evaluation, callVars, next, budget, apiVars>>
      /\ phase = "fill" /\ phase' = "fix" /\ population' = <<>>
      /\ todo' = <<Head(next)>> /\ Filled /\ phase # "idle" /\ todo = <<>>
    BY DEF RefillDone, Ready
<1>2. next \in Seq(Individuals) /\ budget \in Nat
    BY DEF IInv, ApiTypeOK, TypeOK
<1>3. next # <<>> /\ Len(next) > 0
    BY <1>1, <1>2, EvolutionAssumption DEF IInv, InPhase, Filled
<1>4. Head(next) \in Individuals
    BY <1>2, <1>3
<1>5. TypeOK'
    BY <1>1, <1>4 DEF IInv, ApiTypeOK, TypeOK, evaluatorVars, callVars, Phases
<1>6. InPhase'
    BY <1>1, <1>2, <1>3 DEF IInv, InPhase, evaluatorVars, apiVars
<1>7. EvaluatedIsCached'
    BY <1>1 DEF IInv, EvaluatedIsCached, Unflushed, evaluatorVars, apiVars
<1> QED
    BY <1>1, <1>5, <1>6, <1>7, GeneratorStep

-----------------------------------------------------------------------------
(* A generation.                                                           *)

LEMMA InitialEvaluatedStep ==
    ASSUME IInv, InitialEvaluated, UNCHANGED apiVars
    PROVE  IInv'
<1>1. /\ UNCHANGED <<evaluatorVars, population, callVars, next, todo, budget, apiVars>>
      /\ phase = "evaluate_initial" /\ phase' = "select" /\ evaluation' = population
      /\ todo = <<>> /\ phase # "idle"
    BY DEF InitialEvaluated, Ready
<1>2. TypeOK'
    BY <1>1 DEF IInv, ApiTypeOK, TypeOK, evaluatorVars, callVars, Phases
<1>3. InPhase'
    BY <1>1 DEF IInv, InPhase, evaluatorVars, apiVars
<1>4. EvaluatedIsCached'
    BY <1>1, ToSetEmpty
    DEF IInv, EvaluatedIsCached, Unflushed, evaluatorVars, apiVars
<1> QED
    BY <1>1, <1>2, <1>3, <1>4, GeneratorStep

LEMMA ExhaustedStep ==
    ASSUME IInv, Exhausted, UNCHANGED apiVars
    PROVE  IInv'
<1>1. /\ UNCHANGED <<evaluatorVars, population, evaluation, callVars, apiVars>>
      /\ phase = "select" /\ phase' = "idle" /\ todo' = <<>> /\ next' = <<>>
      /\ budget' = 0 /\ phase # "idle" /\ todo = <<>>
    BY DEF Exhausted, Ready, Idle
<1>2. TypeOK'
    BY <1>1 DEF IInv, ApiTypeOK, TypeOK, evaluatorVars, callVars, Phases
<1>3. InPhase'
    BY <1>1 DEF IInv, InPhase, evaluatorVars, apiVars
<1>4. EvaluatedIsCached'
    BY <1>1 DEF IInv, EvaluatedIsCached, Unflushed, evaluatorVars, apiVars
<1> QED
    BY <1>1, <1>2, <1>3, <1>4, GeneratorStep

LEMMA SelectStep ==
    ASSUME IInv, Select, UNCHANGED apiVars
    PROVE  IInv'
<1>1. /\ UNCHANGED <<evaluatorVars, population, evaluation, limit, todo, apiVars>>
      /\ phase = "select" /\ phase' = "crossover" /\ budget' = PopulationSize
      /\ next' \in Fittest(evaluation, Elites) /\ generation' \in {generation, generation + 1}
      /\ phase # "idle" /\ todo = <<>>
    BY DEF Select, Ready
<1>2. /\ evaluation \in Seq(Individuals) /\ generation \in Nat
      /\ Elites \in Nat /\ PopulationSize \in Nat
    BY EvolutionAssumption DEF IInv, ApiTypeOK, TypeOK
<1>3. next' \in Seq(Individuals) /\ ToSet(next') \subseteq ToSet(evaluation)
    BY <1>1, <1>2, FittestType
<1>4. TypeOK'
    BY <1>1, <1>2, <1>3 DEF IInv, ApiTypeOK, TypeOK, evaluatorVars, Phases
<1>5. InPhase'
    BY <1>1 DEF IInv, InPhase, evaluatorVars, apiVars
<1>6. EvaluatedIsCached'
    BY <1>1, <1>3 DEF IInv, EvaluatedIsCached, Unflushed, evaluatorVars, apiVars
<1> QED
    BY <1>1, <1>4, <1>5, <1>6, GeneratorStep

(* The children join the list when they are still to be evaluated.         *)
LEMMA CrossoverStep ==
    ASSUME IInv, Crossover, UNCHANGED apiVars
    PROVE  IInv'
<1>1. /\ UNCHANGED <<evaluatorVars, population, evaluation, phase, callVars, apiVars>>
      /\ phase = "crossover" /\ budget > 0 /\ budget' = budget - 1
      /\ phase # "idle" /\ todo = <<>>
    BY DEF Crossover, Ready
<1>2. PICK c \in Individuals, d \in Individuals :
          \E children \in {<<c>>, <<c, d>>} :
             /\ todo' = children
             /\ LET one == AddUnique(next, c) IN
                next' = IF Len(children) = 2 /\ Len(one) < PopulationSize
                        THEN AddUnique(one, d) ELSE one
    BY DEF Crossover
<1> DEFINE one == AddUnique(next, c)
           both == AddUnique(one, d)
<1>3. next \in Seq(Individuals) /\ budget \in Nat
    BY DEF IInv, ApiTypeOK, TypeOK
<1>4. one \in Seq(Individuals) /\ ToSet(one) = ToSet(next) \cup {c}
    BY <1>3, AddUniqueType
<1>5. both \in Seq(Individuals) /\ ToSet(both) = ToSet(one) \cup {d}
    <2> HIDE DEF one
    <2> QED
        BY <1>4, AddUniqueType
<1>6. /\ ToSet(<<c>>) = {c} /\ ToSet(<<c, d>>) = {c, d}
      /\ Len(<<c>>) = 1
    BY ToSetSingle, ToSetPair
<1>7. /\ next' \in Seq(Individuals) /\ todo' \in Seq(Individuals) /\ budget' \in Nat
      /\ ToSet(next') \subseteq ToSet(next) \cup ToSet(todo')
    <2>1. /\ todo' = <<c>> \/ todo' = <<c, d>>
          /\ next' = one \/ (next' = both /\ todo' = <<c, d>>)
        <3>1. /\ todo' \in {<<c>>, <<c, d>>}
              /\ next' = IF Len(todo') = 2 /\ Len(one) < PopulationSize
                         THEN both ELSE one
            BY <1>2
        <3> HIDE DEF one, both
        <3>2. CASE todo' = <<c>>
            <4>1. Len(todo') # 2
                BY <3>2, <1>6
            <4> QED
                BY <3>1, <3>2, <4>1
        <3>3. CASE todo' = <<c, d>>
            BY <3>1, <3>3
        <3> QED
            BY <3>1, <3>2, <3>3
    <2> HIDE DEF one, both
    <2>2. next' \in Seq(Individuals) /\ todo' \in Seq(Individuals) /\ budget' \in Nat
        <3>1. <<c>> \in Seq(Individuals) /\ <<c, d>> \in Seq(Individuals)
            OBVIOUS
        <3>2. budget' \in Nat
            BY <1>1, <1>3
        <3> QED
            BY <1>4, <1>5, <2>1, <3>1, <3>2
    <2>3. ToSet(next') \subseteq ToSet(next) \cup ToSet(todo')
        BY <1>4, <1>5, <1>6, <2>1
    <2> QED
        BY <2>2, <2>3
<1>8. TypeOK'
    BY <1>1, <1>7 DEF IInv, ApiTypeOK, TypeOK, evaluatorVars, callVars, Phases
<1>9. InPhase'
    BY <1>1 DEF IInv, InPhase, evaluatorVars, apiVars
<1>10. EvaluatedIsCached'
    BY <1>1, <1>7, ToSetEmpty
    DEF IInv, EvaluatedIsCached, Unflushed, evaluatorVars, apiVars
<1> QED
    BY <1>1, <1>8, <1>9, <1>10, GeneratorStep

LEMMA CrossoverDoneStep ==
    ASSUME IInv, CrossoverDone, UNCHANGED apiVars
    PROVE  IInv'
<1>1. /\ UNCHANGED <<evaluatorVars, population, evaluation, callVars, todo, budget,
                     apiVars>>
      /\ phase = "crossover" /\ phase' = "mutate"
      /\ next' = SubSeq(next, 1, Min2(Len(next), PopulationSize))
      /\ phase # "idle" /\ todo = <<>>
    BY DEF CrossoverDone, Ready
<1>2. next \in Seq(Individuals)
    BY DEF IInv, ApiTypeOK, TypeOK
<1>3. Min2(Len(next), PopulationSize) \in 0..Len(next)
    BY <1>2, EvolutionAssumption DEF Min2
<1>4. next' \in Seq(Individuals) /\ ToSet(next') \subseteq ToSet(next)
    BY <1>1, <1>2, <1>3, ToSetBeginning
<1>5. TypeOK'
    BY <1>1, <1>4 DEF IInv, ApiTypeOK, TypeOK, evaluatorVars, callVars, Phases
<1>6. InPhase'
    BY <1>1 DEF IInv, InPhase, evaluatorVars, apiVars
<1>7. EvaluatedIsCached'
    BY <1>1, <1>4 DEF IInv, EvaluatedIsCached, Unflushed, evaluatorVars, apiVars
<1> QED
    BY <1>1, <1>5, <1>6, <1>7, GeneratorStep

LEMMA MutateStep ==
    ASSUME IInv, Mutate, UNCHANGED apiVars
    PROVE  IInv'
<1>1. /\ UNCHANGED <<evaluatorVars, population, evaluation, callVars, todo, apiVars>>
      /\ phase = "mutate" /\ phase' = "fill"
      /\ budget' = AttemptsPerSlot * Deficit(next')
      /\ phase # "idle" /\ todo = <<>>
    BY DEF Mutate, Ready
<1>2. PICK mutated \in SUBSET Individuals :
          \E kept \in Destroyed(ToSet(next) \cup mutated) : next' \in SetToSeqs(kept)
    BY DEF Mutate
<1>3. ToSet(next) \subseteq Individuals
    BY ToSetType DEF IInv, ApiTypeOK, TypeOK
<1>4. \A kept \in Destroyed(ToSet(next) \cup mutated) :
          kept \subseteq Individuals /\ IsFiniteSet(kept)
    BY <1>2, <1>3, EvolutionAssumption, FS_Subset DEF Destroyed
<1>5. next' \in Seq(Individuals)
    BY <1>2, <1>4, SetToSeqsType
<1>6. budget' \in Nat /\ (next' = <<>> => budget' > 0)
    BY <1>1, <1>5, AttemptsType
<1>7. TypeOK'
    BY <1>1, <1>5, <1>6 DEF IInv, ApiTypeOK, TypeOK, evaluatorVars, callVars, Phases
<1>8. InPhase'
    BY <1>1, <1>6 DEF IInv, InPhase, evaluatorVars, apiVars
<1>9. EvaluatedIsCached'
    BY <1>1 DEF IInv, EvaluatedIsCached, Unflushed, evaluatorVars, apiVars
<1> QED
    BY <1>1, <1>7, <1>8, <1>9, GeneratorStep

(* The lookup fails only where the cache may have been flushed.            *)
LEMMA MutationPoolRaisesStep ==
    ASSUME IInv, MutationPoolRaises, UNCHANGED apiVars
    PROVE  IInv'
<1>1. /\ UNCHANGED <<evaluatorVars, population, evaluation, callVars, next, todo,
                     budget, apiVars>>
      /\ phase = "mutate" /\ phase' = "key_error" /\ ~(ToSet(next) \subseteq cache)
      /\ phase # "idle" /\ todo = <<>>
    BY DEF MutationPoolRaises, Ready
<1>2. TypeOK'
    BY <1>1 DEF IInv, ApiTypeOK, TypeOK, evaluatorVars, callVars, Phases
<1>3. InPhase'
    BY <1>1 DEF IInv, InPhase, evaluatorVars, apiVars
<1>4. ~Unflushed
    BY <1>1, ToSetEmpty DEF IInv, EvaluatedIsCached
<1>5. EvaluatedIsCached'
    BY <1>1, <1>4 DEF EvaluatedIsCached, Unflushed, evaluatorVars, apiVars
<1> QED
    BY <1>1, <1>2, <1>3, <1>5, GeneratorStep

(* Whoever is fixed last leaves a population that is to be evaluated, and  *)
(* maybe an empty cache.                                                   *)
LEMMA FixStep ==
    ASSUME IInv, Fix, UNCHANGED apiVars
    PROVE  IInv'
<1> DEFINE n == Len(population) + 1
<1>1. /\ UNCHANGED <<strategy, solved, suspended, yielded, evaluation, callVars, next,
                     budget, apiVars>>
      /\ phase = "fix" /\ phase # "idle" /\ todo = <<>>
      /\ population' = Append(population, Fixed[next[n]])
      /\ IF n < Len(next)
         THEN todo' = <<next[n + 1]>> /\ UNCHANGED <<phase, cache>>
         ELSE /\ todo' = population' /\ phase' = "evaluate"
              /\ cache' = (IF strategy.soft THEN {} ELSE cache)
    BY DEF Fix, FixOne, Ready
<1>2. /\ next \in Seq(Individuals) /\ population \in Seq(Individuals)
      /\ Len(population) < Len(next)
    BY <1>1 DEF IInv, ApiTypeOK, TypeOK, InPhase
<1>3. n \in 1..Len(next) /\ next[n] \in Individuals
    BY <1>2
<1>4. population' \in Seq(Individuals) /\ Len(population') = n
    BY <1>1, <1>2, <1>3, EvolutionAssumption
<1>5. n < Len(next) => next[n + 1] \in Individuals
    BY <1>2
<1>6. todo' \in Seq(Individuals) /\ cache' \subseteq cache
    <2>1. CASE n < Len(next)
        <3>1. /\ todo' = <<next[n + 1]>> /\ cache' = cache
              /\ next[n + 1] \in Individuals
            BY <1>1, <1>5, <2>1
        <3> QED
            BY <3>1
    <2>2. CASE ~(n < Len(next))
        BY <1>1, <1>4, <2>2
    <2> QED
        BY <2>1, <2>2
<1>7. TypeOK'
    BY <1>1, <1>4, <1>6 DEF IInv, ApiTypeOK, TypeOK, callVars, Phases
<1>8. suspended = <<>>
    BY <1>1 DEF IInv, InPhase
<1>9. InPhase'
    BY <1>1, <1>2, <1>4, <1>8 DEF IInv, InPhase, apiVars
<1>10. EvaluatedIsCached'
    BY <1>1 DEF IInv, EvaluatedIsCached, Unflushed, apiVars
<1>11. YieldedIsSolved' /\ SolutionsDistinct' /\ SolutionsNotLost'
    BY <1>1, <1>6
    DEF IInv, YieldedIsSolved, SolutionsDistinct, SolutionsNotLost, FitnessOf
<1>12. SolutionsCollected' /\ ReturnsSolutions' /\ FailsIffMissing'
    BY <1>1, ConsumerQuiet
<1>13. ApiTypeOK'
    BY <1>1, <1>7 DEF IInv, ApiTypeOK, apiVars
<1> QED
    BY <1>9, <1>10, <1>11, <1>12, <1>13 DEF IInv

LEMMA EvaluatedStep ==
    ASSUME IInv, Evaluated, UNCHANGED apiVars
    PROVE  IInv'
<1>1. /\ UNCHANGED <<evaluatorVars, population, callVars, next, todo, budget, apiVars>>
      /\ phase = "evaluate" /\ phase' = "select" /\ todo = <<>>
      /\ evaluation' \in Fittest(population, PopulationSize) /\ phase # "idle"
    BY DEF Evaluated, Ready
<1>2. population \in Seq(Individuals) /\ PopulationSize \in Nat
    BY EvolutionAssumption DEF IInv, ApiTypeOK, TypeOK
<1>3. evaluation' \in Seq(Individuals) /\ ToSet(evaluation') \subseteq ToSet(population)
    BY <1>1, <1>2, FittestType
<1>4. TypeOK'
    BY <1>1, <1>3 DEF IInv, ApiTypeOK, TypeOK, evaluatorVars, callVars, Phases
<1>5. InPhase'
    BY <1>1 DEF IInv, InPhase, evaluatorVars, apiVars
<1>6. EvaluatedIsCached'
    BY <1>1, <1>3, ToSetEmpty
    DEF IInv, EvaluatedIsCached, Unflushed, evaluatorVars, apiVars
<1> QED
    BY <1>1, <1>4, <1>5, <1>6, GeneratorStep

-----------------------------------------------------------------------------
(* The consumer.                                                           *)

(* Resumed, the generator puts the solution into the cache and goes on.    *)
LEMMA ResumeEvaluator ==
    ASSUME IInv, Resume, call # "start", UNCHANGED call
    PROVE  /\ TypeOK' /\ InPhase' /\ EvaluatedIsCached'
           /\ YieldedIsSolved' /\ SolutionsDistinct' /\ SolutionsNotLost'
           /\ phase # "idle" /\ phase' = phase /\ UNCHANGED yielded
<1>1. /\ suspended # <<>> /\ todo # <<>> /\ suspended = <<Head(todo)>>
      /\ phase # "idle" /\ todo \in Seq(Individuals)
      /\ cache' = cache \cup ToSet(suspended) /\ suspended' = <<>>
      /\ todo' = Tail(todo) /\ UNCHANGED <<strategy, solved, yielded, phaseVars>>
    BY DEF IInv, ApiTypeOK, TypeOK, InPhase, Resume
<1>2. /\ Head(todo) \in Individuals /\ Tail(todo) \in Seq(Individuals)
      /\ ToSet(todo) = {Head(todo)} \cup ToSet(Tail(todo))
      /\ ToSet(suspended) = {Head(todo)}
    BY <1>1, ToSetHeadTail, ToSetSingle
<1>3. TypeOK'
    BY <1>1, <1>2 DEF IInv, ApiTypeOK, TypeOK, phaseVars, callVars
<1>4. InPhase'
    BY <1>1 DEF IInv, InPhase, phaseVars
<1>5. EvaluatedIsCached'
    BY <1>1, <1>2 DEF IInv, EvaluatedIsCached, Unflushed, phaseVars
<1>6. YieldedIsSolved' /\ SolutionsDistinct'
    BY <1>1, ToSetEmpty DEF IInv, YieldedIsSolved, SolutionsDistinct
<1>7. SolutionsNotLost'
    BY <1>1 DEF IInv, YieldedIsSolved, SolutionsNotLost, FitnessOf
<1> QED
    BY <1>1, <1>3, <1>4, <1>5, <1>6, <1>7 DEF phaseVars

(* Dropped, it leaves caches and population as they are.                   *)
LEMMA AbandonEvaluator ==
    ASSUME IInv, Abandon, call # "start", UNCHANGED call
    PROVE  /\ TypeOK' /\ InPhase' /\ EvaluatedIsCached'
           /\ YieldedIsSolved' /\ SolutionsDistinct' /\ SolutionsNotLost'
           /\ phase # "idle" /\ phase' = "idle" /\ UNCHANGED yielded
<1>1. /\ suspended # <<>> /\ phase # "idle" /\ suspended' = <<>>
      /\ phase' = "idle" /\ next' = <<>> /\ todo' = <<>> /\ budget' = 0
      /\ UNCHANGED <<strategy, cache, solved, yielded, population, evaluation, callVars>>
    BY DEF IInv, InPhase, Abandon, Idle
<1>2. TypeOK'
    BY <1>1 DEF IInv, ApiTypeOK, TypeOK, callVars, Phases
<1>3. InPhase'
    BY <1>1 DEF IInv, InPhase
<1>4. EvaluatedIsCached'
    BY <1>1 DEF IInv, EvaluatedIsCached, Unflushed
<1>5. YieldedIsSolved' /\ SolutionsDistinct' /\ SolutionsNotLost'
    BY <1>1, ToSetEmpty
    DEF IInv, YieldedIsSolved, SolutionsDistinct, SolutionsNotLost, FitnessOf
<1> QED
    BY <1>1, <1>2, <1>3, <1>4, <1>5

LEMMA CallerStep ==
    ASSUME IInv, CallerResumes \/ CallerDrops
    PROVE  IInv'
<1>1. /\ call = "stream" /\ UNCHANGED <<settings, call, solutions>>
      /\ Resume \/ Abandon
    BY DEF CallerResumes, CallerDrops, apiVars
<1>2. /\ TypeOK' /\ InPhase' /\ EvaluatedIsCached'
      /\ YieldedIsSolved' /\ SolutionsDistinct' /\ SolutionsNotLost'
    BY <1>1, ResumeEvaluator, AbandonEvaluator
<1>3. ApiTypeOK'
    BY <1>1, <1>2 DEF IInv, ApiTypeOK
<1>4. SolutionsCollected' /\ ReturnsSolutions' /\ FailsIffMissing'
    BY <1>1 DEF SolutionsCollected, ReturnsSolutions, FailsIffMissing, Returned
<1> QED
    BY <1>2, <1>3, <1>4 DEF IInv

(* The generator that fuzz() started is never resumed after it was dropped *)
(* and so finds in the cache what it looks up.                             *)
LEMMA NeverRaises ==
    ASSUME IInv
    PROVE  ~(call = "take" /\ phase = "key_error")
BY DEF IInv, EvaluatedIsCached, Unflushed

(* What fuzz() keeps of the solution it takes.                             *)
LEMMA TakeStep ==
    ASSUME IInv, Take \/ TakeLast
    PROVE  IInv'
<1>1. /\ call = "take" /\ UNCHANGED <<settings, call>>
      /\ solutions' = IF settings.infinite THEN solutions ELSE solutions \o suspended
      /\ suspended' = <<>>
    BY NeverRaises DEF Take, TakeLast, Keep, Resume, Abandon
<1>2. /\ TypeOK' /\ InPhase' /\ EvaluatedIsCached'
      /\ YieldedIsSolved' /\ SolutionsDistinct' /\ SolutionsNotLost'
      /\ UNCHANGED yielded
    BY <1>1, NeverRaises, ResumeEvaluator, AbandonEvaluator DEF Take, TakeLast
<1>3. /\ settings \in Settings /\ solutions \in Seq(Individuals)
      /\ suspended \in Seq(Individuals) /\ yielded \in Seq(Individuals)
    BY <1>1 DEF IInv, ApiTypeOK, TypeOK
<1>4. solutions' \in Seq(Individuals)
    BY <1>1, <1>3
<1>5. ApiTypeOK'
    BY <1>1, <1>2, <1>3, <1>4 DEF ApiTypeOK
<1>6. ReturnsSolutions' /\ FailsIffMissing'
    BY <1>1 DEF ReturnsSolutions, FailsIffMissing, Returned
<1>7. ASSUME settings.desired # NoLimit, phase' # "idle"
      PROVE  Len(yielded) < settings.desired
    <2>1. ~TakeLast
        BY <1>1, <1>7, AbandonEvaluator DEF TakeLast
    <2>2. ~(Len(yielded) >= settings.desired)
        BY <1>7, <2>1, NeverRaises DEF Take, Enough
    <2>3. settings.desired \in Nat /\ Len(yielded) \in Nat
        BY <1>3, <1>7, SettingsAssumption
    <2> QED
        BY <2>2, <2>3
<1>8. SolutionsCollected'
    <2>1. IF settings.infinite THEN solutions' = <<>>
                               ELSE solutions' \o suspended' = yielded
        BY <1>1, <1>3, <1>4 DEF IInv, SolutionsCollected
    <2>2. settings.desired # NoLimit => Len(yielded) <= settings.desired
        BY <1>1 DEF IInv, SolutionsCollected
    <2> QED
        BY <1>1, <1>2, <1>7, <2>1, <2>2 DEF SolutionsCollected
<1> QED
    BY <1>2, <1>5, <1>6, <1>8 DEF IInv

(* A generator starts from what the last one left; that of fuzz() starts   *)
(* from nothing.                                                           *)
LEMMA GenerateEvaluator ==
    ASSUME IInv, NEW m \in Nat \cup {NoLimit}, Generate(m),
           call' \in {"take", "stream"}, call \in {"start", "stream"},
           call' = "take" => call = "start"
    PROVE  /\ TypeOK' /\ InPhase' /\ EvaluatedIsCached'
           /\ YieldedIsSolved' /\ SolutionsDistinct' /\ SolutionsNotLost'
           /\ phase' # "idle" /\ suspended = <<>> /\ UNCHANGED <<suspended, yielded>>
<1>1. /\ phase = "idle" /\ limit' = m /\ generation' = 0 /\ next' = population
      /\ todo' = <<>> /\ phase' \in {"fill_initial", "select"}
      /\ budget' \in {AttemptsPerSlot * Deficit(population), 0}
      /\ UNCHANGED <<evaluatorVars, population, evaluation>>
    BY DEF Generate
<1>2. suspended = <<>>
    BY <1>1 DEF IInv, InPhase
<1>3. population \in Seq(Individuals)
    BY DEF IInv, ApiTypeOK, TypeOK
<1>4. budget' \in Nat
    BY <1>1, <1>3, AttemptsType
<1>5. TypeOK'
    BY <1>1, <1>4 DEF IInv, ApiTypeOK, TypeOK, evaluatorVars, Phases
<1>6. InPhase'
    BY <1>1, <1>2 DEF InPhase, evaluatorVars
<1>7. EvaluatedIsCached'
    <2> SUFFICES ASSUME Unflushed' PROVE ToSet(evaluation) \subseteq cache
        BY <1>1 DEF EvaluatedIsCached, evaluatorVars
    <2>1. CASE call = "start"
        BY <2>1, ToSetEmpty DEF IInv, InPhase
    <2>2. CASE call = "stream"
        <3>1. ~strategy.soft
            BY <1>1, <2>2 DEF Unflushed, evaluatorVars
        <3> QED
            BY <3>1 DEF IInv, EvaluatedIsCached, Unflushed
    <2> QED
        BY <2>1, <2>2
<1>8. YieldedIsSolved' /\ SolutionsDistinct' /\ SolutionsNotLost'
    BY <1>1, EvaluatorQuiet
<1> QED
    BY <1>1, <1>2, <1>5, <1>6, <1>7, <1>8 DEF evaluatorVars

LEMMA MaxGenerationsType ==
    ASSUME NEW s \in Settings
    PROVE  MaxGenerations(s) \in Nat \cup {NoLimit}
BY SettingsAssumption DEF MaxGenerations

LEMMA FuzzStep ==
    ASSUME IInv, Fuzz
    PROVE  IInv'
<1>1. /\ call = "start" /\ settings' \in Settings /\ call' = "take"
      /\ Generate(MaxGenerations(settings')) /\ UNCHANGED solutions
    BY DEF Fuzz
<1>2. MaxGenerations(settings') \in Nat \cup {NoLimit}
    BY <1>1, MaxGenerationsType
<1>3. /\ TypeOK' /\ InPhase' /\ EvaluatedIsCached'
      /\ YieldedIsSolved' /\ SolutionsDistinct' /\ SolutionsNotLost'
      /\ suspended = <<>> /\ UNCHANGED <<suspended, yielded>>
    BY <1>1, <1>2, GenerateEvaluator
<1>4. ApiTypeOK'
    BY <1>1, <1>3 DEF IInv, ApiTypeOK
<1>5. solutions = <<>> /\ yielded = <<>>
    BY <1>1 DEF IInv, InPhase
<1>6. settings'.desired # NoLimit => settings'.desired \in Nat \ {0}
    BY <1>1, SettingsAssumption
<1>7. SolutionsCollected'
    BY <1>1, <1>3, <1>5, <1>6 DEF SolutionsCollected
<1>8. ReturnsSolutions' /\ FailsIffMissing'
    BY <1>1 DEF ReturnsSolutions, FailsIffMissing, Returned
<1> QED
    BY <1>3, <1>4, <1>7, <1>8 DEF IInv

LEMMA GenerateSolutionsStep ==
    ASSUME IInv, GenerateSolutions
    PROVE  IInv'
<1>1. /\ call \in {"start", "stream"} /\ call' = "stream"
      /\ UNCHANGED <<settings, solutions>>
    BY DEF GenerateSolutions
<1>2. PICK m \in Limits : Generate(m)
    BY DEF GenerateSolutions
<1>3. m \in Nat \cup {NoLimit}
    BY SettingsAssumption
<1>4. /\ TypeOK' /\ InPhase' /\ EvaluatedIsCached'
      /\ YieldedIsSolved' /\ SolutionsDistinct' /\ SolutionsNotLost'
    BY <1>1, <1>2, <1>3, GenerateEvaluator
<1>5. ApiTypeOK'
    BY <1>1, <1>4 DEF IInv, ApiTypeOK
<1>6. SolutionsCollected' /\ ReturnsSolutions' /\ FailsIffMissing'
    BY <1>1 DEF SolutionsCollected, ReturnsSolutions, FailsIffMissing, Returned
<1> QED
    BY <1>4, <1>5, <1>6 DEF IInv

(* What remains of the invariant when the call ends.                       *)
LEMMA EndingQuiet ==
    ASSUME IInv, Ended, call' \in {"returned", "raised"},
           UNCHANGED <<vars, settings>>, solutions' \in Seq(Individuals),
           ReturnsSolutions', FailsIffMissing'
    PROVE  IInv'
<1>1. /\ call = "take" /\ phase = "idle"
      /\ UNCHANGED <<evaluatorVars, population, evaluation, phase, limit, generation,
                     next, todo, budget, settings>>
    BY DEF Ended, vars, evaluatorVars
<1>2. ApiTypeOK' /\ InPhase'
    BY <1>1 DEF IInv, ApiTypeOK, TypeOK, InPhase, evaluatorVars
<1>3. YieldedIsSolved' /\ SolutionsDistinct' /\ SolutionsNotLost'
    BY <1>1, EvaluatorQuiet
<1>4. EvaluatedIsCached'
    BY <1>1 DEF IInv, EvaluatedIsCached, Unflushed, evaluatorVars
<1>5. SolutionsCollected'
    BY <1>1 DEF SolutionsCollected
<1> QED
    BY <1>2, <1>3, <1>4, <1>5 DEF IInv

(* The solutions collected are those yielded: what is missing of them was  *)
(* not found.                                                              *)
LEMMA MissingIsInsufficient ==
    ASSUME IInv, Ended
    PROVE  /\ settings \in Settings
           /\ solutions \in Seq(Individuals) /\ population \in Seq(Individuals)
           /\ solutions = IF settings.infinite THEN <<>> ELSE yielded
           /\ settings.desired # NoLimit =>
                 Len(yielded) <= settings.desired /\ settings.desired \in Nat
           /\ ~settings.infinite => (Missing <=> Insufficient)
<1>1. call = "take" /\ phase = "idle"
    BY DEF Ended
<1>2. /\ settings \in Settings /\ solutions \in Seq(Individuals)
      /\ population \in Seq(Individuals) /\ yielded \in Seq(Individuals)
    BY <1>1 DEF IInv, ApiTypeOK, TypeOK
<1>3. suspended = <<>>
    BY <1>1 DEF IInv, InPhase
<1>4. solutions \o suspended = solutions
    BY <1>2, <1>3
<1>5. solutions = IF settings.infinite THEN <<>> ELSE yielded
    BY <1>1, <1>4 DEF IInv, SolutionsCollected
<1>6. settings.desired # NoLimit =>
          Len(yielded) <= settings.desired /\ settings.desired \in Nat
    BY <1>1, <1>2, SettingsAssumption DEF IInv, SolutionsCollected
<1> QED
    BY <1>2, <1>5, <1>6 DEF Missing, Insufficient

(* fuzz() raises, in either branch.                                        *)
LEMMA RaiseStep ==
    ASSUME IInv, Ended, Missing, settings.warningsAreErrors, Raise
    PROVE  IInv'
<1>1. call' = "raised" /\ UNCHANGED <<vars, settings, solutions>>
    BY DEF Raise
<1>2. /\ solutions \in Seq(Individuals)
      /\ ~settings.infinite => (Missing <=> Insufficient)
    BY MissingIsInsufficient
<1>3. UNCHANGED yielded
    BY <1>1 DEF vars
<1>4. ReturnsSolutions'
    BY <1>1 DEF ReturnsSolutions, Returned
<1>5. FailsIffMissing'
    BY <1>1, <1>2, <1>3 DEF FailsIffMissing, Insufficient
<1> QED
    BY <1>1, <1>2, <1>4, <1>5, EndingQuiet

(* fuzz() returns what it collected, as nothing is missing or missing      *)
(* solutions are no errors.                                                *)
LEMMA ReturnStep ==
    ASSUME IInv, Ended, ~(Missing /\ settings.warningsAreErrors), Return(<<>>)
    PROVE  IInv'
<1>1. /\ call' = "returned" /\ UNCHANGED <<vars, settings>>
      /\ solutions' = solutions \o <<>>
    BY DEF Return
<1>2. /\ solutions \in Seq(Individuals)
      /\ solutions = IF settings.infinite THEN <<>> ELSE yielded
      /\ settings.desired # NoLimit =>
            Len(yielded) <= settings.desired /\ settings.desired \in Nat
      /\ ~settings.infinite => (Missing <=> Insufficient)
    BY MissingIsInsufficient
<1>3. UNCHANGED yielded
    BY <1>1 DEF vars
<1>4. solutions' = solutions
    BY <1>1, <1>2
<1>5. ReturnsSolutions'
    <2>1. Len(<<>>) = 0
        OBVIOUS
    <2> QED
        BY <1>1, <1>2, <1>3, <1>4, <2>1 DEF ReturnsSolutions
<1>6. FailsIffMissing'
    BY <1>1, <1>2, <1>3 DEF FailsIffMissing, Insufficient
<1> QED
    BY <1>1, <1>2, <1>4, <1>5, <1>6, EndingQuiet

(* fuzz() pads what is missing.                                            *)
LEMMA PadStep ==
    ASSUME IInv, Ended, Missing, ~settings.warningsAreErrors, settings.bestEffort,
           Return(Padding)
    PROVE  IInv'
<1>1. /\ call' = "returned" /\ UNCHANGED <<vars, settings>>
      /\ solutions' = solutions \o Padding
    BY DEF Return
<1>2. /\ settings \in Settings
      /\ solutions \in Seq(Individuals) /\ population \in Seq(Individuals)
    BY MissingIsInsufficient
<1>3. settings.desired \in Nat /\ Len(solutions) < settings.desired
    BY <1>2, SettingsAssumption DEF Missing
<1>4. Min2(settings.desired - Len(solutions), Len(population)) \in 0..Len(population)
    BY <1>2, <1>3 DEF Min2
<1>5. SubSeq(population, 1,
             Min2(settings.desired - Len(solutions), Len(population)))
          \in Seq(Individuals)
    BY <1>2, <1>4, ToSetBeginning
<1>6. Padding \in Seq(Individuals)
    BY <1>2, <1>5 DEF Padding
<1>7. solutions' \in Seq(Individuals)
    BY <1>1, <1>2, <1>6
<1>8. ReturnsSolutions' /\ FailsIffMissing'
    BY <1>1 DEF ReturnsSolutions, FailsIffMissing
<1> QED
    BY <1>1, <1>7, <1>8, EndingQuiet

(* The branches of _print_warnings_if_necessary_post_fuzz.                 *)
LEMMA EndingStep ==
    ASSUME IInv, Ending
    PROVE  IInv'
<1>1. CASE Complete
    BY <1>1, ReturnStep DEF Complete
<1>2. ASSUME Ended, Missing, RaiseOrPad
      PROVE  IInv'
    BY <1>2, RaiseStep, PadStep DEF RaiseOrPad
<1>3. CASE Unconverged
    BY <1>2, <1>3 DEF Unconverged
<1>4. CASE TooFew
    <2>1. CASE RaiseOrPad
        BY <1>2, <1>4, <2>1 DEF TooFew
    <2>2. CASE ~settings.warningsAreErrors /\ Return(<<>>)
        BY <1>4, <2>2, ReturnStep DEF TooFew
    <2> QED
        BY <1>4, <2>1, <2>2 DEF TooFew
<1> QED
    BY <1>1, <1>3, <1>4 DEF Ending

-----------------------------------------------------------------------------
(* Every step preserves the invariant.                                     *)
LEMMA NextIInv == IInv /\ [ApiNext]_allVars => IInv'
<1> SUFFICES ASSUME IInv, [ApiNext]_allVars PROVE IInv'
    OBVIOUS
<1>1. CASE Fuzz
    BY <1>1, FuzzStep
<1>2. CASE GenerateSolutions
    BY <1>2, GenerateSolutionsStep
<1>3. CASE CallerResumes \/ CallerDrops
    BY <1>3, CallerStep
<1>4. CASE Strategy
    <2> USE <1>4 DEF Strategy
    <2>1. CASE CacheHit
        BY <2>1, CacheHitStep
    <2>2. CASE CacheMiss
        BY <2>2, CacheMissStep
    <2>3. CASE FillInitial \/ Fill
        BY <2>3, AttemptStep
    <2>4. CASE AddInitial \/ AddFilled
        BY <2>4, AddStep
    <2>5. CASE InitialFilled
        BY <2>5, InitialFilledStep
    <2>6. CASE InitialEvaluated
        BY <2>6, InitialEvaluatedStep
    <2>7. CASE Exhausted
        BY <2>7, ExhaustedStep
    <2>8. CASE Select
        BY <2>8, SelectStep
    <2>9. CASE Crossover
        BY <2>9, CrossoverStep
    <2>10. CASE CrossoverDone
        BY <2>10, CrossoverDoneStep
    <2>11. CASE Mutate
        BY <2>11, MutateStep
    <2>12. CASE MutationPoolRaises
        BY <2>12, MutationPoolRaisesStep
    <2>13. CASE RefillDone
        BY <2>13, RefillDoneStep
    <2>14. CASE Fix
        BY <2>14, FixStep
    <2>15. CASE Evaluated
        BY <2>15, EvaluatedStep
    <2> QED
        BY <2>1, <2>2, <2>3, <2>4, <2>5, <2>6, <2>7, <2>8, <2>9, <2>10, <2>11,
           <2>12, <2>13, <2>14, <2>15 DEF Evolving, Evolve
<1>5. CASE Take \/ TakeLast
    BY <1>5, TakeStep
<1>6. CASE Ending
    BY <1>6, EndingStep
<1>7. CASE UNCHANGED allVars
    <2>1. /\ UNCHANGED <<evaluatorVars, population, evaluation, phase, limit,
                         generation, next, todo, budget>>
          /\ UNCHANGED <<settings, call, solutions>>
        BY <1>7 DEF allVars, vars, apiVars, evaluatorVars
    <2>2. ApiTypeOK' /\ InPhase'
        BY <2>1 DEF IInv, ApiTypeOK, TypeOK, InPhase, evaluatorVars
    <2>3. YieldedIsSolved' /\ SolutionsDistinct' /\ SolutionsNotLost'
        BY <2>1, EvaluatorQuiet
    <2>4. EvaluatedIsCached' /\ SolutionsCollected'
        BY <2>1 DEF IInv, EvaluatedIsCached, Unflushed, SolutionsCollected,
                    evaluatorVars
    <2>5. ReturnsSolutions' /\ FailsIffMissing'
        BY <2>1 DEF IInv, ReturnsSolutions, FailsIffMissing, Insufficient,
                    Returned, evaluatorVars
    <2> QED
        BY <2>2, <2>3, <2>4, <2>5 DEF IInv
<1> QED
    BY <1>1, <1>2, <1>3, <1>4, <1>5, <1>6, <1>7 DEF ApiNext

(* The invariant holds in all calls of fuzz() and generate_solutions().    *)
THEOREM Invariance == ApiSpec => []IInv
BY InitIInv, NextIInv, PTL DEF ApiSpec

(* All calls of generate() on a strategy, complete or dropped, work with   *)
(* lists of individuals and in the phases there are.                       *)
THEOREM TypeCorrectness == ApiSpec => []ApiTypeOK
<1>1. IInv => ApiTypeOK
    BY DEF IInv
<1> QED
    BY <1>1, Invariance, PTL

(* The solution set keeps evaluate_individual from yielding a solution     *)
(* twice, however often the cache is flushed and the generator dropped.    *)
THEOREM NoSolutionTwice == ApiSpec => []SolutionsDistinct
<1>1. IInv => SolutionsDistinct
    BY DEF IInv
<1> QED
    BY <1>1, Invariance, PTL

(* What evaluate_individual caches with the expected fitness was yielded   *)
(* before.                                                                 *)
THEOREM NoSolutionLost == ApiSpec => []SolutionsNotLost
<1>1. IInv => SolutionsNotLost
    BY DEF IInv
<1> QED
    BY <1>1, Invariance, PTL

(* compute_mutation_pool finds the fitness of all it is given, unless soft *)
(* constraints flushed the cache under a generator that was dropped.       *)
THEOREM MutationPoolLooksUp == ApiSpec => []ElitesAreCached
<1>1. IInv => ElitesAreCached
    BY DEF IInv, EvaluatedIsCached, Unflushed, ElitesAreCached
<1> QED
    BY <1>1, Invariance, PTL

(* fuzz() returns what its generator yields, in this order and up to the   *)
(* desired number, unless best effort is asked for.                        *)
THEOREM FuzzReturnsSolutions == ApiSpec => []ReturnsSolutions
<1>1. IInv => ReturnsSolutions
    BY DEF IInv
<1> QED
    BY <1>1, Invariance, PTL

(* With warnings as errors, fuzz() raises just when its generator ended    *)
(* with fewer solutions than desired, in both branches and whatever the    *)
(* generator and its consumer did before, unless the mode is infinite.     *)
THEOREM FuzzRaisesIffMissing == ApiSpec => []FailsIffMissing
<1>1. IInv => FailsIffMissing
    BY DEF IInv
<1> QED
    BY <1>1, Invariance, PTL

=============================================================================
