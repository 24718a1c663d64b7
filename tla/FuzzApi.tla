------------------------------- MODULE FuzzApi -------------------------------
(***************************************************************************)
(* The consumers of the generator of Evolution.  Fandango.fuzz() takes the *)
(* desired number of solutions, or all of them, and makes up for missing   *)
(* ones in best-effort mode.  generate_solutions() hands the generator to  *)
(* its caller, who may drop it at any solution and ask for another.        *)
(***************************************************************************)
EXTENDS Evolution

CONSTANTS
    Settings,                \* the arguments of fuzz() that are checked
    Limits,                  \* those of generate_solutions()
    DefaultMaxGenerations    \* DEFAULT_MAX_GENERATIONS

ASSUME SettingsAssumption ==
    /\ Settings \subseteq [desired : (Nat \ {0}) \cup {NoLimit},
                           max : Nat \cup {NoLimit},
                           infinite : BOOLEAN, bestEffort : BOOLEAN,
                           warningsAreErrors : BOOLEAN]
    /\ Limits \subseteq Nat \cup {NoLimit}
    /\ DefaultMaxGenerations \in Nat

VARIABLES
    settings,     \* the arguments of fuzz()
    call,         \* where the call is; "stream" for generate_solutions()
    solutions     \* the list it returns

apiVars == <<settings, call, solutions>>

allVars == <<vars, apiVars>>

ApiTypeOK ==
    /\ TypeOK
    /\ call \in {"start", "stream", "take", "returned", "raised"}
    /\ IF call \in {"start", "stream"} THEN settings = <<>>
                                       ELSE settings \in Settings
    /\ solutions \in Seq(Individuals)

ApiInit == /\ Init
           /\ settings = <<>>
           /\ call = "start"
           /\ solutions = <<>>

(* Mutant: the number of solutions desired replaces the generations.       *)
MaxGenerationsUnlessDesired(s) ==
    IF s.infinite \/ s.desired # NoLimit THEN NoLimit
    ELSE IF s.max = NoLimit THEN DefaultMaxGenerations
    ELSE s.max

(* _sanitize_runtime_end_settings.                                         *)
MaxGenerations(s) ==
    IF s.infinite THEN NoLimit
    ELSE IF s.max = NoLimit /\ s.desired = NoLimit
    THEN DefaultMaxGenerations
    ELSE s.max

(* init_population makes a new strategy.                                   *)
Fuzz == /\ call = "start"
        /\ settings' \in Settings
        /\ Generate(MaxGenerations(settings'))
        /\ call' = "take"
        /\ UNCHANGED solutions

(* generate_solutions makes a strategy only if there is none.              *)
GenerateSolutions ==
    /\ call \in {"start", "stream"}
    /\ \E m \in Limits : Generate(m)
    /\ call' = "stream"
    /\ UNCHANGED <<settings, solutions>>

CallerResumes == call = "stream" /\ Resume /\ UNCHANGED apiVars

CallerDrops == call = "stream" /\ Abandon /\ UNCHANGED apiVars

Strategy == Evolving /\ UNCHANGED apiVars

(* Mutant: one too many.                                                   *)
EnoughLate == settings.desired # NoLimit /\ Len(yielded) > settings.desired

Enough == settings.desired # NoLimit /\ Len(yielded) >= settings.desired

(* Mutant: append() for extend().                                          *)
KeepNested == solutions' = Append(solutions, suspended)

Keep == solutions' = IF settings.infinite THEN solutions
                     ELSE solutions \o suspended

Raise == call' = "raised" /\ UNCHANGED <<vars, settings, solutions>>

Return(list) == /\ call' = "returned"
                /\ solutions' = solutions \o list
                /\ UNCHANGED <<vars, settings>>

(* The loop takes a solution, or the generator raises; islice does not     *)
(* resume it after the last one desired.                                   *)
Take == /\ call = "take"
        /\ \/ ~Enough /\ Keep /\ Resume /\ UNCHANGED <<settings, call>>
           \/ phase = "key_error" /\ Raise

TakeLast == /\ call = "take"
            /\ Enough
            /\ Keep
            /\ Abandon
            /\ UNCHANGED <<settings, call>>

Missing == settings.desired # NoLimit /\ Len(solutions) < settings.desired

(* _print_warnings_if_necessary_post_fuzz, whose result is appended to the *)
(* solutions.                                                              *)
Ended == call = "take" /\ phase = "idle"

(* In best-effort mode the result holds the solutions once more.           *)
Padding == solutions \o
    SubSeq(population, 1, Min2(settings.desired - Len(solutions), Len(population)))

Complete == Ended /\ ~Missing /\ Return(<<>>)

RaiseOrPad ==
    \/ settings.warningsAreErrors /\ Raise
    \/ ~settings.warningsAreErrors /\ settings.bestEffort /\ Return(Padding)

(* The average fitness of the population may be less than expected: which  *)
(* it is depends on the diversity bonuses.                                 *)
Unconverged == Ended /\ Missing /\ RaiseOrPad

(* Mutant: the second message is never an error.                           *)
TooFewLogged ==
    /\ Ended /\ Missing
    /\ IF settings.bestEffort THEN Return(Padding) ELSE Return(<<>>)

(* The average is as expected, or neither raised nor padded.               *)
TooFew ==
    /\ Ended /\ Missing
    /\ \/ RaiseOrPad
       \/ ~settings.warningsAreErrors /\ ~settings.bestEffort /\ Return(<<>>)

Ending == Complete \/ Unconverged \/ TooFew

ApiNext == \/ Fuzz \/ GenerateSolutions \/ CallerResumes \/ CallerDrops
           \/ Strategy \/ Take \/ TakeLast \/ Ending

ApiSpec == ApiInit /\ [][ApiNext]_allVars

(* The caller of generate_solutions() owes nothing.                        *)
ApiFairSpec ==
    /\ ApiSpec
    /\ WF_allVars(Strategy)
    /\ WF_allVars(Take \/ TakeLast \/ Ending)

-----------------------------------------------------------------------------
(* Properties.                                                             *)

Returned == call = "returned"

(* Without best effort, what is returned are the first solutions found, in *)
(* their order, none twice, and no more than desired; it is all of them    *)
(* unless the mode is infinite, which keeps none.                          *)
ReturnsSolutions ==
    Returned /\ ~settings.bestEffort =>
        /\ solutions = IF settings.infinite THEN <<>> ELSE yielded
        /\ settings.desired # NoLimit => Len(solutions) <= settings.desired

Insufficient == settings.desired # NoLimit /\ Len(yielded) < settings.desired

(* fuzz() raises just when warnings are errors and its generator yielded   *)
(* fewer than desired, in whichever of the two branches, unless the mode   *)
(* is infinite.                                                            *)
FailsIffMissing ==
    call \in {"returned", "raised"} /\ ~settings.infinite =>
        (call = "raised" <=> settings.warningsAreErrors /\ Insufficient)

(* "the population to append to the solutions before returning": best      *)
(* effort makes up for the missing solutions, no more.                     *)
PaddedToDesired ==
    Returned /\ settings.bestEffort /\ settings.desired # NoLimit
        => Len(solutions) <= settings.desired

(* The elites of a population are in the fitness cache, whatever was       *)
(* dropped before, unless soft constraints flush it.                       *)
ElitesAreCached == phase = "key_error" => strategy.soft /\ call = "stream"

(* fuzz() ends when max_generations is given.                              *)
LimitedCallEnds ==
    (call = "take" /\ settings.max # NoLimit /\ ~settings.infinite)
        ~> call \in {"returned", "raised"}

=============================================================================
