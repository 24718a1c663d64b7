----------------------------- MODULE MCFuzzApi -----------------------------
(***************************************************************************)
(* Calls of fuzz() and generate_solutions() for TLC: of three individuals  *)
(* a and c are solutions, b is fixed to c.                                 *)
(***************************************************************************)
EXTENDS FuzzApi

CONSTANTS a, b, c

MCScores == (a :> 100 @@ b :> 40 @@ c :> 100)

MCSoftScores == (a :> {60, 100} @@ b :> {40} @@ c :> {60, 100})

MCFixed == (a :> a @@ b :> c @@ c :> c)

Hard == [soft |-> FALSE, survivors |-> 2]

MCSoft == {[soft |-> TRUE, survivors |-> 1]}

MCStrategies == {Hard} \cup MCSoft

MCHard == {Hard}

Args(desired, max, infinite, bestEffort, warningsAreErrors) ==
    [desired : desired, max : max, infinite : infinite,
     bestEffort : bestEffort, warningsAreErrors : warningsAreErrors]

MCSettings ==
    Args({1, 3, NoLimit}, {1}, {FALSE}, {FALSE}, BOOLEAN)
    \cup Args({2, NoLimit}, {NoLimit, 1}, BOOLEAN, {FALSE}, {FALSE})

MCBestEffort == Args({3}, {1}, {FALSE}, {TRUE}, {FALSE})

MCAllSettings == MCSettings \cup Args({3}, {1}, {FALSE}, {TRUE}, BOOLEAN)

=============================================================================
