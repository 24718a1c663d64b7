CONSTANTS
    a = a
    b = b
    c = c
    Individuals = {a, b, c}
    Strategies <- MCHard
    Scores <- MCScores
    SoftScores <- MCSoftScores
    Fixed <- MCFixed
    ExpectedFitness = 100
    PopulationSize = 2
    Elites = 1
    AttemptsPerSlot = 2
    NoLimit = NoLimit
    Limits = {2}
    DefaultMaxGenerations = 1
    Settings <- MCBestEffort

SPECIFICATION ApiSpec
INVARIANT PaddedToDesired
CHECK_DEADLOCK FALSE
