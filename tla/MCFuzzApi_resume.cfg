CONSTANTS
    a = a
    b = b
    c = c
    Individuals = {a, b, c}
    Strategies <- MCSoft
    Scores <- MCScores
    SoftScores <- MCSoftScores
    Fixed <- MCFixed
    ExpectedFitness = 100
    PopulationSize = 2
    Elites = 1
    AttemptsPerSlot = 2
    NoLimit = NoLimit
    Limits = {2}
    DefaultMaxGenerations = 1
    Settings <- MCSettings

SPECIFICATION ApiSpec
INVARIANT NoKeyError
CHECK_DEADLOCK FALSE
