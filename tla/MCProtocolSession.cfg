CONSTANTS
    FuzzerParties = {"C"}
    ExternalParties = {"S", "T"}
    NoParty = ""
    NonTerminals = {"ping", "pong", "pang", "note", "tick"}
    Atoms = {1, 2, 3}
    Words <- MCWords
    Viable <- MCViable
    Underivable <- MCUnderivable
    Language <- MCLanguage
    Predicted <- MCPredicted
    Evolved <- MCEvolved
    Fitness <- MCFitness
    Arrivals <- MCArrivals
    MaxArrivals = 3
    MaxSessions = 2
    Bounded = TRUE

SPECIFICATION FairSpec
INVARIANTS
    TypeOK
    Conservation
    PositionsStayValid
    LongestParseKept
    SenderStaysForecast
    DoneMeansComplete
PROPERTIES
    KeepsPromise
    NothingAfterStraying
    SessionEnds
CHECK_DEADLOCK FALSE
