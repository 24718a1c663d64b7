CONSTANTS
    C = C
    S = S
    T = T
    None = None
    ping = ping
    pong = pong
    pang = pang
    note = note
    tick = tick
    tock = tock
    FuzzerParties = {C}
    ExternalParties = {S, T}
    NoParty = None
    NonTerminals = {ping, pong, pang, note, tick, tock}
    Atoms = {1, 2, 3}
    Words <- MCWords
    Viable <- MCViable
    Underivable <- MCUnderivable
    Language <- MCLanguage
    Predicted <- MCPredicted
    Evolved <- MCEvolved
    Fitness <- MCFitness
    Arrivals = {}
    MaxArrivals = 10
    MaxSessions = 2
    Bounded = FALSE

SPECIFICATION PeersFairSpec
INVARIANTS
    HistoryIsWhatHappened
    NeverFails
    NothingLeftBehind
PROPERTY Completes
CHECK_DEADLOCK FALSE
