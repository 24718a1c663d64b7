CONSTANTS
    Kinds <- MCKinds
    MaxStarts = 3
    MaxData = 2

SPECIFICATION FairSpec
INVARIANTS
    TypeOK
    ListenerIsJoined
    OneConnectionPerRun
    RunningMeansListening
    AssertionsHold
PROPERTY CallsReturn
CHECK_DEADLOCK FALSE
