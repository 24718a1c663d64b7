CONSTANTS
    MaxRepetitions = 2
    Grammars <- MCGrammars
    LongFirst <- MCLongFirst
    Fragments <- MCFragments
    MaxMessages = 5
    MaxLength = 5
    Slack = 3

SPECIFICATION Spec
INVARIANTS
    ParsesLanguage
    ContinuesIffLonger
    ForecastExact
PROPERTY MountsNext
CHECK_DEADLOCK FALSE
