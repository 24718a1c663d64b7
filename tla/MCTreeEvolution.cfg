CONSTANTS
    None = None
    Slice = Slice
    Start = "start"
    Rules <- MCRules
    Mounts <- MCMounts
    Ours = {"C"}
    PopulationSize = 2
    MaxMessages = 3
    Slices <- MCSlices

SPECIFICATION Spec
INVARIANTS
    TreesAreDisjoint
    CachesFresh
    HistoryKept
    ReplacesGivenNode
CHECK_DEADLOCK FALSE
