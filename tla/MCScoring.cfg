SPECIFICATION Spec
CONSTANTS
    None = None
    Bad = Bad
    Data = {0, 1, Bad}
    Symbols = {"item", "x", "y"}
    Locals = {"n"}
    Specifications <- MCSpecifications
    Trees <- MCTrees
    MaxTrees = 2
INVARIANTS
    ChecksMeaning
    PerfectMeansSatisfied
    SolutionsSatisfy
    FailureIsBlamed
    InvertOpposes
CHECK_DEADLOCK FALSE
