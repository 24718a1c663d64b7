SPECIFICATION Spec
CONSTANTS
    None = None
    Bad = Bad
    Data = {0, 1, Bad}
    Symbols = {"item", "x", "y"}
    Locals = {"n"}
    Specifications <- MCSixConstraints
    Trees <- MCTrees
    MaxTrees = 1
INVARIANTS
    SatisfiedIsSolution
CHECK_DEADLOCK FALSE
