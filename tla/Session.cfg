SPECIFICATION Spec
CONSTANTS
    Words <- MCWords
    Inputs = {1, 2}
    Addresses = {0, 4, 12}
    LoopLimit = 2
    HexThreshold = 9
    SolverFails = TRUE
    MaxCalls = 3
    Undecodable = Undecodable
    Null = Null
INVARIANTS
    FreshResult
    OwnInstruction
    OwnCondition
    LeftAtEnd
PROPERTIES
    EveryCallEnds
    CallProgresses
CHECK_DEADLOCK FALSE
