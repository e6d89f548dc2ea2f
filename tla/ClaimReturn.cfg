SPECIFICATION ClaimsSpec
CONSTANTS
    Inputs <- MCInputs
    Zero = 0
    InitReg <- MCInitReg
    InitZ <- MCInitZ
    Programs <- CallProgram
    Core = "M3"
    LoopLimit = 5
    Ends <- MCExecute
    PcFloor = 0
    HexThreshold = 9
    RandVals = {0, 8}
    SolverFails = FALSE
    CondTooLong = FALSE
    Null = Null
INVARIANTS
    ReturnsAfterCall
CHECK_DEADLOCK FALSE
