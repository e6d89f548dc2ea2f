SPECIFICATION ClaimsSpec
CONSTANTS
    Inputs <- MCInputs
    Zero = 0
    InitReg <- MCInitReg
    InitZ <- MCInitZ
    Programs <- ForkProgram
    Core = "M4"
    LoopLimit = 5
    Ends <- MCExecute
    PcFloor = 0
    HexThreshold = 9
    RandVals = {0, 8}
    SolverFails = FALSE
    CondTooLong = FALSE
    Null = Null
PROPERTIES
    RollbackRestores
CHECK_DEADLOCK FALSE
