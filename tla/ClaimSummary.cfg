SPECIFICATION ClaimsSpec
CONSTANTS
    Inputs <- MCInputs
    Zero = 0
    InitReg <- MCInitReg
    InitZ <- MCInitZ
    Programs <- GuardedProgram
    Core = "M0_PLUS"
    LoopLimit = 5
    Ends <- MCByteExecute
    PcFloor = 0
    HexThreshold = 9
    RandVals = {0, 8}
    SolverFails = FALSE
    CondTooLong = FALSE
    Null = Null
INVARIANTS
    SummaryCorrect
CHECK_DEADLOCK FALSE
