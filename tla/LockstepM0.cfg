SPECIFICATION LockstepSpec
CONSTANTS
    Inputs <- MCInputs
    Zero = 0
    InitReg <- MCInitRegs
    InitZ <- MCInitZ
    Programs <- LockstepProgramsM0
    Core = "M0"
    LoopLimit = 1
    Ends <- MCExecute
    PcFloor = 4
    HexThreshold = 3
    RandVals = {0, 8}
    SolverFails = TRUE
    CondTooLong = TRUE
    Null = Null
INVARIANTS
    PathSound
    PendingSound
CHECK_DEADLOCK FALSE
