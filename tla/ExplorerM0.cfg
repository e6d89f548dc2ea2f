SPECIFICATION Spec
CONSTANTS
    Inputs <- MCInputs
    Zero = 0
    InitReg <- MCInitReg
    InitZ <- MCInitZ
    Programs <- MCProgramsM0
    Core = "M0"
    LoopLimit = 2
    Ends <- MCBoth
    PcFloor = 0
    HexThreshold = 3
    RandVals = {0, 8}
    SolverFails = TRUE
    CondTooLong = TRUE
    Null = Null
INVARIANTS
    PendingFeasible
    RollbackSafe
    CfgConnected
CHECK_DEADLOCK FALSE
