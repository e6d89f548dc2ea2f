SPECIFICATION Spec
CONSTANTS
    Inputs <- MCInputs
    Zero = 0
    InitReg <- MCInitReg
    InitZ <- MCInitZ
    Programs <- MCPrograms
    Core = "M7"
    LoopLimit = 2
    Ends <- MCExecute
    PcFloor = 0
    HexThreshold = 3
    RandVals = {0, 8}
    SolverFails = TRUE
    CondTooLong = FALSE
    Null = Null
INVARIANTS
    TypeOK
    PendingDisjoint
    PendingFeasible
    RollbackSafe
    ExitExhausted
    CfgConnected
    DotComplete
PROPERTIES
    NothingDropped
    ImplementsWorklist
CHECK_DEADLOCK FALSE
