SPECIFICATION LockstepSpec
CONSTANTS
    Inputs <- MCInputs
    Zero = 0
    InitReg <- MCInitRegs
    InitZ <- MCInitZ
    Programs <- LockstepPrograms
    Core = "M7"
    LoopLimit = 1
    Ends <- MCExecute
    PcFloor = 0
    HexThreshold = 3
    RandVals = {0, 8}
    SolverFails = FALSE
    CondTooLong = FALSE
    Null = Null
INVARIANTS
    PathSound
    PendingSound
PROPERTIES
    IndirectFollowed
    NoBranchLost
    ResumesWhenStuck
CHECK_DEADLOCK FALSE
