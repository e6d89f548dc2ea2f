SPECIFICATION FairSpec
CONSTANTS
    Inputs <- MCInputs
    Zero = 0
    InitReg <- MCInitReg
    InitZ <- MCInitZ
    Programs <- MCProgramsLoop
    Core = "M33"
    LoopLimit = 2
    Ends <- MCBoth
    PcFloor = 0
    HexThreshold = 3
    RandVals = {0, 8}
    SolverFails = TRUE
    CondTooLong = FALSE
    Null = Null
PROPERTIES
    Terminates
    Progresses
CHECK_DEADLOCK FALSE
