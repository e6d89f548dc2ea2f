SPECIFICATION Spec
CONSTANTS
    W = 4
    Inputs <- MCInputs
    Zero <- MCZero
    Instructions <- MCInstructions
    MaxSteps = 3
INVARIANTS
    FormulaExact
    HalvesAgree
    FlagsExact
    SignedOrder
    FaithfulFormulas
    FaithfulHalves
CHECK_DEADLOCK FALSE
