SPECIFICATION Spec
CONSTANTS
    W = 4
    Inputs <- MCInputs
    Zero <- MCZero
    Instructions <- MCInstructions
    MaxSteps = 1
PROPERTIES
    XorIsXor
CHECK_DEADLOCK FALSE
