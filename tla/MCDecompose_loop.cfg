SPECIFICATION Spec
CONSTANTS
    N = 4
    Vertices <- MCVertices
    BB = 0
    Inputs <- MCInputs
    Params <- MCBreakOut
INVARIANT
    ChainsHaveNoLoop
