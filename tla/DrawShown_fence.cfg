SPECIFICATION Spec
CONSTANTS
    g = g
    a1 = a1
    a2 = a2
    a3 = a3
    a4 = a4
    b1 = b1
    None = None
    Blocks <- MCBlocks
    Path <- MCPath
    Boundary = 2
    MinConf = 2
    MaxUpsets = 2
INVARIANTS TypeOK FencedIsDeep QuietIsTrue
CHECK_DEADLOCK FALSE
