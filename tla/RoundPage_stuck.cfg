SPECIFICATION Spec
CONSTANTS
    st0 = st0
    st1 = st1
    stEnd = stEnd
    None = None
    States <- MCStates
    Path <- MCPath
    Final <- MCFinal
    MaxMoves = 1
    MaxUpsets = 1
INVARIANTS AlwaysTracked
CHECK_DEADLOCK FALSE
