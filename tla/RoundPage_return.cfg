SPECIFICATION Spec
CONSTANTS
    st0 = st0
    st1 = st1
    stEnd = stEnd
    None = None
    States <- MCStates
    Path <- MCPath
    Final <- MCFinal
    MaxMoves = 1
    MaxUpsets = 2
INVARIANTS TypeOK CurrentIsOnChain NextReadIsDue SettledWasDeep RecoveredIsTracked RecoveryIsDue
CHECK_DEADLOCK FALSE
