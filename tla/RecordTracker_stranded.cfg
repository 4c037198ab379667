SPECIFICATION Spec
CONSTANTS
    a = a
    b = b
    f = f
    g = g
    Followers = {f, g}
    Rival = Rival
    NoTx = NoTx
    Txs = {a, b}
    Root = a
    RecheckDepth = 1
    MaxReorg = 1
    MaxBlocks = 3
    ResendLimit = 2
    Resendable = {b}
    Rounds = 2
SYMMETRY Symmetry
INVARIANTS
    InheritsVerdict
