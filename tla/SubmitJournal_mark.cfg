SPECIFICATION Spec
CONSTANTS
    a = a
    b = b
    c = c
    d = d
    o = o
    p = p
    Disk = Disk
    Absent = Absent
    NoTx = NoTx
    Nobody = Nobody
    Tabs = {t1}
    Txs = {a, b}
    Fallible = {}
    Trackers = {t1}
    InputsOf <- MCInputsOf
    Replaces <- MCReplaces
    RootOf <- MCRootOf
INVARIANTS
    MarkOnlyPoints
