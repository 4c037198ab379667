SPECIFICATION Spec
CONSTANTS
    a = a
    b = b
    c = c
    d = d
    o = o
    p = p
    Disk = Disk
    Absent = Absent
    NoTx = NoTx
    Nobody = Nobody
    Tabs = {t1, t2}
    Txs = {a, b, d}
    Fallible = {}
    Trackers = {t1, t2}
    InputsOf <- MCInputsOf
    Replaces <- MCReplaces
    RootOf <- MCRootOf
INVARIANTS
    TypeOK
    NoRivals
PROPERTIES
    ReleasedForGood
SYMMETRY TabSymmetry
