SPECIFICATION FairSpec
CONSTANTS
    b1 = b1
    b2 = b2
    s1 = s1
    NoBlock = NoBlock
    NoSession = NoSession
    Blocks = {b1, b2}
    Sessions = {s1}
    MaxChanges = 2
    MaxFaults = 1
INVARIANTS TypeOK CurrentIsSelected NoNewsWhileAsleep
PROPERTY AcceptanceIsLearned
CHECK_DEADLOCK FALSE
