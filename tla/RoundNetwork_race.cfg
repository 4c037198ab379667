SPECIFICATION Spec
CONSTANTS
    Owner = owner
    Deposit = 200
    MinPrice = 50
    Finalizer = 50
    MaxPayFee = 25
    RefundFee = 1
    ValueLimit = 400
    MaxRefundRecords = 1
    DrawDelay = 1
    TimeoutDelay = 2
    DaaLimit = 6
    SampleSpace = 4
    Clients = {k1}
    Others = {owner}
    Config <- MCConfig
    MaxPurchases = 2
    MaxTickets = 4
    Fees = {25}
    Quantities = {1, 3}
    MaxDaa = 4
    Surplus = {30}
    Idle = Idle
    NoTx = NoTx
INVARIANTS
    TypeOK
    DraftsAreAccepted
    AcceptedIsExplained
    LiveIsVerifiable
    PaysTheRightKeys
PROPERTIES
    ImplementsContract
CHECK_DEADLOCK FALSE
