SPECIFICATION FairSpec
CONSTANTS
    Configs <- MCConfigs
    Deposit = 200
    MinPrice = 50
    Finalizer = 50
    MaxPayFee = 25
    RefundFee = 1
    ValueLimit = 450
    MaxTickets = 5
    MaxPurchases = 5
    MaxRefundRecords = 2
    DrawDelay = 2
    TimeoutDelay = 4
    DaaLimit = 10
    SampleSpace = 8
    Fees = {1, 25}
    Externals = {0, 30}
INVARIANTS
    TypeOK
    LedgerValid
    EscrowExact
    RefundedOnce
    Conserved
    Settlement
    NeverUnpayable
    DrawWellDefined
PROPERTIES
    RoundsEnd
    SpendsAdvance
    ImplementsEscrow
CHECK_DEADLOCK FALSE
