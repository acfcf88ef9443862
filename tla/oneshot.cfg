SPECIFICATION LiveSpec
CONSTANTS
    MaxTurns = 3
    MaxRepairs = 2
    MaxTokens = 1
    MaxBytes = 7
    Bytes <- ItemBytes
    MaxRefusals = 2
    InitialRead = TRUE
    Policies = {"durable", "transient"}
    Env = {"cancel", "crash", "port_fault", "misuse", "exhaust"}
INVARIANTS
    TypeOK
    PaidOnce
    ContextExact
    LimitsKept
    AccountsExact
    ActsOnRecord
PROPERTIES
    CancelHeeded
    ChainSpec
    CancelledEnds
