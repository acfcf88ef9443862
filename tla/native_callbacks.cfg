SPECIFICATION Spec
CONSTANTS
    c1 = c1
    c2 = c2
    CallId = {c1, c2}
    Body = {good, bad}
    InvalidBody = {bad}
    NumInputs = 0
    PendingCalls = 2
    MaxArrivals = 3
    Env = {"cancel", "port_fault"}
    NoCall = NoCall
    NoPoll = NoPoll
    NoBatch = NoBatch
    NoEvent = NoEvent
SYMMETRY CallSymmetry
INVARIANTS
    TypeOK
    DispatchOnce
    NoProgressJustified
PROPERTIES
    DispatchBeforeFence
    LedgerSpec
