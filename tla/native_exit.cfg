SPECIFICATION ControlSpec
CONSTANTS
    c1 = c1
    c2 = c2
    CallId = {c1}
    Body = {good}
    InvalidBody = {}
    NumInputs = 0
    PendingCalls = 1
    MaxArrivals = 1
    Env = {"cancel", "preempt", "owner_loss", "misuse", "chatter", "ack_withheld"}
    NoCall = NoCall
    NoPoll = NoPoll
    NoBatch = NoBatch
    NoEvent = NoEvent
INVARIANTS
    FailureFences
    TruthCommitted
PROPERTIES
    TruthWins
    ControlDecides
    DecidedReturns
