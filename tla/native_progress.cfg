SPECIFICATION ProgressSpec
CONSTANTS
    c1 = c1
    c2 = c2
    CallId = {c1}
    Body = {good}
    InvalidBody = {}
    NumInputs = 1
    PendingCalls = 2
    MaxArrivals = 1
    Env = {"commentary"}
    NoCall = NoCall
    NoPoll = NoPoll
    NoBatch = NoBatch
    NoEvent = NoEvent
PROPERTIES
    InputSteered
