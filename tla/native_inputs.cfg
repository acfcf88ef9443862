SPECIFICATION Spec
CONSTANTS
    c1 = c1
    c2 = c2
    CallId = {c1, c2}
    Body = {good}
    InvalidBody = {}
    NumInputs = 2
    PendingCalls = 2
    MaxArrivals = 2
    Env = {"steer_unknown", "stream_end"}
    NoCall = NoCall
    NoPoll = NoPoll
    NoBatch = NoBatch
    NoEvent = NoEvent
SYMMETRY CallSymmetry
INVARIANTS
    BatchDone
    NoInputSkipped
    LineageRecorded
PROPERTIES
    CheckpointsAdvance
