SPECIFICATION Spec
CONSTANTS
    MaxTurns = 2
    MaxRepairs = 2
    MaxTokens = 1
    MaxBytes = 10
    Bytes <- ItemBytes
    MaxRefusals = 2
    InitialRead = FALSE
    Policies = {"durable"}
    Env = {"cancel"}
INVARIANT OutcomeTyped
