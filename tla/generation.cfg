SPECIFICATION Spec
CONSTANTS
    a = a
    b = b
    Call = {a, b}
    MaxTurns = 3
    LastOrdinal = 4
    MaxProposals = 2
    Env = {"cancel", "crash", "port_fault", "misuse", "mismatch"}
SYMMETRY ToolSymmetry
INVARIANTS
    SuccessorEarned
    EffectsInOrder
    ReturnIsExact
PROPERTIES
    AcknowledgedFirst
    CancelHeeded
    ChainSpec
