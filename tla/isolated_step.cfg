SPECIFICATION Spec
CONSTANTS
    Limit = 9
    Stable = 1
    MaxInputs = 1
    MaxObjectDepth = 5
    MaxProperties = 4
    Granted = {"search"}
    Policies <- AllPolicies
    Observations <- Offer
    Histories <- PastObservations
    Contracts <- SomeContracts
    Values <- AllValues
    Unfoldings = 10
    Answers <- SomeAnswers
INVARIANTS
    OmissionExact
    NoBetterOmission
    AcceptanceJustified
    WireFaithful
    StepExact
