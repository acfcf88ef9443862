SPECIFICATION LiveSpec
CONSTANTS
    Hosts = {h1, h2}
    Closers = {k1}
    Ids = {s1, s2, s3, s4}
    Contracts = {c1}
    MaxLost = 1
    None = None
    Env = {"cancel", "fault", "unusable"}
INVARIANTS
    TypeOK
    ResourcesAccounted
    LeaseMatches
    ShutdownCloses
PROPERTIES
    ShutdownEnds
