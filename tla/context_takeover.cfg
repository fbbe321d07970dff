SPECIFICATION ASpec
CONSTANTS
    Run = {1}
    Owner = {c1, c2}
    NoOwner = NoOwner
    CallId = {"k1"}
    NoCall = NoCall
    Response <- CheckpointResponses
    RawEvent <- NoRawEvents
    Forced = {1}
    Ttl = {1}
    Time = {0, 1}
    SecondMs = 1
    MaxMillis = 2
    MaxSeq = 6
    MaxEpoch = 2
SYMMETRY ContextSymmetry
INVARIANTS
    ContextsOK
    NoOrphanLease
    CompletionReported
PROPERTIES
    FailureStopsWrites
    UsesTheStore
