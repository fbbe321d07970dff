SPECIFICATION DSpec
CONSTANTS
    Run = {1, 2}
    Owner = {p1, p2, p3}
    Creator = {p1, p2}
    Overlap = TRUE
    Lossy = TRUE
    NoOwner = NoOwner
    CallId = {"call_1", "checkpoint_1"}
    NoCall = NoCall
    Response <- ExampleResponses
    RawEvent <- NoRawEvents
    Forced = {1, 2}
    Ttl = {1}
    Time = {0}
    SecondMs = 1
    MaxMillis = 1
    MaxSeq = 12
    MaxEpoch = 3
SYMMETRY ProcessSymmetry
INVARIANTS
    CompletedOnce
    ResultIsPublished
PROPERTY EffectKept
CHECK_DEADLOCK FALSE
