SPECIFICATION DFairSpec
CONSTANTS
    Run = {1}
    Owner = {p1, p2, p3, p4}
    Creator = {p1}
    Overlap = FALSE
    Lossy = FALSE
    NoOwner = NoOwner
    CallId = {"call_1", "checkpoint_1"}
    NoCall = NoCall
    Response <- ExampleResponses
    RawEvent <- NoRawEvents
    Forced = {1}
    Ttl = {1}
    Time = {0}
    SecondMs = 1
    MaxMillis = 1
    MaxSeq = 12
    MaxEpoch = 4
PROPERTY EveryRunRecovers
CHECK_DEADLOCK FALSE
