SPECIFICATION Spec
CONSTANTS
    Run = {1}
    Owner = {o1}
    NoOwner = NoOwner
    CallId = {"t1", "k1", "k2"}
    NoCall = NoCall
    Response <- AnyResponses
    RawEvent <- NoRawEvents
    Forced = {1}
    Ttl = {1}
    Time = {0}
    SecondMs = 1
    MaxMillis = 9
    MaxSeq = 8
    MaxEpoch = 2
INVARIANTS
    StateLosesNothing
