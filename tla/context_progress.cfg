SPECIFICATION AFairSpec
CONSTANTS
    Run = {1}
    Owner = {c1}
    NoOwner = NoOwner
    CallId = {"t1", "k1"}
    NoCall = NoCall
    Response <- ToolResponses
    RawEvent <- NoRawEvents
    Forced = {1}
    Ttl = {1}
    Time = {0, 1}
    SecondMs = 1
    MaxMillis = 2
    MaxSeq = 6
    MaxEpoch = 2
PROPERTY OperationsReturn
