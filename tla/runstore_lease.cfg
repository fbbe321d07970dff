SPECIFICATION Spec
CONSTANTS
    Run = {1, 2}
    Owner = {o1, o2}
    NoOwner = NoOwner
    CallId = {"t1"}
    NoCall = NoCall
    Response <- NoResponses
    RawEvent <- RawResult
    Forced = {1}
    Ttl = {1}
    Time = {0, 1}
    SecondMs = 1
    MaxMillis = 2
    MaxSeq = 2
    MaxEpoch = 3
SYMMETRY OwnerSymmetry
INVARIANTS
    EpochsUnique
    EpochFencing
PROPERTIES
    ActiveLeaseHeld
    TerminalFinal
