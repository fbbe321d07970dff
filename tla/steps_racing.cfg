SPECIFICATION SSpec
CONSTANTS
    Run = {1}
    Name = {"n"}
    Context = {11, 12, 13}
    RunOf <- RunOfContext
    NoOwner = NoOwner
    Call = {c1, c2, c3}
    Value = {v1, v2}
    NoValue = NoValue
    Confirmed = FALSE
    MaxFaults = 2
INVARIANTS
    StepsTypeOK
    OneResultPerStep
    StoredByOwner
PROPERTIES
    ImplementsStepOnce
