SPECIFICATION FairSpec
CONSTANTS
    Run = {1, 2}
    Name = {"n"}
    Context = {11, 12, 21}
    RunOf <- RunOfContext
    NoOwner = NoOwner
    Call = {c1, c2, c3}
    Value = {v1}
    NoValue = NoValue
    Confirmed = TRUE
    MaxFaults = 1
INVARIANT ExclusiveExecution
PROPERTY EveryCallReturns
