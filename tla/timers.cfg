SPECIFICATION TSpec
CONSTANTS
    Name = {"nap"}
    Sleeper = {s1, s2}
    Delay = {1, 3}
    UnitMs = 2
    Jump <- BothWays
    NoWake = NoWake
    MaxWake = 4
    MaxTime = 6
    MaxFaults = 2
SYMMETRY SleeperSymmetry
INVARIANTS
    WakesWhenDue
    WholeDelay
PROPERTY TimersKeepFirst
CHECK_DEADLOCK FALSE
