SPECIFICATION Spec
CONSTANTS
    c1 = c1
    c2 = c2
    none = none
    Ids = {c1, c2}
    Day = 4
    Starts <- TwoStarts
    SessionsRetained = 2
    LastMoment = 9
    None = none
INVARIANTS
    KnownForTheHorizon
CHECK_DEADLOCK FALSE
