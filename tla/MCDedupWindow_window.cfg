SPECIFICATION Spec
CONSTANTS
    c1 = c1
    c2 = c2
    none = none
    Ids = {c1, c2}
    Day = 4
    Starts <- TwoStarts
    SessionsRetained = 3
    LastMoment = 12
    None = none
INVARIANTS
    KnownWhileRetained
    OwnKnownForTheHorizon
CHECK_DEADLOCK FALSE
