SPECIFICATION Spec
SYMMETRY Interchangeable
CONSTANTS
    c1 = c1
    c2 = c2
    c3 = c3
    r1 = r1
    r2 = r2
    b1 = b1
    b2 = b2
    Nobody = Nobody
    Connection = {c1, c2}
    Planets = 2
    RequestId = {r1}
    Body = {b1}
    MaxRecords = 1
    StartWhen = 2
    DurationTicks = 1
    AuthModes = {FALSE}
    Overlap = FALSE
    LateFrames = FALSE
    MayStall = TRUE
    MayLeave = TRUE
    MaxStarts = 2
INVARIANTS
    SeatsAreServed
    ServedIsSeated
    EveryoneIsTold
    OneTicker
CHECK_DEADLOCK FALSE
