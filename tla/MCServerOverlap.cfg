SPECIFICATION Spec
SYMMETRY Interchangeable
CONSTANTS
    c1 = c1
    c2 = c2
    c3 = c3
    r1 = r1
    r2 = r2
    b1 = b1
    b2 = b2
    Nobody = Nobody
    Connection = {c1, c2, c3}
    Planets = 1
    RequestId = {}
    Body = {}
    MaxRecords = 0
    StartWhen = 1
    DurationTicks = 1
    AuthModes = {FALSE}
    Overlap = TRUE
    LateFrames = FALSE
    MayStall = FALSE
    MayLeave = FALSE
    MaxStarts = 2
INVARIANT ServedIsSeated
CHECK_DEADLOCK FALSE
