SPECIFICATION FairSpec

CONSTANTS
    c1 = c1
    c2 = c2
    c3 = c3
    r1 = r1
    r2 = r2
    b1 = b1
    b2 = b2
    Nobody = Nobody
    Connection = {c1, c2}
    Planets = 2
    RequestId = {}
    Body = {}
    MaxRecords = 0
    StartWhen = 1
    DurationTicks = 2
    AuthModes = {FALSE}
    Overlap = FALSE
    LateFrames = FALSE
    MayStall = TRUE
    MayLeave = FALSE
    MaxStarts = 2
PROPERTY RunEnds
CHECK_DEADLOCK FALSE
