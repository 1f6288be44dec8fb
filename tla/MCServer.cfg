SPECIFICATION Spec
SYMMETRY Interchangeable
CONSTANTS
    c1 = c1
    c2 = c2
    c3 = c3
    r1 = r1
    r2 = r2
    b1 = b1
    b2 = b2
    Nobody = Nobody
    Connection = {c1, c2}
    Planets = 1
    RequestId = {r1, r2}
    Body = {b1, b2}
    MaxRecords = 1
    StartWhen = 1
    DurationTicks = 1
    AuthModes = {FALSE}
    Overlap = FALSE
    LateFrames = TRUE
    MayStall = FALSE
    MayLeave = TRUE
    MaxStarts = 2
INVARIANTS
    TypeOK
    ExecutedOnce
    AnswersAgree
CHECK_DEADLOCK FALSE
