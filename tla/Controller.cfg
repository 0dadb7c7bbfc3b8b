CONSTANTS
    Node = {a, b}
    ManualNode = {m}
    Key = {k1, k2}
    EnrollTok = {1, 2}
    ApiTok = {1, 2}
    MaxApplied = 1
    MaxFaults = 1
    None = None
    a = a
    b = b
    m = m
    k1 = k1
    k2 = k2
SPECIFICATION MCSpec
CHECK_DEADLOCK FALSE
INVARIANTS
    
    EnrollmentHeld
    
    LoginHeld
PROPERTIES
    ResurrectedOnlyByOverlap
