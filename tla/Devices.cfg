CONSTANTS
    b1 = b1
    b2 = b2
    f1 = f1
    g1 = g1
    p1 = p1
    p2 = p2
    None = None
SPECIFICATION MCSpec
INVARIANTS
    SamplerAuthorized
    IdentityHeld
    RowsAccounted
    ProbesAuthorized
