SPECIFICATION ControlSpec
CONSTANTS
    a = a
    b = b
    Node <- MCNode
    Registered = {}
    Content = {c1, c2}
    Member <- MCMember
    Fleet <- DesignFleets
    Manifest <- MCManifest
    Sig = {k1, k2}
    None = None
    Skip = Skip
    MaxGen = 2
    MaxEpoch = 1
    WakeMayFailAlone = FALSE
SYMMETRY CredSymmetry
INVARIANTS
    
    EpochNamesOneManifest
PROPERTIES
    PromotedUnderPin
    ServedEpochMonotone
    
