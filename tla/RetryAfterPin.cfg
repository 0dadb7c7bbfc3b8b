SPECIFICATION ControlSpec
CONSTANTS
    a = a
    b = b
    Node <- MCNode
    Registered = {}
    Content = {c1}
    Member <- MCMember
    Fleet <- AllFleets
    Manifest <- MCManifest
    Sig = {k1}
    None = None
    Skip = Skip
    MaxGen = 2
    MaxEpoch = 1
    WakeMayFailAlone = FALSE
INVARIANT
    PromoteRetryAdmitted
