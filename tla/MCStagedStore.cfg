SPECIFICATION StoreSpec
CONSTANTS
    Node = {a, b}
    Registered = {a}
    Content = {c1}
    Manifest = {m1, m2}
    Sig = {s1}
    None = None
    Skip = Skip
    MaxGen = 2
SYMMETRY Symmetry
INVARIANTS
    SealTruthful
    InterruptedPromotionRetryable
PROPERTIES
    CommitIsExact
    ImplementsAtomicDeploy
