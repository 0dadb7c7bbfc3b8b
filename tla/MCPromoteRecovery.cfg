SPECIFICATION Spec
CONSTANTS
    Node = {a, b}
    Registered = {a}
    Content = {c1}
    Manifest = {m1}
    Sig = {s1}
    None = None
    Skip = Skip
    MaxGen = 2
    MaxFaults = 1
PROPERTIES
    InterruptedPromotionCommits
