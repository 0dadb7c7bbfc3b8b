SPECIFICATION MCSpec
CHECK_DEADLOCK FALSE
INVARIANTS
    HistoryCoherent
    ViewHeld
    
    ChartFaithful
PROPERTIES
    NewestKept
