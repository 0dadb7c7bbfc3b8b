\* What runs on a node, one part at a time.  Version 2 of the agent is bad, and a rollback of
\* it works; two rollouts, five faults.
CONSTANTS
  None = None
  MaxVersion = 3
  Bad = {2}
  RollbackFaults = {}
  MaxTargets = 2
  MaxFaults = 5
SPECIFICATION MCSpec
CHECK_DEADLOCK FALSE
INVARIANTS
    DiskDescribesHost
    
    
    SummaryTrue

    
