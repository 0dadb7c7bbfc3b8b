\* The stored topology, allocation, peer derivation and telemetry policy, one at a time.
\* The operator of PeerDerivation stops drawing at MaxEdges.
CHECK_DEADLOCK FALSE
CONSTANTS
  n1 = n1
  n2 = n2
  Designs = {"x", "y"}
  TopologyHistoryLimit = 2
  MaxVersion = 4
  MaxFaults = 2
SPECIFICATION MCSpec
INVARIANTS
    ServesCommitted
    
    
    PolicyHeld
PROPERTIES
    StagesWhatItRead
    
