\* What a node must eventually do.  Generations, versions and edits are bounded.
CHECK_DEADLOCK FALSE
CONSTANTS
  None = None
  n1 = n1
  b1 = b1
  f1 = f1
  g1 = g1
  p1 = p1
SPECIFICATION MCSpec
PROPERTIES
    NodesSettle
    
