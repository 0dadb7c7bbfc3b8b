\* What the controller must eventually do.  Generations, samples and caps are bounded.
CHECK_DEADLOCK FALSE
CONSTANTS
  Cred = {k1, k2}
  Event = {e1, e2, e3}
  None = None
SPECIFICATION MCSpec
INVARIANTS
    KeystoneAudited
PROPERTIES
    AgentsServed
    
