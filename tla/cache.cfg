CONSTANTS
  Compiler = {c1, c2}
  Version = {v1, v2}
  None = None
  OpenBlocks = TRUE
  MaxBuilds = 2
  MaxTroubles = 2
SYMMETRY Symmetry
SPECIFICATION Spec
CHECK_DEADLOCK FALSE
INVARIANT IInv
INVARIANT PublishedFaithful
INVARIANT BuildExact
INVARIANT NoLeftovers
INVARIANT FailureExplained
