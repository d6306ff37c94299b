CONSTANTS
  Compiler = {c1, c2}
  Version = {v1, v2}
  None = None
  OpenBlocks = TRUE
  MaxBuilds = 2
  MaxTroubles = 1
SYMMETRY Symmetry
SPECIFICATION Spec
CHECK_DEADLOCK FALSE
INVARIANT ModuleHitWhole
