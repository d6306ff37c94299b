SPECIFICATION Spec
CONSTANTS
  GT = {g1, g2, g3}
  Mutex = {m1}
  Main = Main
  NoG = NoG
  NumWorkers = 2
  MaxSleep = 1
  PollTicks = 1
  DrainTicks = 1
SYMMETRY Symmetry
INVARIANTS MutualExclusion HandoffExact OnePlace NoLostWakeup NoStrandedWork LiveCountCovers RacesExplained
PROPERTY ImplementsFifoLock
