SPECIFICATION Spec
CONSTANTS
  GT = {g1, g2}
  Mutex = {m1}
  Main = Main
  NoG = NoG
  NumWorkers = 2
  MaxSleep = 1
  PollTicks = 1
  DrainTicks = 1
SYMMETRY Symmetry
INVARIANT ResumesSavedContext
