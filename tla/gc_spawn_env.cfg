SPECIFICATION Spec
CONSTANTS
  GT = {g1}
  Main = Main
  Block = {b1, b2, b3}
  Null = Null
  Threshold = 2
  MaxTemps = 1
  MaxSlots = 2
  MaxDepth = 2
SYMMETRY Symmetry
INVARIANT Sound
