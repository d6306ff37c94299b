SPECIFICATION Spec
CONSTANTS
  k1 = k1
  k2 = k2
  k3 = k3
  k4 = k4
  Var = {a, b}
  Key = {k1, k3, k4}
  Val = {x}
  Table = {t1, t2}
  NoTable = NoTable
  Nothing = Nothing
  Hash <- MCHash
  InitCap = 4
  MaxCap = 8
  MaxDrift = 0
  Loop = FALSE
INVARIANTS MapInv TableSound
PROPERTY ImplementsMap
SYMMETRY Symmetry
