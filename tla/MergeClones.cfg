SPECIFICATION Spec
CONSTANTS
  Clones = {c1, c2}
  c1 = c1
  c2 = c2
  Labels = {l}
  l = l
  MaxEdits = 3
SYMMETRY Alike
INVARIANTS Coherent OrderFree FoundIsWhole
PROPERTY KeepsBoth
CHECK_DEADLOCK FALSE
