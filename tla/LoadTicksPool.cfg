SPECIFICATION FairSpec
CONSTANTS
  Files = {f1, f2, f3, f4}
  Workers = {w1, w2, w3}
  f1 = f1
  f2 = f2
  f3 = f3
  f4 = f4
  w1 = w1
  w2 = w2
  w3 = w3
INVARIANT AllOrError
PROPERTY LoadEnds
CHECK_DEADLOCK FALSE
