SPECIFICATION FairSpec
CONSTANTS
  Ids = {a, b}
  a = a
  b = b
  BlockersOf = {{}, {a}}
  Room = 1
  MaxChanges = 2
  MaxDrops = 1
INVARIANTS StaleIsNoticed BlockedIsTrue
PROPERTY Follows
CHECK_DEADLOCK FALSE
