SPECIFICATION FairWatchSpec
CONSTANTS
  Ticks = {a, b, c}
  a = a
  b = b
  c = c
  Kept = {a}
  QuietStart = TRUE
  MaxWrites = 4
INVARIANT StaleIsNoticed
PROPERTY Follows
CHECK_DEADLOCK FALSE
