SPECIFICATION Spec
CONSTANTS
  Short = {1, 2}
  Long = {3}
  Existing = {1}
  Commands = {"create", "boardCreate", "note", "block", "unblock", "delete", "gc"}
  Procs = {p1, p2}
  p1 = p1
  p2 = p2
  MaxCommands = 3
  MaxOverlapping = 2
  MaxFaults = 1
INVARIANTS TypeOK NoLostUpdate 
PROPERTY DeleteIsClean
SYMMETRY Symmetry
CHECK_DEADLOCK FALSE
