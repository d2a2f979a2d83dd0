SPECIFICATION Spec
CONSTANTS
  Ticks = {"t", "u"}
  Questions = {"a", "b", "g"}
  TickOf <- TwoAndGate
  Kind <- KindTwoAndGate
  Askers = {k1}
  Answerers = {k1}
  Collectors = {k1}
  Humans = {h1}
  Bridges = {b1}
  Shared = {"u"}
  FreeText = {"g"}
  MaxFaults = 0
INVARIANTS OpenIsParked ParkedHasQuestion AtMostOnce
PROPERTIES NoAnswerDropped
