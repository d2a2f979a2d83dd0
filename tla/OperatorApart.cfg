SPECIFICATION FairSpec
CONSTANTS
  Ticks = {"t", "u"}
  Questions = {"a", "g"}
  TickOf <- AskAndGate
  Kind <- KindAskAndGate
  Askers = {k1}
  Answerers = {k1, k2}
  Collectors = {c1}
  Humans = {}
  Bridges = {}
  Shared = {}
  FreeText = {}
  MaxFaults = 1
INVARIANTS NotesAreAnswers NoLostAnswer
PROPERTIES OpenStaysOnDisk ImplementsQuestion CommandsEnd
