SPECIFICATION Spec
CONSTANTS
  Ticks = {"t"}
  Epics = {}
  Parent <- UnderEpic
  Gates = {"none", "approval", "review", "content"}
  Parks = {"none", "work", "approval", "input", "review", "content", "escalation", "checkpoint"}
  Legacy = TRUE
  Updates <- NotByHand
  Surfaces = {"cli", "tui", "board"}
  Isolated = TRUE
INVARIANT ClosedStamp
PROPERTIES ImplementsHandoff DecisionLogged
