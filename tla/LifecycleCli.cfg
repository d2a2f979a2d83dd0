SPECIFICATION Spec
CONSTANTS
  Ticks = {"e", "c"}
  Epics = {"e"}
  Parent <- UnderEpic
  Gates = {"none", "approval"}
  Parks = {"none", "input"}
  Legacy = FALSE
  Updates <- HandingOver
  Surfaces = {"cli"}
  Isolated = TRUE
PROPERTIES ImplementsHandoff DecisionLogged EpicLast
