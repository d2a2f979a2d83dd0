SPECIFICATION Spec
CONSTANTS
  Ids = {1, 2, 3, 4, 5}
  Owners = {"me", "you"}
  Starts <- Layouts
  MaxNamed = 1
  MaxEdits = 2
INVARIANTS WavesSound AgentsAgree HumansOwn RestIsExplained RoadmapWhole CloseNamesNext
CHECK_DEADLOCK FALSE
