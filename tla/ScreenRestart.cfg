SPECIFICATION Spec
CONSTANTS
  Trackers <- SomeTrackers
  Files <- SomeFiles
  ByName <- Named
  ByPriority <- Ranked
  ByDate <- Dated
  Widths = {"three", "two"}
  Views <- AllViews
  MaxKeys = 2
  MaxMail = 1
PROPERTY RestartKeepsPlace
