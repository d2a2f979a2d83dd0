SPECIFICATION Spec
CONSTANTS
  Trackers <- SomeTrackers
  Files <- SomeFiles
  ByName <- Named
  ByPriority <- Ranked
  ByDate <- Dated
  Widths = {"three", "two"}
  Views <- AllViews
  MaxKeys = 4
  MaxMail = 2
INVARIANTS TextGoesHome EditIsVisible
PROPERTIES DetailMirrors ReloadKeepsPlace
