CONSTANTS
  NULL = NULL
  s1 = s1
  s2 = s2
  c1 = c1
  c2 = c2
  Subsystem = {s1}
  Control = {c1}
  ControlsOf <- OwnControl
  SensorReadings <- ColdOrHot
  Overrides = {"slow", "normal"}
  WritesFail = FALSE
  Session = {v1, v2}
  Fan = {}
  RowId = {1, 2}
  OtherSettings = {"on"}
  Rpm = {}
  CommitErrors = TRUE
  MaxCommands = 2
  MaxDisturbances = 1
SPECIFICATION MCFairSpec
PROPERTIES
  CommandReachesFans
