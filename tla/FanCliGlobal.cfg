CONSTANTS
  NULL = NULL
  s1 = s1
  s2 = s2
  c1 = c1
  c2 = c2
  Subsystem = {s1, s2}
  Control = {c1, c2}
  ControlsOf <- OwnControl
  SensorReadings <- Medium
  Overrides = {"slow"}
  WritesFail = FALSE
  Session = {v1}
  Fan = {}
  RowId = {1, 2}
  OtherSettings = {"on", "off"}
  Rpm = {9000}
  CommitErrors = FALSE
  MaxCommands = 1
  MaxDisturbances = 0
SPECIFICATION MCFairSpec
PROPERTY SetsSpeedGlobally
