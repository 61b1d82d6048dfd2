CONSTANTS
  NULL = NULL
  s1 = s1
  s2 = s2
  c1 = c1
  c2 = c2
  Subsystem = {s1}
  Control = {}
  ControlsOf <- NoControl
  SensorReadings <- Medium
  Overrides = {"slow", "normal"}
  WritesFail = FALSE
  Session = {v1}
  Fan = {f1}
  RowId = {1, 2, 3}
  OtherSettings = {"on", "off"}
  Rpm = {9000}
  CommitErrors = FALSE
  MaxCommands = 1
  MaxDisturbances = 0
SPECIFICATION MCSessionsSpec
INVARIANT RunningConfigReflectsSpeed
