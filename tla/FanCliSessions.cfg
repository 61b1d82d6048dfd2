CONSTANTS
  NULL = NULL
  s1 = s1
  s2 = s2
  c1 = c1
  c2 = c2
  Subsystem = {s1, s2}
  Control = {}
  ControlsOf <- NoControl
  SensorReadings <- Medium
  Overrides = {"slow", "normal"}
  WritesFail = FALSE
  Session = {v1, v2}
  Fan = {f1}
  RowId = {1, 2, 3}
  OtherSettings = {"on"}
  Rpm = {9000}
  CommitErrors = TRUE
  MaxCommands = 3
  MaxDisturbances = 2
SPECIFICATION MCSessionsSpec
SYMMETRY Sessions
INVARIANTS
  CliInv
  RunningConfigTellsCommand
PROPERTIES
  OtherKeysKept
  SuccessIsEffective
