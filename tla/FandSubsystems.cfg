CONSTANTS
  NULL = NULL
  s1 = s1
  s2 = s2
  u1 = u1
  u2 = u2
  f1 = f1
  f2 = f2
  Subsystem = {s1, s2}
  Fru = {u1, u2}
  Fan = {f1, f2}
  FruOf <- PairedFru
  SubsystemOf <- PairedOwner
  FanSpeedControlType <- MixedControl
  HasSpeedControl = {s1, u1, f2}
  HasLed = {s1}
  HasPresent = {}
  HasDirection = {}
  Tach = {0}
  Multiplier <- Once
  Numerator <- Once
  I2cErrors = FALSE
  Uuid = {r1, r2}
  SensorReadings <- ColdOrHot
  Overrides = {}
  MallocStatus = {2}
  CommitErrors = FALSE
  YamlErrors = FALSE
  MaxDisturbances = 3
SPECIFICATION MCSpec
SYMMETRY Identities
INVARIANTS
  RegistryMatchesDatabase
  RegistersObeyPolicy
