CONSTANTS
  NULL = NULL
  s1 = s1
  s2 = s2
  u1 = u1
  u2 = u2
  f1 = f1
  f2 = f2
  Subsystem = {s1}
  Fru = {u1}
  Fan = {f1}
  FruOf <- OneFru
  SubsystemOf <- OneOwner
  FanSpeedControlType <- PerFru
  HasSpeedControl = {u1}
  HasLed = {s1}
  HasPresent = {}
  HasDirection = {}
  Tach = {0}
  Multiplier <- Once
  Numerator <- Once
  I2cErrors = TRUE
  Uuid = {r1, r2}
  SensorReadings <- ColdOrHot
  Overrides = {}
  MallocStatus <- AnyStatus
  CommitErrors = TRUE
  YamlErrors = TRUE
  MaxDisturbances = 3
SPECIFICATION MCSpec
INVARIANTS
  InductiveInvariant
  RegistryConsistent
  FreshStructsArePolled
  SpeedObeysPolicy
PROPERTIES
  ReadyImpliesPolled
  RpmIsNeverLost
