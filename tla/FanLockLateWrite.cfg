CONSTANTS
  NULL = NULL
  Proc = {p, q}
  Subsystem = {s1, s2}
  Wanted = {0, 4}
  SessionsDrop = TRUE
  MaxDisturbances = 3
SPECIFICATION MCFairSpec
PROPERTY OnlyHolderDrivesFans
