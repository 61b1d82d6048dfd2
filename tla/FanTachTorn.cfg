CONSTANTS
  NULL = NULL
  Description <- MCDescription
  Count <- MCCount
  Word <- MCWord
  I2cErrors = FALSE
  MaxInputs = 2
  MaxErrors = 0
SPECIFICATION MCSpec
INVARIANT ReportedRpmIsReal
