CONSTANTS
  NULL = NULL
  Description <- MCDescription
  Count <- MCCount
  Word <- MCWord
  I2cErrors = TRUE
  MaxInputs = 2
  MaxErrors = 1
SPECIFICATION MCSpec
INVARIANTS
  TypeOK
  SteadyFanIsReported
  AbsentFanIsAFault
  FaultyFanIsNotOk
  UntornRpmIsReal
PROPERTIES
  TornReadingIsWithinAByte
