CONSTANTS
  NULL = NULL
  FanStates = {"slow", "normal", "medium", "fast", "max", "bogus"}
SPECIFICATION Spec
INVARIANTS
  PolicyIsComputed
  PublishedNamesAreMeant
PROPERTY HotterNeverSlower
