CONSTANTS
  NULL = NULL
  Subsystem = {"s", "t"}
  Fru = {"u1", "u2", "v"}
  Fan <- MCFan
  Name = {"k1", "k2", "k3"}
  FruOf <- MCFruOf
  SubsystemOf <- MCSubsystemOf
  Naming <- MCNaming
  Garbage = {3}
SPECIFICATION MCSpec
INVARIANT FansAreHeldByName
