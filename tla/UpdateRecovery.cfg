SPECIFICATION FairSpec
CONSTANTS
  u1 = u1
  u2 = u2
  Units = {u1}
  Before <- AnyState
  Inventories <- AllOrNone
  Kinds0 <- AnyKinds
  Modes = {"upgrade", "repair"}
  Gone = Gone
  Foreign = Foreign
  Nobody = Nobody
  UsersMeddle = FALSE
  RmtreeIsAtomic = FALSE
  MaxTx = 1
  MaxFaults = 2
PROPERTIES
  Resolves
