SPECIFICATION Spec
CONSTANTS
  u1 = u1
  u2 = u2
  Units = {u1, u2}
  Before <- HealthyOrNot
  Inventories <- All
  Kinds0 <- AnyKinds
  Modes = {"upgrade", "repair", "source-only"}
  Gone = Gone
  Foreign = Foreign
  Nobody = Nobody
  UsersMeddle = TRUE
  RmtreeIsAtomic = FALSE
  MaxTx = 1
  MaxFaults = 2
INVARIANTS
  TypeOK
  SettledPointers
  UnitsRunOnePair
  RepairFenced
PROPERTIES
  ImplementsAtomicRelease
  CommittedStays
