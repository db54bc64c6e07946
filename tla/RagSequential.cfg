SPECIFICATION Spec
CONSTANTS
  Run = {r1, r2, r3}
  Proc = {p1}
  Kinds = {"refresh", "sync", "migration", "promote", "rollback"}
  NoRun = NoRun
  NoFile = NoFile
  Free = Free
  DeletesMayFail = FALSE
  LogMayFail = FALSE
  MaxFaults = 2
  MaxCrashes = 2
SYMMETRY Interchangeable
INVARIANTS
  IndexWhole
