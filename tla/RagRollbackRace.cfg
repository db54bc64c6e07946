SPECIFICATION Spec
CONSTANTS
  Run = {r1, r2}
  Proc = {p1, p2}
  Kinds = {"refresh", "sync", "migration", "promote", "rollback"}
  NoRun = NoRun
  NoFile = NoFile
  Free = Free
  DeletesMayFail = FALSE
  LogMayFail = FALSE
  MaxFaults = 0
  MaxCrashes = 0
INVARIANTS
  ActiveIndexPresent
