SPECIFICATION FairSpec
CONSTANTS
  Run = {r1, r2}
  Proc = {p1, p2}
  Kinds = {"refresh", "sync", "promote", "rollback"}
  NoRun = NoRun
  NoFile = NoFile
  Free = Free
  DeletesMayFail = FALSE
  LogMayFail = FALSE
  MaxFaults = 1
  MaxCrashes = 0
PROPERTIES
  JobsEnd
