SPECIFICATION Spec
CONSTANTS
  Run = {r1, r2}
  Proc = {p1, p2}
  Kinds = {"refresh", "sync", "migration", "promote"}
  NoRun = NoRun
  NoFile = NoFile
  Free = Free
  DeletesMayFail = TRUE
  LogMayFail = FALSE
  MaxFaults = 2
  MaxCrashes = 1
SYMMETRY Interchangeable
INVARIANTS
  TypeOK
  ActiveIndexPresent
  CandidateSurvivesItsBuild
  PromotedIsActive
PROPERTIES
  BuildLeavesActiveAlone
