SPECIFICATION Spec
CONSTANTS
  Threads = {t1}
  Tools = {cli}
  Production = {"narrative", "learning", "rag"}
  Partials = {{"learning", "rag"}}
  Nobody = Nobody
  NoFile = NoFile
  MaxRuns = 2
  MaxRepairs = 1
  MaxFaults = 2
  t1 = t1
  cli = cli
INVARIANTS TypeOK OneAtATime
PROPERTIES CompletedIsSound RunsEnd
CHECK_DEADLOCK FALSE
