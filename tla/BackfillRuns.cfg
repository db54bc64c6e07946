SPECIFICATION FairSpec
CONSTANTS
  Days = {d1}
  Later = {l1}
  NoStage = NoStage
  Threads = {thread}
  Tickers = {timer}
  Timer = timer
  Suspends = TRUE
  MaxRuns = 2
  MaxFaults = 2
  Weight = 2
INVARIANTS
  TypeOK
  OnlyTheNewestIsActive
  RetryIsTheRest
  CompletedIsReal
PROPERTIES
  EndedIsFinal
  CancelWins
  StagesStartInTheActiveRun
  RunsEnd
CHECK_DEADLOCK FALSE
