SPECIFICATION FairSpec
CONSTANTS
  Txn = {t1, t2}
  Slot = {llm, rag}
  Edit = {}
  Outside = {}
  Genesis = Genesis
  Absent = Absent
  NoTxn = NoTxn
  DirSyncMayFail = FALSE
  MaxFaults = 2
PROPERTIES
  ImplementsAtomicSettings
  CommittedIsFinal
  OpenJournalResolved
