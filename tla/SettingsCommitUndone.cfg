SPECIFICATION Spec
CONSTANTS
  Txn = {t1, t2}
  Slot = {llm}
  Edit = {e1}
  Outside = {}
  Genesis = Genesis
  Absent = Absent
  NoTxn = NoTxn
  DirSyncMayFail = TRUE
  MaxFaults = 2
PROPERTIES
  CommittedIsFinal
