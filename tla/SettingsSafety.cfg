SPECIFICATION Spec
CONSTANTS
  Txn = {t1, t2}
  Slot = {llm}
  Edit = {e1, e2}
  Outside = {e2}
  Genesis = Genesis
  Absent = Absent
  NoTxn = NoTxn
  DirSyncMayFail = TRUE
  MaxFaults = 3
SYMMETRY Interchangeable
INVARIANTS
  TypeOK
  OneOpenJournal
  SecretsMatch
  PreimageOnDisk
PROPERTIES
  OutsideEditKept
