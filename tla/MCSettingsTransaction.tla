------------------------ MODULE MCSettingsTransaction ------------------------
(* Small instances of SettingsTransaction for TLC.                         *)
EXTENDS SettingsTransaction, TLC

Interchangeable == Permutations(Txn)

=============================================================================
