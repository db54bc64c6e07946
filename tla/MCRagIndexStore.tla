--------------------------- MODULE MCRagIndexStore ---------------------------
(* Model checking RagIndexStore: runs and processes are interchangeable.   *)
EXTENDS RagIndexStore, TLC

Interchangeable == Permutations(Run) \cup Permutations(Proc)

=============================================================================
