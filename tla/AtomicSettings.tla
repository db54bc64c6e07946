--------------------------- MODULE AtomicSettings ---------------------------
(***************************************************************************)
(* What a Settings save promises: settings.json and runtime.json change    *)
(* together or not at all, a key is in the store before a file names it,   *)
(* and a key of a saved bundle is never taken away.                        *)
(***************************************************************************)
EXTENDS Naturals

CONSTANTS Txn, Slot, Edit, Genesis, Absent

VARIABLES
  bundle,    \* the two documents
  promised,  \* the keys that completed saves brought
  keys       \* those of them that can be read

vars == <<bundle, promised, keys>>

Resource == {"settings", "manifest"}
Refs(file) == IF file = Absent THEN {} ELSE file.refs

Init ==
  /\ bundle \in [Resource -> {Absent, [tag |-> Genesis, refs |-> {}]}]
  /\ promised = {} /\ keys = {}

(* One save: new documents that name only keys that are there, and the keys*)
(* the save brought.                                                       *)
Save(t, owned) ==
  /\ \A k \in promised : k[1] # t
  /\ promised' = promised \cup owned /\ keys' = keys \cup owned
  /\ bundle'["manifest"] \in {bundle["manifest"], [tag |-> t, refs |-> {}]} \ {Absent}
  /\ \/ owned = {} /\ bundle'["settings"] = bundle["settings"]
     \/ \E kept \in SUBSET Refs(bundle["settings"]) :
          bundle'["settings"] = [tag |-> t, refs |-> kept \cup owned]
  /\ DOMAIN bundle' = Resource

(* One document is brought up to date in place; its keys are the same.     *)
Touch(e) ==
  /\ bundle' = [bundle EXCEPT !["settings"] =
                  [tag |-> e, refs |-> Refs(bundle["settings"])]]
  /\ UNCHANGED <<promised, keys>>

Next ==
  \/ \E t \in Txn, slots \in SUBSET Slot : Save(t, {t} \X slots)
  \/ \E e \in Edit : Touch(e)

Spec == Init /\ [][Next]_vars

=============================================================================
