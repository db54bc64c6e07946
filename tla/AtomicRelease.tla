---------------------------- MODULE AtomicRelease ----------------------------
(***************************************************************************)
(* What an update promises of the pair of pointers a Runtime is started    *)
(* from: it changes from one release to a newer one in one step, for the   *)
(* source and the venv together (or for the source alone), except for a    *)
(* pointer that somebody else has set.                                     *)
(***************************************************************************)
EXTENDS Naturals

CONSTANTS Pointers, Releases

VARIABLES
  live,   \* the release each pointer stands for
  loose   \* the pointers somebody else has set since the update began

vars == <<live, loose>>

Init == live \in [Pointers -> Releases] /\ loose = {}

Switch ==
  /\ UNCHANGED loose
  /\ \E n \in Releases \cap Nat, only \in {{"source"}, Pointers} :
       \A p \in Pointers \ loose :
         /\ p \in only => live'[p] = n /\ live[p] # n
         /\ p \notin only => live'[p] = live[p]
  /\ live' \in [Pointers -> Releases]

(* Somebody sets a pointer, or what he set comes to light.                 *)
Loosen(p) == loose' = loose \cup {p} /\ live' \in [Pointers -> Releases]
             /\ \A q \in Pointers \ loose' : live'[q] = live[q]
Settle == UNCHANGED loose /\ live' \in [Pointers -> Releases]
          /\ \A q \in Pointers \ loose : live'[q] = live[q]
Begin == loose' = {} /\ UNCHANGED live

Next == Switch \/ Settle \/ Begin \/ \E p \in Pointers : Loosen(p)

Spec == Init /\ [][Next]_vars
==============================================================================
