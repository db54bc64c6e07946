-------------------------- MODULE AtomicRegistration --------------------------
(***************************************************************************)
(* What a handoff promises of Settings and the units they record: both     *)
(* change in one step.  Users may write a unit file of their own; a unit   *)
(* whose new file was overwritten while it was being restored is lost to   *)
(* this account.                                                           *)
(***************************************************************************)
CONSTANT Units

VARIABLES
  installed, \* the definition each unit has, as far as anybody may rely on it
  claims,    \* the definitions Settings record
  other      \* the rest of Settings

vars == <<installed, claims, other>>

Foreign == {"edited", "lost"}

Init ==
  /\ claims \in {"none", "old"} /\ other = 0
  /\ installed = [u \in Units |-> claims]

Register(c, o) ==
  /\ claims' = c /\ other' = o
  /\ installed' = [u \in Units |-> IF installed[u] \in Foreign THEN installed[u] ELSE c]

Save(o) == other' = o /\ UNCHANGED <<claims, installed>>

Take(u) ==
  /\ \E d \in Foreign : installed' = [installed EXCEPT ![u] = d]
  /\ UNCHANGED <<claims, other>>

Next ==
  \/ \E c \in {"none", "old", "new"}, o \in {0, 1} : Register(c, o)
  \/ \E o \in {0, 1} : Save(o)
  \/ \E u \in Units : Take(u)

Spec == Init /\ [][Next]_vars
=============================================================================
