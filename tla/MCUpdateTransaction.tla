------------------------- MODULE MCUpdateTransaction -------------------------
(* Small instances of UpdateTransaction for TLC.                           *)
EXTENDS UpdateProperties

CONSTANTS u1, u2

Unit(act, enabled) == [act |-> act, enabled |-> enabled]
Healthy == [u \in Units |-> Unit("active", u = u1)]
HalfFailed == [u \in Units |-> IF u = u1 THEN Unit("failed", TRUE) ELSE Unit("inactive", FALSE)]
AnyState == [Units -> [act : Active, enabled : BOOLEAN]]
HealthyOrNot == {Healthy, HalfFailed}
All == {Units}
AllOrNone == {Units, {}}

Links == [source |-> "symlink", venv |-> "symlink"]
Directories == [source |-> "directory", venv |-> "directory"]
NoVenv == [source |-> "symlink", venv |-> "missing"]
AnyKinds == {Links, Directories, NoVenv}
==============================================================================
