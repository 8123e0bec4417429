----------------------------- MODULE NodeAccess -----------------------------
(***************************************************************************)
(* What the panel promises about the users one node accepts, whatever the  *)
(* queue, its workers and the faults: a change is owed to the node from    *)
(* its commit on, an older state of a user may reach the node only while a *)
(* newer one is owed, and what is owed is forgotten only when the node     *)
(* accepts the user as he is or does not accept him at all.                *)
(***************************************************************************)
EXTENDS Naturals

CONSTANTS Users

VARIABLES
  want,  \* version of the credentials the panel wants accepted, 0 for none
  has,   \* version of the credentials the node accepts, 0 for none
  owed   \* users with a change the node may not have seen

vars == <<want, has, owed>>

Init ==
  /\ want = [u \in Users |-> 0]
  /\ has = [u \in Users |-> 0]
  /\ owed = {}

(* A user is created, changed, disabled or deleted. *)
Change(u) ==
  /\ want' \in [Users -> Nat]
  /\ \A v \in Users \ {u} : want'[v] = want[v]
  /\ owed' \subseteq Users /\ u \in owed' /\ \A v \in Users \ {u} : v \in owed' <=> v \in owed
  /\ has' = has

(* The node hears of some users; what it has been told may be forgotten.   *)
Serve ==
  /\ want' = want
  /\ has' \in [Users -> Nat]
  /\ \A u \in Users : has'[u] \in {has[u], want[u], 0} \/ u \in owed
  /\ owed' \subseteq Users
  /\ \A u \in owed \ owed' : has'[u] \in {want[u], 0}

Next == (\E u \in Users : Change(u)) \/ Serve
Spec == Init /\ [][Next]_vars
=============================================================================
