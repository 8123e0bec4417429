------------------------ MODULE NodeOperationsAccess ------------------------
(***************************************************************************)
(* NodeOperations implements NodeAccess: a change is owed to the node as   *)
(* long as the row of the user's last change is open or failed, or the     *)
(* change was committed while the node was not listed as connected.        *)
(***************************************************************************)
EXTENDS NodeOperations

OwedUsers == {u \in Users : Owed(u) \/ u \in missed}

Access == INSTANCE NodeAccess
  WITH want <- [u \in Users |-> Want(u)], has <- nodeUser, owed <- OwedUsers

(* Every step of the queue, of its workers and of the faults is a step the *)
(* panel's promise allows: no row is closed before the node has what the   *)
(* row stands for, and nothing older reaches the node behind its back.     *)
KeepsPromise == Access!Spec
=============================================================================
