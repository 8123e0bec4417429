--------------------------- MODULE MCUserLifecycle ---------------------------
(* Values of UserLifecycle for TLC. *)
EXTENDS UserLifecycle, TLC

(* Users: one about to expire with a next plan, one on hold. *)
InitialRowsValue ==
  1 :> [status |-> "active", used |-> 0, limit |-> 2, expire |-> 4, hold |-> NoHold, timeout |-> 0, online |-> "never",
        plans |-> <<[trigger |-> "expire", limit |-> 1, expire |-> 5, carry |-> FALSE, increase |-> FALSE, firstConnect |-> TRUE]>>,
        reset |-> 3, logged |-> 0, changed |-> 3]
  @@ 2 :> [status |-> "on_hold", used |-> 0, limit |-> 1, expire |-> 0, hold |-> 1, timeout |-> 4, online |-> "never",
           plans |-> <<>>, reset |-> 3, logged |-> 0, changed |-> 3]
Asking == [status |-> "keep", limit |-> Keep, expire |-> Keep, hold |-> Keep]
EditsValue ==
  {[Asking EXCEPT !.status = "active"], [Asking EXCEPT !.status = "on_hold", !.expire = 0, !.hold = 1],
   [Asking EXCEPT !.limit = 1], [Asking EXCEPT !.expire = 4]}
DeleteAfterValue == [u \in {1, 2} |-> 0]
=============================================================================
