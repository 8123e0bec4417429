---------------------------- MODULE EventDelivery ----------------------------
(***************************************************************************)
(* What the panel promises about the events its webhooks tell of, whatever *)
(* the endpoints answer and the panel forgets: an event that waits may be  *)
(* posted any number of times, together with others; it is closed once, as *)
(* sent when an endpoint has received it, or as failed when posts enough   *)
(* were left unanswered; and once closed it is never posted again.         *)
(***************************************************************************)
EXTENDS Naturals

CONSTANTS
  Events,
  Patience   \* posts left unanswered until an event is given up

VARIABLES
  state,      \* of each event: none, pending, sent or failed
  received,   \* events an endpoint has received
  unanswered  \* posts of each event left unanswered, up to Patience

vars == <<state, received, unanswered>>

Waiting == {e \in Events : state[e] = "pending"}

Init ==
  /\ state = [e \in Events |-> "none"]
  /\ received = {} /\ unanswered = [e \in Events |-> 0]

Announce(e) ==
  /\ state[e] = "none" /\ state' = [state EXCEPT ![e] = "pending"]
  /\ UNCHANGED <<received, unanswered>>

(* A body that is not answered may have been received all the same.        *)
Post ==
  /\ \E S \in SUBSET Waiting :
       \/ received' = received \cup S /\ UNCHANGED unanswered
       \/ /\ received' \in {received, received \cup S}
          /\ unanswered' = [e \in Events |-> IF e \in S /\ unanswered[e] < Patience
                                             THEN unanswered[e] + 1 ELSE unanswered[e]]
  /\ UNCHANGED state

Close(e) ==
  /\ e \in Waiting
  /\ \/ e \in received /\ state' = [state EXCEPT ![e] = "sent"]
     \/ unanswered[e] >= Patience /\ state' = [state EXCEPT ![e] = "failed"]
  /\ UNCHANGED <<received, unanswered>>

Next == Post \/ \E e \in Events : Announce(e) \/ Close(e)
Spec == Init /\ [][Next]_vars
=============================================================================
