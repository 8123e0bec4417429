---------------------------- MODULE UsageLedger ----------------------------
(***************************************************************************)
(* What the panel promises about the traffic of its users, whatever the    *)
(* calls that are lost, repeated or overtaken by a crash: a sample the     *)
(* node has counted stays with the node until the database has it, enters  *)
(* the database once, and is booked once, in one step with the stop or the *)
(* next plan of a user who reaches his limit; what a user had used at a    *)
(* reset is logged.                                                        *)
(***************************************************************************)
EXTENDS Naturals, Functions

CONSTANTS
  Users,    \* users of the panel
  Samples,  \* samples a node may count, pairs of a batch and a user
  Limit     \* traffic at which a user is stopped

VARIABLES
  traffic,  \* the traffic of each sample
  atNode,   \* samples the node still holds
  due,      \* samples in the database to be booked
  booked,   \* samples booked
  used,     \* traffic of each user since his last reset
  logged,   \* traffic of each user before it
  on        \* users who are on

vars == <<traffic, atNode, due, booked, used, logged, on>>

Known == atNode \cup due \cup booked
TrafficOf(S, u) == SumFunctionOnSet(traffic, {s \in S : s[2] = u})

Init ==
  /\ traffic = [s \in Samples |-> 0]
  /\ atNode = {} /\ due = {} /\ booked = {}
  /\ used = [u \in Users |-> 0] /\ logged = [u \in Users |-> 0]
  /\ on = Users

(* The node counts samples it has not counted before.                      *)
Count ==
  \E new \in SUBSET (Samples \ Known) :
    /\ atNode' = atNode \cup new
    /\ traffic' \in [Samples -> Nat]
    /\ \A s \in Known : traffic'[s] = traffic[s]
    /\ UNCHANGED <<due, booked, used, logged, on>>

(* Samples the node holds enter the database, those it has stay there.     *)
Enter ==
  \E S \in SUBSET (atNode \ (due \cup booked)) :
    /\ due' = due \cup S
    /\ UNCHANGED <<traffic, atNode, booked, used, logged, on>>

(* The node forgets samples the database has.                              *)
Forget ==
  \E S \in SUBSET (atNode \cap (due \cup booked)) :
    /\ atNode' = atNode \ S
    /\ UNCHANGED <<traffic, due, booked, used, logged, on>>

(* A user who is on is charged, and stopped or given his next plan when he *)
(* reaches his limit.                                                      *)
Charge(u, total) ==
  \/ /\ used'[u] = total /\ logged'[u] = logged[u]
     /\ u \in on' <=> total < Limit
  \/ /\ total >= Limit
     /\ used'[u] = 0 /\ logged'[u] = logged[u] + total
     /\ u \in on'

Same(u) == used'[u] = used[u] /\ logged'[u] = logged[u] /\ (u \in on' <=> u \in on)

Book ==
  \E S \in SUBSET due :
    /\ due' = due \ S /\ booked' = booked \cup S
    /\ used' \in [Users -> Nat] /\ logged' \in [Users -> Nat] /\ on' \subseteq Users
    /\ \A u \in Users : IF u \in on /\ \E s \in S : s[2] = u
                        THEN Charge(u, used[u] + TrafficOf(S, u)) ELSE Same(u)
    /\ UNCHANGED <<traffic, atNode>>

(* A user is stopped or let on again, or his traffic starts anew.          *)
Settle(u) ==
  /\ \/ UNCHANGED <<used, logged>>
     \/ used' = [used EXCEPT ![u] = 0] /\ logged' = [logged EXCEPT ![u] = @ + used[u]]
  /\ on' \in {on, on \cup {u}, on \ {u}}
  /\ UNCHANGED <<traffic, atNode, due, booked>>

Next == Count \/ Enter \/ Forget \/ Book \/ \E u \in Users : Settle(u)
Spec == Init /\ [][Next]_vars
=============================================================================
