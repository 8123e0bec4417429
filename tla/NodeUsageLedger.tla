-------------------------- MODULE NodeUsageLedger --------------------------
(***************************************************************************)
(* NodeUsage implements UsageLedger: the node holds the samples of the     *)
(* batch that waits for its acknowledgement, a staged row is a sample due, *)
(* and one a flush has taken is booked, whether its row is still there or  *)
(* not.                                                                    *)
(***************************************************************************)
EXTENDS NodeUsage

Ledger == INSTANCE UsageLedger
  WITH Samples <- Sample, traffic <- sample,
       atNode <- {s \in Sample : s[1] = unacked /\ sample[s] > 0},
       due <- StagedRows, booked <- {s \in Sample : taken[s] > 0},
       on <- {u \in Users : status[u] = "on"}

(* Whatever is lost, repeated or cut short by a crash, collecting, staging, *)
(* acknowledging, flushing and pruning do no more and no less than book     *)
(* every sample once, the stop or next plan of its user with it.            *)
LedgerKept == Ledger!Spec
=============================================================================
