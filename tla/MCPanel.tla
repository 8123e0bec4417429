------------------------------- MODULE MCPanel -------------------------------
(***************************************************************************)
(* Values for TLC, and the parts of the panel beside the node queue in one *)
(* specification.  They share no state but the database, through tables    *)
(* the others do not touch, so a behaviour runs one of them (part) while   *)
(* the others rest in their initial states; their interleavings inside     *)
(* each part are all there.                                                *)
(***************************************************************************)
EXTENDS MCUserLifecycle, AdminLimits, Certificates, ExternalApps, BackupRestore,
        WebhookDelivery, HostCommands, MaintenanceStatus, DeviceLimits

VARIABLE part
panelVars == <<part, lifecycleVars, limitVars, certVars, appVars, restoreVars,
               outboxVars, hostVars, maintenanceVars, deviceVars>>
Parts == {"users", "admins", "certificates", "apps", "backup", "webhooks", "host", "maintenance", "devices"}

(* Admins: one limited by his own traffic, with two users, and one by his services' . *)
OwnedValue == <<{1, 2}, {3}>>
InServiceValue == [u \in 1..3 |-> 1]
InitialAdminValue ==
  [a \in {1, 2} |->
     [status |-> "active", reason |-> "none", used |-> 0, limit |-> 1, usersLimit |-> IF a = 1 THEN 1 ELSE 0,
      late |-> FALSE, perService |-> (a = 2), served |-> <<0>>, allowed |-> <<1>>]]
InitialUserValue ==
  [u \in 1..3 |-> [status |-> IF u = 2 THEN "disabled" ELSE "active", hold |-> (u = 3), adminMark |-> FALSE, serviceMark |-> FALSE]]
AdminEditsValue ==
  {[limit |-> 1, usersLimit |-> 1, late |-> FALSE, perService |-> TRUE],
   [limit |-> 0, usersLimit |-> 1, late |-> FALSE, perService |-> FALSE]}

TemplateValue == <<"bot", "node">>
HoldsValue == 3 :> {"a"} @@ 4 :> {"a", "b"}
RootOrderValue == <<"data", "env">>
AssignedValue == [s \in {"s1", "s2", "s3"} |-> "t"]

PanelInit ==
  /\ part \in Parts
  /\ LifecycleInit /\ LimitInit /\ CertInit /\ AppInit /\ RestoreInit
  /\ OutboxInit /\ HostInit /\ MaintenanceInit /\ DeviceInit
  /\ part # "apps" => \A a \in AppIds : app[a] = NoApp

UsersRun == part = "users" /\ LifecycleNext
  /\ UNCHANGED <<part, limitVars, certVars, appVars, restoreVars, outboxVars, hostVars, maintenanceVars, deviceVars>>
AdminsRun == part = "admins" /\ LimitNext
  /\ UNCHANGED <<part, lifecycleVars, certVars, appVars, restoreVars, outboxVars, hostVars, maintenanceVars, deviceVars>>
CertificatesRun == part = "certificates" /\ CertNext
  /\ UNCHANGED <<part, lifecycleVars, limitVars, appVars, restoreVars, outboxVars, hostVars, maintenanceVars, deviceVars>>
AppsRun == part = "apps" /\ AppNext
  /\ UNCHANGED <<part, lifecycleVars, limitVars, certVars, restoreVars, outboxVars, hostVars, maintenanceVars, deviceVars>>
BackupRuns == part = "backup" /\ RestoreNext
  /\ UNCHANGED <<part, lifecycleVars, limitVars, certVars, appVars, outboxVars, hostVars, maintenanceVars, deviceVars>>
WebhooksRun == part = "webhooks" /\ OutboxNext
  /\ UNCHANGED <<part, lifecycleVars, limitVars, certVars, appVars, restoreVars, hostVars, maintenanceVars, deviceVars>>
HostRuns == part = "host" /\ HostNext
  /\ UNCHANGED <<part, lifecycleVars, limitVars, certVars, appVars, restoreVars, outboxVars, maintenanceVars, deviceVars>>
MaintenanceRuns == part = "maintenance" /\ MaintenanceNext
  /\ UNCHANGED <<part, lifecycleVars, limitVars, certVars, appVars, restoreVars, outboxVars, hostVars, deviceVars>>
DevicesRun == part = "devices" /\ DeviceNext
  /\ UNCHANGED <<part, lifecycleVars, limitVars, certVars, appVars, restoreVars, outboxVars, hostVars, maintenanceVars>>

PanelNext ==
  \/ UsersRun \/ AdminsRun \/ CertificatesRun \/ AppsRun \/ BackupRuns
  \/ WebhooksRun \/ HostRuns \/ MaintenanceRuns \/ DevicesRun

(* The fairness of the part that runs. *)
PanelFairness ==
  /\ WF_lifecycleVars(part = "users" /\ Begin("review")) /\ WF_lifecycleVars(part = "users" /\ ReviewLifecycle)
  /\ WF_limitVars(part = "admins" /\ ReviewAdmins) /\ WF_limitVars(part = "admins" /\ ReviewOne)
  /\ WF_outboxVars(part = "webhooks" /\ ClaimDue)
  /\ WF_outboxVars(part = "webhooks" /\ \E answered \in BOOLEAN : PostOne(answered))
  /\ \A e \in Events : /\ WF_outboxVars(part = "webhooks" /\ WriteRow(e))
                       /\ WF_outboxVars(part = "webhooks" /\ ComesDue(e))
  /\ WF_hostVars(part = "host" /\ ProcessQueue) /\ WF_hostVars(part = "host" /\ Reconnect)
  /\ \A c \in Commands : /\ WF_hostVars(part = "host" /\ HandlerStep(c))
                         /\ WF_hostVars(part = "host" /\ QueueStep(c))
                         /\ WF_hostVars(part = "host" /\ GrowsOld(c))

(* Imports that crossed another and applications whose clean-up failed,     *)
(* whose installation failed on a command that had done its work, or whose  *)
(* operation died are outside the properties: nothing is explored behind    *)
(* them.                                                                    *)
Spoken == crossed = {} /\ halfway = {}

PanelSpec == PanelInit /\ [][PanelNext]_panelVars /\ PanelFairness
-----------------------------------------------------------------------------
(* The liveness of each part, where it is the one that runs: ReviewSettles, *)
(* HoldEnds, AdminStopped, EventCloses and CommandCloses.  What is always   *)
(* over again later comes to an end however often it begins.                *)
UsersReviewed == \A u \in UserIds : []<>(part = "users" => ~Unsettled(u))
UsersOffHold == \A u \in UserIds : []<>(part = "users" => ~Held(u))
AdminsStopped == \A a \in AdminIds : []<>(part = "admins" => ~Stoppable(a))
EventsClose == \A e \in Events : []<>(part = "webhooks" => ~AwaitsDelivery(e))
CommandsClose == \A c \in Commands : []<>(part = "host" => ~StaysOpen(c))
=============================================================================
