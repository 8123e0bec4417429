# Rebecca: formal models

Rebecca is a panel that manages VPN users over a set of nodes. One Go process
(the master) keeps users, services, hosts and configurations in SQLite or MySQL
and drives node processes over gRPC. These modules model the parts of the master
where several goroutines, a database and unreliable nodes meet, check them with
TLC on small instances and prove the properties of the core with TLAPS.

## The system

| Component | State | Operations | Hard behaviour |
|---|---|---|---|
| node operation queue (`nodecontroller/controller.go`, `repository.go`, `api/node_operations_worker.go`) | `node_operations` rows (kind, node, user, status), one mutex per node, the list of kicked users | the API and the jobs enqueue; a poller and a kicked goroutine claim, apply, close, retry or fail rows | two workers on one table, coalescing, compaction, retries, stale recovery, crash |
| node connection (`Connect`, `Sync`, `Health`, `Metrics`, the recovery worker) | `nodes.status`, desired and applied revision, consecutive failures | full sync without a row of its own, which closes the rows it supersedes | the set of superseded rows is read before the sync and closed after it |
| user mutations (`user/mutation_repository*.go`, `bulk_repository.go`) | `users` row, next plans, the rows enqueued for each node | create, modify, reset, revoke, next plan, delete, bulk actions | read, decide and write in one transaction; the list of connected nodes is cached |
| user lifecycle (`user/lifecycle.go`) | the same row | review of limits and expiry, periodic reset, autodelete | runs beside the API and the usage flush |
| usage accounting (`nodecontroller/usage*.go`) | staged batches, counters of users, admins, services, nodes | collect, stage, acknowledge, flush, history flush, prune | redelivery, ack after commit, limits enforced with the count |
| configuration (`xrayconfig`, `nodecontroller/config_builder.go`, `api/hosts.go`, `api/haproxy.go`) | raw configuration per target, hosts, inbounds | save, then queue a sync for one node or for all | commit and queue are separate steps |
| durable host commands (`host_actions.go`) | rows of the same table | the handler runs the command and keeps a row for a retry | both may run it |
| admins (`api/admin_lifecycle.go`, `admin.go`, `services.go`, `cmd/rebecca_cli`) | `admins`, `admins_services`, the marks `admin_disabled_at` and `service_limit_disabled_at` of users | handlers that end in a reconciliation, a review, a command line tool | whom to bring back; one admin who cannot be restored |
| certificates (`certificates`) | a directory and a row per domain, the resolver's index | issue, import, renew, revoke, delete, serve | renames and rows that fail apart; a scan without a lock |
| external applications (`externalapps`) | a record per application on disk and in memory, what it owns on the host and at Telegram | install, delete, enable, disable, update | plans of fallible steps and their clean-up, restart |
| backup (`backup`) | tables, file roots, `rebecca_env` | dump, drop, load, roll back, replace files | DDL commits on its own; nothing keeps writers out |
| webhooks (`webhook`) | `webhook_events` | enqueue, claim, post, mark or reschedule | nothing marks rows that travel; a crash between post and mark |
| maintenance (`system`) | one snapshot, a channel per watcher | start, output, finish, subscribe | three goroutines per command; slow watchers |
| IP limiter and sessions (`api/node_session_events.go`, `nodecontroller/ip_limiter.go`) | `vpn_user_sessions`, `user_online_ips` | admit, end, observe, block | events out of order; two callbacks at once |
| outbound subscriptions, telegram, login sessions, dashboard | tables of their own | described in `PROJECT.json` | timers and external services |

Calls go from the API and the jobs to the repositories; the repositories leave
rows in `node_operations`; the workers read them and call the nodes; the nodes
report usage, which the collector stages and the flush turns into counters and
status changes, which leave rows again.

What makes each part correct:

- queue: a removal reaches the node or a row that will bring it is left; an older
  configuration or an older state of a user never replaces a newer one for good;
  access that should end ends; a lagging revision catches up.
- connection: a full sync closes no row it does not stand for.
- users: the last row enqueued for a user describes the status he ended in;
  deleted users stay deleted; a user over a limit is stopped.
- usage: every byte a node reports is counted once; a batch is acknowledged only
  when it is safe.
- configuration: what was saved reaches the nodes.
- admins: an admin over his limit is stopped; what stops or restores his users is told
  to the nodes, and never brings back a user somebody disabled.
- certificates: a row has its files; a revoked pair is not served again.
- applications: a failed installation leaves nothing, an enabled one is whole.
- backup: the database is one of the two, never a mixture.
- webhooks and host commands: every row is closed, as sent, done or failed for a
  reason; nothing runs twice without one.
- maintenance: a watcher ends with the newest snapshot, of one operation.
- devices: no more of a user's devices than his limit.

## Modules

| Module | Models |
|---|---|
| `NodeOperations` | the queue of one node, its two workers, Connect and Sync, and the user mutations as far as they enqueue |
| `NodeAccess` | what the panel promises about the users a node accepts |
| `NodeOperationsAccess` | `NodeOperations` as an implementation of `NodeAccess` |
| `MCNodeOperations` | instances for TLC |
| `UsageLedger` | what the panel promises about the traffic of its users |
| `NodeUsage` | the traffic of one node's users, from the node's batch to the counters and the history |
| `NodeUsageLedger` | `NodeUsage` as an implementation of `UsageLedger` |
| `MCNodeUsage` | instances for TLC |
| `UserLifecycle` | a user's row between the three jobs, the usage flush and the mutations |
| `MCUserLifecycle` | instances for TLC |
| `AdminLimits` | limits of admins and services and the users they stop |
| `Certificates` | the manager of certificates and the TLS resolver |
| `ExternalApps` | the operations on hosted applications |
| `BackupRestore` | an import into MySQL while the panel runs |
| `EventDelivery` | what the panel promises about the events its webhooks tell of |
| `WebhookOutbox` | the outbox of webhook events |
| `WebhookDelivery` | `WebhookOutbox` as an implementation of `EventDelivery` |
| `HostCommands` | the durable commands of one node |
| `MaintenanceStatus` | maintenance operations and their watchers |
| `DeviceLimits` | admission of sessions and blocks of addresses |
| `MCPanel` | values for TLC and `UserLifecycle` and the eight parts from `AdminLimits` to `DeviceLimits` in one specification |
| `NodeOperationsProofs`, `NodeUsageProofs`, `UserLifecycleProofs` | theorems about the queue and its promise, usage, the users' rows |
| `LimitsProofs` | theorems about `AdminLimits` and `DeviceLimits` |
| `DurableWorkProofs` | theorems about `WebhookOutbox`, `HostCommands` and `MaintenanceStatus` |
| `CertificatesProofs`, `BackupRestoreProofs`, `ExternalAppsProofs` | theorems about the module each is named after |

Names ending in what went wrong (`PassedNone`, `RescheduledEarly`, `AdmissionShared`,
`UpdatePlanRecordFirst`, ...) are not used by a specification: each is a plausible
bug in the definition beside it, which `PROJECT.json` puts in its place to see that a
property notices.

### NodeOperations

One node: rows carry a node id, a pass runs the rows of each node as a group of
its own, and the mutex is per node, so nodes meet only in the database.

State. `ops` is the table, by id: kind, user, status, and `need`, a ghost that
says which version of the user or of the configuration the row stands for.
`user` is the users' status, where `active` and `on_hold` are "on" (the query
behind every configuration takes both) and the other statuses "off" or
"deleted". `ver` and `cfg` are ghost versions: one more for each change of a user
or of the configuration that matters to a node, so an old state is told from a
new one without modelling either. `status`, `lag` and `nodeLag` are the node's row
and its desired and applied revision. `nodeCfg` and `nodeUser` are the node:
which configuration it runs and which version of a user's credentials it accepts.
`lock`, `job`, `batch` and `kicks` are the master's memory and are lost in a
crash. `missed` is a ghost: users whose last change was committed while the node
was not in the list of connected nodes, for which the code queues nothing and
relies on the full sync of the next connection.

Actions, in the order of the code:

- `CreateUser`, `UpdateUser`, `DeleteUser`, `BulkUpdate`: one transaction each;
  `Commit` is the change, the compaction of the user's waiting rows and the new
  row. A bulk action enqueues `update_user` whatever the new status.
- `ChangeConfig`, `QueueNodeSync`: the save and the separate statement that queues
  the sync, coalesced into a waiting one.
- `ProcessQueue`: recovery of rows left running, a sync for a lagging node, the
  read of pending rows and of retrying ones past their backoff, the fold of a
  backlog of user rows into one sync. `ProcessRuntimeUserOperations` is the kicked
  goroutine's read.
- `ClaimRow`, `ReadSuperseded`, `LockAndBuild`, `ApplyOk` (or `ApplyLost`,
  `ApplyRefused`), `FinishRuntime` (or `FinishFails`), `CloseRows` (or `CloseFails`),
  `RecordFailure`: one row in a worker. When a write of `finishRuntime` fails the node has
  the configuration and the row is set to retry; when the rows cannot be marked done they
  stay as they are, running or waiting. A delta is applied alone ("targeted") or,
  when the node or the protocol needs it, as a full configuration ("full").
- `StartConnect`, `SetConnecting`, `StartSync`, `CtlReadSuperseded`, `CtlBuild`: the
  handlers, which then go through the same call.
- `ProbeUp`, `HealthDown`, `Crash`.

Abstracted: the contents of a configuration, the services that narrow a user to
some nodes, the order among rows of other nodes, timers (a row left running may
be recovered at any time, at the price of a fault while it is being executed), the
rows that Prune deletes (none is open), rows without a node, whose fan-out is
`QueueNodeSync`, and the guard that leaves a user out of a configuration while his open
VPN sessions reach his device limit (`Want`): nothing is queued when a session ends, so
under that guard a node may lack a user until the next configuration. A transaction is one step, as SQLite runs it.

Assumption about the node: a call that timed out has taken effect, or not, by the
time the mutex is released. A call that takes effect later than that is out of the
model; the code has no defence against it either (a retry carries a newer state).

### NodeUsage

One node again: rows are keyed by node and batch, and a pass collects every node
in a goroutine of its own. There is one collector and one flush worker; no other
code calls `CollectUsage` or `FlushStagedUsage`.

State. `row` is `node_usage_user_queue`: a sample of a batch and a user is staged,
counted (`processed_at`), done (`history_processed_at` too) or not there. `used`,
`status` and `plan` are the users' rows; a deleted user is a
disabled one whom nobody enables. `logged` is `user_usage_logs` added up for each user,
which every clearing of `used_traffic` writes in its own transaction (`Cleared`), and
`lifetime` is `lifetime_usage` of all admins added up: every user has an admin. `held`
and `stored` are the collector's memory. `unacked`, `made` and `sample` are the node,
which delivers the batch it holds no acknowledgement for again, with the same id
and the same content. `taken`, `dropped`, `recorded` and `forced` are ghosts.

Actions: `Collect`, `Store`, `AckUserUsage` and their failures; `FlushStagedUsage`
(one transaction: charge the users and their admins, enforce the limit, mark the rows),
`FlushStagedUsageHistory`, `PruneProcessedUsageQueue`; `DisableUser`, `EnableUser`,
`ResetUser` of the API, `ReviewUser` of the lifecycle job; `Crash`. A flush that fails
changes nothing, and one whose commit answer is lost is one that succeeded, so
neither is an action. The retry inside `storeCollectedUsageWithRetry` repeats `Store`,
which a batch given up and delivered again does as well.

Abstracted: coefficients (a sample is what they made of it; one they round to 0 is
never staged, though it is acknowledged with its batch), the time of the last activity, expiry and on-hold, the
counters of services and nodes (written in the same transaction), the
outbound queue (the same code shape on another table), batches without an id and
the settings that skip the history. After a next plan the limit is the same again.
A transaction is one step, as SQLite runs it: under MySQL a reset reads the counter it
logs without a lock, and a flush that commits before the reset does is in neither.

`UsageLedger` is the promise behind it, without rows, calls or crashes: samples are
at the node, due or booked; the node counts (`Count`), samples enter the database
(`Enter`), the node forgets what the database has (`Forget`), samples are booked in one
step with the stop or next plan of their user (`Book`), and users are settled by others
(`Settle`). In `NodeUsageLedger` the node has the samples of the batch it holds no
acknowledgement for, a staged row is due, and a sample some flush has taken is booked,
whether its row is still there or not.

`Outage` says whether a batch may stay unacknowledged for longer than
`nodeUsageQueueRetention`, five minutes after its rows were processed. When it is
FALSE, pruning leaves the rows of the batch the node would deliver again.

### UserLifecycle

State. `users` is a row per user with his plans and the total of his reset log;
`snapshot` is what each job's open transaction has read. A job is one transaction in
two steps, `Begin` and the commit (`ReviewLifecycle`, `ResetPeriodicUsage`,
`AutodeleteExpiredUsers`). The database is SQLite in WAL mode: a transaction whose
snapshot another commit has passed cannot write any more, so `Passed` ends it, and the
job returns its error and begins anew. `clock` counts days. `queued` is what the last
step enqueued; `traffic` and `usable` are ghosts.

`TouchOnline` is the user's presence, written when a report is taken in, and `FlushUsage`
one user of a usage flush later, with `enforceUsageLifecycle` behind it;
`UpdateUser`, `DeleteUser`, `ResetUser`, `ActiveNext` and `BulkUsersAction` are the API's.
The review's three queries read what the ones before them wrote, each limited to
`BatchSize`; for users on hold and for the other two jobs the code takes the batch
before it looks at the dates, and so do `OnHoldRows`, `PeriodicRows` and `AgedRows`.
`IncludeLimited` says whether autodelete takes limited users too; a row without
`last_status_change` is never old enough for it or for a bulk cleanup (`AgedSince`).

Abstracted: permissions, quotas, services and proxies of a mutation, strategies other
than a day, the time of `online_at` (only whether it is newer than the row's start).

### AdminLimits

`adminRow` is an admin with the traffic of his services, `userRow` his users with the two
marks. A request is one transaction that ends in `ReconcileAdmin` and
`ReconcileServices`; it fails as a whole when the users to restore do not fit
(`Unrestorable`). `ReviewAdmins` reads the names, `ReviewOne` reconciles one after the
other and ends the pass at the first that fails. The `Cli` actions write the admin
and nothing else. `byHand` is a ghost: users whose last change asked for was to be
disabled. The reason an administrator gives is free text and may be the one the review
writes (`Reasons`), which then brings the admin back. Left out: the mode created_traffic, full-access admins, sessions and API keys.

### Certificates

`live` is the directory of each domain, `recorded` its row, `work` the operation under
`operationMutex`. Each step of an operation (certbot, displace, install, record, put
back) may fail, and `DieAndRestart` may come between any two. The resolver
(`BeginScan`, `ReadMetadata`, `ReadPair` twice, `PublishScan`) reads the same files
under no lock of the manager's. The certificate and the key of an issue are one
number, so that a scan which reads the halves of two issues finds no pair, as
`tls.X509KeyPair` refuses it. Ghosts say which revocations were reported as failed
(`unanswered`), where a clean-up failed or the process died (`spoiled`) and which files
were put back while a scan ran (`torn`).

### ExternalApps

An operation is a plan of steps (`InstallPlan`, `DeletePlan`, `EnablePlan`, `DisablePlan`,
`UpdatePlan`): what is put on the host or removed, and when the record is written on
disk and in memory; `Holdings` says which of it an application of each kind has.
`StepDone` does the next step; `StepFails` fails it, before or after
its work where the code cannot tell, and turns the operation into its `Undo`;
`UndoFails` goes on with the rest of the clean-up. `DieAndReload` reads the records again,
but not those of applications whose directory is gone.

Three ghosts say what the properties do not speak of. `halfway`: a clean-up failed, the
process died on the operation, or a command of an installation did its work and failed
before it was marked for the clean-up. `leaving`: a deletion failed on its way.
`stopped`: an enabled application whose status was to change and failed at a step that
takes something away (`CutsOff`). Enabling an enabled bot again and failing at its cron
file removes the webhook, and failing at its record the cron file as well; a record that
cannot be written stops the unit of an enabled Node.js application, and a stop that is
not answered may have stopped it. The record says enabled all the while. `EnabledWhole` asks of such an application
all but webhook, cron file and running unit (`Switched`), and those again when it has
been enabled.

### BackupRestore

Imports with MySQL or MariaDB: `DumpForRollback`, `DropTable`, `LoadTable`, `RestoreRoot`
one table and one root at a time, `StatementFails` and the rollback from the dump.
`WriteTable` is everybody else. A root the archive does not have is skipped. `credentials`
says whose database settings the file `rebecca_env` carries. The panel lives through its
imports: one in whose middle the process dies leaves the tables as they are, with nobody to
put them back, and is not modelled.

### WebhookOutbox, HostCommands, MaintenanceStatus, DeviceLimits

- `WebhookOutbox`: `Enqueue`, `ClaimDue` (which writes nothing), `PostOne` per endpoint,
  `WriteRow` for `MarkSent` and `Reschedule`; `DispatchBreaks` is a write that fails or the
  end of the panel. There is one dispatcher. `EventDelivery` is the promise behind it:
  an event is announced, posted with others while it waits, and closed once, for a reason
  (`Announce`, `Post`, `Close`); in `WebhookDelivery` its state is the status of its row.
- `HostCommands`: rows of one node's commands, each with its HTTP handler, and the
  queue's pass. Both claim with `MarkOperationRunning` and write the result by id. `Call`
  is the node, external: it runs the command or not, and its answer arrives or not.
- `MaintenanceStatus`: an operation's command, the readers of its pipes and the goroutine
  that waits for it write to the store; `publishLocked` serves the watchers one by one,
  and a watcher takes its snapshot between the drain and the send too.
- `DeviceLimits`: one user and one node's addresses. An event of a session is a
  transaction (`BeginStart` or `BeginStop`, then `CommitReport` or `AbortReport`) under
  `sessionAdmissionMu`; `ApplyIPBlocks` computes the blocks from the newest sightings. Every
  session has an assigned address: events with none are refused under a limit, and sessions
  with none end before the count.

## Runs

| Run | Bounds | Shows |
|---|---|---|
| `faults` | 1 user, 4 rows, 3 changes, 1 fault of 7 kinds, both kinds of delta | `TypeOK`, and `KeepsPromise`: the queue implements `NodeAccess` |
| `handlers` | 1 user, 3 rows, 2 changes, 2 versions of the configuration, stale list of nodes | `NoStaleAccess` and `ConfigMonotone` with Connect and Sync beside both workers; deadlock checked |
| `full_deltas` | 2 users, 4 rows, 3 changes of each, fold above 1 row, bulk actions, every delta a full configuration | `NoStaleAccess`, `NoLostAccess` |
| `fair` | 1 user, 5 rows, 2 changes, 1 fault of 5 kinds, `FairSpec` | `AccessEnds`, `LagEnds`; deadlock checked |
| `bulk_disable` | 1 user, 2 changes | violation of `NoStaleAccess` |
| `config_owed` | no user, 3 versions of the configuration, Sync | violation of `ConfigOwed` |
| `stale_remove` | 1 user, 3 changes | violation of `NoLostAccess` |
| `usage_once` | 2 users, one with a next plan, 2 batches, flushes of 1 row, limit 2, 1 fault of 4 kinds, no outage, `FairSpec` | `NeverTwice`, `HistoryOnce`, `TrafficAccounted`, `AdminsAgree`, `LimitKept`, `EverySampleTaken`, `LedgerKept`: it implements `UsageLedger`; and `TypeOK`, which bounds `used` and `logged`; deadlock checked |
| `usage_outage` | 1 user, 2 batches, 1 fault, outage | violation of `NeverTwice` |
| `usage_dropped` | 1 user, 2 batches, no fault | violation of `AckSafe` |
| `panel` | each of the nine other parts, see below | 11 invariants, 7 action properties, a refinement, 5 liveness properties |
| `carry_over` | 2 users, 2 units of traffic, 1 edit | violation of `CarriesAsAsked` |

Why these bounds are enough to be interesting: three changes of one user give an
enable, a disable and an enable, the shortest sequence in which an older row can
undo a newer one; four rows leave room for a fold or a lag sync beside them; two
users are needed only where a backlog is folded or a row of one user is
superseded for another; one fault, at any point, is followed by the whole
recovery. The bound on the table is a guard of every action that inserts, so a
full table stops them: `faults` and `full_deltas` do not check deadlock for that
reason alone, nor do the runs that end in a violation. For usage, one lost call
makes the node deliver a batch again at every stage of its rows; a flush of one
row splits a batch of two users; two batches of one user reach the limit of two
in separate flushes.

Values in `panel` (`Panel.cfg`, `MCPanel`). The nine parts share no state but the
database, through tables the others do not touch, so the specification runs one of
them (`part`) and leaves the others in their initial states.

| Part | Bounds | Shows |
|---|---|---|
| users | 2 users, one about to expire with a plan, one on hold, batches of 1, day 3 to 4, 1 unit of traffic, 1 mutation, limited users deleted too | `TrafficConserved`, `GraceKept`, `DeletedStays`, `AccessQueued`, `UsersReviewed`, `UsersOffHold` |
| admins | 2 admins with 2 and 1 users, 1 service, 1 unit of traffic, 2 requests | `HandStays`, `LimitsTold`, `RestoreFits`, `AdminsStopped` |
| certificates | 1 domain with a certificate in the old place, 2 pairs, any failures and restarts | `FilesRecorded`, `ScanHonoursRevocation` |
| apps | a bot and a Node.js application, installed or not, 2 releases, 3 operations | `NothingLeft`, `BotsReadable`, `EnabledWhole` |
| backup | 2 imports, one full, of 1 and 2 of 2 tables, 2 roots | `RestoreWhole` |
| webhooks | 3 events, 2 endpoints, batches of 2, 2 retries, 1 fault | `EventsDelivered`: it implements `EventDelivery`; `EventsClose` |
| host | 1 command, 3 faults | `RepeatedForCause`, `CommandsClose` |
| maintenance | 3 operations, one of them handed to systemd, 1 watcher, 1 line | `NewestKept`, `OwnStory` |
| devices | 3 sessions of 2 protocols at one assigned address, limit 1, 2 callbacks | `DevicesWithinLimit`, `AllowanceKept` |

Two users are enough for a batch of one to leave somebody behind; one day is enough
for an expiry, a hold and a periodic reset, and one mutation can fall between the two
steps of each job. Two requests of an admin are a stop and a restore, with traffic and
the review around them. Two pairs are the certificate of the old place and one that is
issued, imported or renewed over it; the domain starts with files, so that something
can be put back. Three operations on an application are an installation, a failure
and a second try. A batch of two out of three events mixes a row that failed once with
one that did not; three faults of a host command are a lost answer, a recovery of its
row and a failed write. Three maintenance operations leave two old ones that may
still write. The types of the parts are not checked by a run: they are part of the
invariants proved below.

`Spoken` is a state constraint: behind imports that crossed and applications in `halfway`
nothing is explored, because those properties exempt them and both sets only grow.
The liveness of a part is stated as `[]<>~P` for the state P that has to end
(`ReviewSettles`, `HoldEnds`, `AdminStopped`, `EventCloses`, `CommandCloses`), which says
what `P ~> ~P` does.
Deadlock is not checked: every part stops at its bounds, by then it has nothing to do.

Fairness (`Fairness`): the poller ticks and the kicked goroutine loops until its
list is empty (weak, per step); retrying rows pass their backoff and rows left
running their two minutes (`NextPass` takes all of them); `sync.Mutex` hands the
lock to a waiter after a millisecond, so `LockAndBuild` is strong; the recovery
worker connects nodes in error on every tick but needs the mutex, so `Recover` is
strong. No fairness is assumed of users, of calls succeeding or of faults; faults
are bounded in number.

Usage (`NodeUsage!Fairness`): the collector starts again five seconds after it ended
and the flush worker two seconds after (weak, per step); a node that is connected
is reached unless a fault says otherwise. Nothing is assumed of the users or of
pruning.

Panel (`PanelFairness`): the review's ticker goes on for as long as the server runs
(`LifecycleFairness`), and nothing is assumed of the other two jobs; the admins' review
likewise (`LimitFairness`); the webhook worker has a ticker, its posts a client timeout, and a
row's retry time comes (`OutboxFairness`); a handler and the queue go on, calls end at
their deadline, rows grow old and the recovery worker connects the node
(`HostFairness`). All of it is weak. Certificates, applications, backup, maintenance and
devices have no fairness and no liveness property.

### What the code does not keep

- `bulk_disable`: a bulk disable or cleanup enqueues `update_user`; a node with
  targeted updates does nothing for a user who is not active, and the row is done.
  The function `queueRuntimeSyncForStaleUsersTx`, which sees the traffic of such a
  user, counts it and queues nothing.
- `config_owed`: a change saved while a full sync is between reading the open rows
  and applying is folded into a waiting row which that sync then closes.
- `stale_remove`: a running disable row is not compacted; with the two workers it
  can reach the node after the enable row that came later, and the user is lost
  until his next change or the next full sync.
- `usage_outage`: `PruneProcessedUsageQueue` deletes the rows by which a batch is
  recognised without asking whether the node was told; delivered again after the
  retention, the batch is charged a second time.
- `usage_dropped`: the node is told to forget a batch when it is staged. The flush
  charges only users who are active by then, and the rest of the rows are marked
  processed: traffic of a user disabled in between is charged to nobody.
- `carry_over`: the usage flush reads `add_remaining_traffic` the wrong way round
  (`applyUsageNextPlan`), unlike the review and the API: which limit a user gets depends
  on who finds him first.

### What was seen on the way

Behaviour of the code that the modules contain and no property forbids, because no
line of the repository says otherwise; where a property has an exception, it is here.

- Users: the batches of the on-hold review, of the periodic reset and of autodelete are
  taken before the dates are looked at, so `BatchSize` users who are not due keep
  those behind them waiting for ever (`HoldEnds` speaks of the first `BatchSize` only).
  A bulk decrease of a limit below zero makes it no limit, and the user active. The
  periodic reset and a new limit make an expired user active until the next review.
  Bulk activation of a user on hold leaves his hold in the row.
- Admins: an admin whose users no longer fit ends every pass of the review, and those
  behind him are never stopped (`AdminStopped` speaks of the others); the mark of a service survives `/users/disable` and `activeNext`, so
  that a user disabled by hand comes back with the service (`HandStays` speaks of users
  without the mark); users restored with a service are not counted (`RestoreFits`); the tool's
  disable and delete leave users and nodes as they are.
- Certificates: a crash between two renames leaves a row without files; a scan
  that meets files being put back may serve a revoked pair until the next scan;
  a revocation whose answer was lost puts the status back to active.
- Applications: a database half created by the installation of an archive is not
  removed; a deletion that failed after the unit's file is gone cannot be repeated;
  a crash during the installation of an archive blocks its domain; enabling a bot
  that is enabled and fails takes its cron file and webhook away under a record that says
  enabled; files of an update are lost in
  a crash between its two renames; a database migrated before the files are swapped stays migrated.
- Backup: nothing keeps imports, exports and writers apart; a file root that fails stays
  half copied beside the new database; with SQLite the files `-wal` and `-shm` of the
  open database are removed.
- Webhooks: delivery is at least once; an event is enqueued after the commit it tells of,
  best effort.
- Host commands: a lost answer repeats a reboot or an update, and a call longer than
  two minutes is run a second time; a handler that finds its row taken marks it
  failed though the queue runs it; results are written by id alone, so a closed row can
  be opened again; attempts have no limit.
- Maintenance: output read after the end overwrites the phase of a failed command;
  `cmd.Wait` closes the pipes before they are read to the end; operations do not exclude
  each other.
- Devices: a "seen" that arrives after its "stop" opens the session again; a lost "stop" of
  an OpenVPN or L2TP session keeps its slot; ties in the order of blocks follow Go's map order.
- Telegram: any report that is sent (`RecordSent`) clears `last_error_at`, by which the
  schedule knows when a backup failed, and leaves `backup_last_error`; the failed
  backup is then due again at the next tick instead of after its interval.

## Proofs

Every invariant and action property the passing runs check is a theorem, for every
value of the constants; so are the three refinements. Assumed are
only the named assumptions on the constants, which TLC evaluates, and the hypotheses
said below. Each theorem has an inductive invariant behind it, with a step per action;
TLC checked each on the instances of its run before it was proved.

### The queue: `NodeOperationsProofs`

For every set of users, every bound, every subset of mutations, handlers and faults:

- `TypeCorrect`: `Spec => []TypeOK`.
- `NodeConfigMonotone`: `Spec => ConfigMonotone`. The invariant `CfgInv` says that
  what a worker has built is between what the node runs and what the database
  holds, that a worker with something built holds the mutex, and that only one does.
- `NoStaleAccessEver`: `Spec => []NoStaleAccess`, under `BulkSafe`.
- `NoLostAccessEver`: `Spec => []NoLostAccess`, where `"targeted" \notin Delta`. The run
  `stale_remove` is the reason for the hypothesis.
- `QueueKeepsPromise`: `Spec => KeepsPromise`, under `BulkSafe`: the initial states
  are initial states of `NodeAccess` and every step is one of its steps or a stutter.

`BulkSafe` says that bulk disable and cleanup do not meet targeted deltas; the run
`bulk_disable` is the reason it is there. `NoStaleAccess` is not inductive: a step
that closes a row needs to know that the job which closes it has delivered what the
row stands for. The strengthening is `Shape` and `Deliveries`. `Shape` ties a
worker's place to the mutex, to its row and to what it has built: which kind a row
has, that a row claimed by a worker is one it could have read, that the set a full
sync will close holds no row newer than its build. `Deliveries` says, per user:
whatever a job has built of a user that is amiss, and whatever the node holds of him
that is, is covered by a row that is open or failed and will not be closed by a job
that carries the old state, or by `missed`. What is amiss depends on the deltas
(`Amiss`): credentials that are not his now always are; a user left out who should be
there is too where every delta is a whole configuration. So one induction serves both
access theorems.

### Usage: `NodeUsageProofs`

For every finite set of users, every bound, plan and limit. Two invariants carry it.

`Base` holds whatever happens, outages included: types, `OneBatch` (the batch in
memory is the one the node would deliver again), `StoredIsKept` (what is about to be
acknowledged is in the table or was taken), `RowTaken` (a row that is counted was taken).
From it:

- `ForgottenIsKeptEver`: `Spec => []ForgottenIsKept`, which the run checks as part of
  `LedgerKept` (`Forget`).
- `LimitKeptEver`: `Spec => []LimitKept`.
- `AdminsAgreeEver`: `Spec => []AdminsAgree`. A batch that is charged twice is charged to
  the admin twice too, so this one needs no assumption either.

`Exact` holds under `~Outage`. Its part `RowTells` reads from a row how often its sample
was taken and recorded, and says of a row that is gone after it was taken that its batch
is not the one the node would deliver again; `DroppedTaken` and `TrafficAccounted` are
the others. From both:

- `NeverTwiceEver`, `HistoryOnceEver`, `TrafficAccountedEver`.
- `UsageTyped`: `Spec => []TypeOK`. Its bound on `used` and `logged` follows from
  `TrafficAccounted`: what was charged to a user is a sum over samples taken once, of
  which he has one in a batch.
- `LedgerKeptEver`: `Spec => LedgerKept`. One lemma per kind of step names the step of
  `UsageLedger` it is: `DeliverLedger`, `StageLedger`, `AckLedger`, `FlushLedger`,
  `SettleLedger`; the history, pruning and a crash are nothing to the ledger. That `Book`
  adds to what a flush has not booked before, and that `Enter` brings nothing back, is
  where `Exact` is needed.

The run `usage_outage` is the reason for `~Outage`.

The sums are `SumFunctionOnSet` of the community modules, a fold over a finite set. What
is said of them for every set (`SumNat`, `SumUnion`, `SumAdd`, `SumChange`, `SumRange`)
is induction on finite sets, done without the library's induction theorems, which take
an operator: the strict subsets of a finite set are well founded
(`FS_StrictSubsetOrderingWellFounded`, `WFMin`), so a collection of finite sets has a
smallest one (`SmallestSet`), and the smallest set a lemma fails for contradicts it. The
recursive function inside the fold is first shown to exist (`SumsExist`): a table of
sums over the subsets of a set, extended from its smaller subsets.

### The parts of `panel`

Each is about the specification of one part, as `MCPanel` runs it.

- `UserLifecycleProofs`: `LifecycleTyped`, `LifecycleTrafficConserved`, `LifecycleGraceKept`,
  `LifecycleDeletedStays`, `LifecycleAccessQueued`. The invariant `LifecycleInv` adds to the
  three invariants that no user was active later than today, without which a row
  written today would not keep its grace. Each way a row changes is shown once to be
  a `RowStep` (it keeps the type, keeps used plus logged, stamps a loss of access, and
  never brings a deleted row back), and `CommitStep` lifts that to a commit of many rows.
  That a job commits only on the rows it has read is `snapshot \in {NoTx, users}` of the
  type invariant, which `Passed` keeps.
- `LimitsProofs`, admins: `LimitsTyped`, `HandStaysEver`, `LimitsToldEver`, `RestoreFitsEver`,
  for any admins, services and users. `LimitInv` says that a user kept by hand is out of
  reach of every reconciliation (`Resting`: disabled, with neither mark); every
  transaction, from a single edit to the review, is shown to be `Kept` as a whole,
  because the reconciliations at its end see tables nobody else ever does.
- `LimitsProofs`, devices: `DeviceLimitKept`, for every limit. The mutex leaves at most one
  callback in its transaction, and what it will write keeps the limit given the rows it
  read, which nobody else writes. `DeviceAllowanceKept` is about what `ApplyIPBlocks`
  computes from one state: what is left after the blocks is at most the limit and at
  least the limit, by the library's facts about cardinality, in whatever order
  addresses seen at one time are taken.
- `CertificatesProofs`: `FilesRecordedEver` and `ScanHonoursEver`, for any domains, any
  failures and restarts. `Books` says which row and which files an operation has away
  at each of its steps, `Ownership` that a pair belongs to one domain wherever it is,
  `Honoured` that a revoked pair is nowhere under an active status, and `Scanning` that
  what a scan has found or is about to read is not among the pairs revoked before it
  began, but in directories put back meanwhile (`torn`), of which `ScanHonoursEver`
  does not speak.
- `BackupRestoreProofs`: `RestoreWholeEver`, for any tables, roots and archives. `AloneWith`
  says which tables an import that ran alone has dropped and loaded at each step, and
  from which database; an import that meets another is `crossed` before it writes.
- `ExternalAppsProofs`: `NothingLeftEver`, `BotsReadableEver`, `EnabledWholeEver`, for any
  applications of any kinds, outside `halfway` and (the first and the last) `leaving`;
  `EnabledWholeEver` speaks of `Switched` things outside `stopped` only. `AppInv` says of an application at rest what its record
  promises, and of the one an operation runs on what it owns or what the rest of the
  plan still puts there, takes away or gives back (`Underway`: one predicate per kind of
  operation). A step done moves its effect from the plan to the application
  (`UnderwayStep`), a step that fails leaves an application the undo makes good
  (`InstallFails`, `EnableFails`, ...), and a plan with no step left is an application at
  rest (`FinishRests`). Every plan writes a bot's record after its secrets and takes it
  away before them (`SecretsFirst`, `RecordFirst`), which is why no step in between can be
  caught with an unreadable bot.
- `DurableWorkProofs`, webhooks: `OutboxClosedWithCause`. A row's attempts never exceed the
  posts nobody answered, counted up to `MaxRetries`, nor do those the running batch has
  read; a batch being marked was accepted. A batch that breaks leaves the post counted
  and the row not, which is why the relation is an inequality. `OutboxDelivers`:
  `OutboxSpec => EventsDelivered`, where every step is one of `EventDelivery` or a stutter.
  `PostDelivers` and `WriteDelivers` rest on `BatchWaits`: the rows of a batch that
  travels wait until they are written, because there is one dispatcher; so no closed
  event is posted again and no closed row is written again.
- `DurableWorkProofs`, host commands: `HostRepeatedForCause`. What the
  handler, the queue and the row may still run is counted as a share each (`Budget`),
  and a row nobody asked for holds none (`Unasked`); a share goes from one to the other
  by a claim and comes back only with a lost answer or a recovery, which excuse it.
- `DurableWorkProofs`, maintenance: `MaintenanceNewestKept` from what a watcher that was
  drained and one that was not yet served hold, and `MaintenanceOwnStory`, because an
  operation that is not the latest can no longer publish.

### Only model-checked

Every liveness property (`AccessEnds`, `LagEnds`, `EverySampleTaken`, `UsersReviewed`,
`UsersOffHold`, `AdminsStopped`, `EventsClose`, `CommandsClose`): they rest on fairness, so
on `ENABLED`, which the prover cannot reach. Every invariant and every action property
of the runs that pass is a theorem, and so are the refinements.

## Plan

Done: the queue and what it promises, usage, the users' rows, limits of admins,
certificates, applications, import, webhooks, host commands, maintenance, devices; the
proofs above.

Left, by what it would add:

1. `restart_node` and `reboot_node` rows, which build a configuration before they take the
   mutex and then supersede every open row, on top of `NodeOperations` and `HostCommands`.
2. The users' row under MySQL's isolation, where neither a job nor a reset is ended by a
   commit beside it; then composed with `NodeOperations`, so that the last row enqueued describes the
   status of the user.
3. Batches without an id and the outbound queue in `NodeUsage`.
4. Fan-out of a global sync and the HAProxy targets; the failure counter behind a
   node's status.
5. Deletion of services; login sessions, two-factor login and API keys; outbound
   subscriptions.
6. An abstract specification for each of host commands and certificates, and their
   refinement, as `NodeAccess` is for the queue, `UsageLedger` for usage and
   `EventDelivery` for webhooks.

## Not modelled

Rendering of links, subscriptions and client configurations, validation and patching of
core configurations, generated protobuf code, decoding of requests, permission
checks, reports, the dialogues of the bot and the command line, migrations, and the
node process itself. These are most of the repository's lines and hold no state
between calls: what they compute is a function of a request or of the database, and
its correctness is a matter of formats that a model of states says nothing about. So
the modules cover the state and its concurrency, and only a part of the lines.
`PROJECT.json` gives the reason for each component.
