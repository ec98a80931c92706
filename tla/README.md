# KubeNova in TLA+

KubeNova is a management console for Kubernetes clusters: a NestJS control API
(`backend/control-api`), a Go gateway for terminals and logs
(`backend/runtime-gateway`), a web console, and installers that update the
platform itself. This directory specifies the parts of it whose correctness
depends on interleavings, crashes and time, model-checks them with TLC and
proves their safety with TLAPS.

## 1. Inventory

`PROJECT.json` lists every component with its status. Most of the 1241 files
pass requests to the Kubernetes API, aggregate or render: they keep no state of
their own. The parts with a protocol are these.

| Component | State | Operations | What is hard | What makes it correct |
|---|---|---|---|---|
| Update task queue (`system-update/kubernetes-update-tasks.service.ts`) | table `KubernetesUpdateTask`: status, phase, `activeSlot`, claimedBy, leaseUntil, attempt, payload, result | submit, claimNext, heartbeat, recordBackup, finish, invalidateLatestPreflight | several controllers, leases, claims in two statements, expiry | one active task, fenced leases, final outcomes |
| Update controller (`kubernetes-update.worker.ts`, `kubernetes-update.adapter.ts`) | local variables of `runTask`; images and readiness of three Deployments | runOnce, lease renewal timer, rollout, restore loop | crashes, lost answers, lost leases, other editors | ordered rollout, complete restore, backup first, foreign edits kept, right images saved, every task ends |
| Update requests (`system-update.service.ts`) | `installStatus`, `preflightSettingsFingerprint`, the durable tasks | preflight, install, rollback, status | requests of one process interleave at each await and share fields | installs run under the settings their preflight rehearsed, and while it is valid |
| Update settings (`update-settings.service.ts`) | one encrypted row | save, read, fingerprint | read-merge-write, torn reads | no save is lost, fingerprint matches contents |
| Rehearsal and backup (`kubernetes-migration-*.ts`, `kubernetes-database-backup.service.ts`) | temporary database, Job, Secret, dump | create, restore, migrate, drop | crash between the steps | nothing left behind, no false "passed" |
| Alert ingestion and notification outbox (`monitoring/alert-ingestion.service.ts`, `notification-worker.ts`) | alerts, templates, `NotificationDelivery` | ingest, resolve by hand, claim, send, release, finish | several API processes, leases, lost answers, expiry | recovery after firing, bounded sends, fenced completion, every delivery ends |
| Notification scheduler (`notification-scheduler.service.ts`) | cursor, active cycle | runCycle | rotation over clusters | no cluster starves |
| Sessions and second factors (`auth/`, `users/`) | `Session`, `User.authzVersion`, `MfaCredential`, tokens in Redis | login, challenge, refresh, validate, enrol, reset, account changes | requests interleave between statements and row locks; versions repeat | one live session per login; whoever gets in logged in since the account changed; refused sessions stay refused; a reset removes what was proved |
| Runtime sessions (`runtime/`, `common/authorization-invalidation.ts`) and gateway (`runtime-gateway/internal/httpapi`) | rights, LISTEN connection, leases of watches, poll and subscription of a connection | validate, register, invalidate, poll, close | revocation races registration; lost notifications, connections and processes; timers | no stream outlives its authorization by more than a bound; no orphan leases |
| AI actions (`ai-assistant/`) | approvals | preview, approve, consume, execute | double submission | an approval is executed once |
| Native RBAC (`auth/native-rbac-*.ts`) | settings row with revision and sync status, Roles and RoleBindings | save settings, reconcile (plan, pairs, cleanup, status) | grants and settings change during a pass, passes overlap, fail and die | ready is said of the current settings, and what was applied is what somebody was entitled to |
| Host executors (`scripts/update-executor.mjs`, `systemd-update-executor.mjs`) | task file | run, resume | crash and restart | one task, rollback on failure |
| Cluster registry and sync (`clusters/`) | registry, watches by generation, timers, active syncs, records | start, restart, event, sync, console change, remove | overlapping starts, late handles, ended watches, shared syncs | no stray watch, no target forgotten, records never go back and end up as the cluster |

Components interact through PostgreSQL (the queue between API and controller,
the outbox between ingestion and workers, LISTEN/NOTIFY for invalidations),
through the Kubernetes API (the controller and its Deployments) and through
fields of one Node process (the requests of the update service).

The hazards, each at its line and with the properties that cover it, are in
`PROJECT.json`; a hazard without a property says why.

## 2. Modules

| Module | Models | Builds on |
|---|---|---|
| `UpdateSlot` | abstract specification of the queue: one slot, a holder with a lease, outcomes | - |
| `KubernetesUpdateTasks` | the task table and its operations, called by anybody | refines `UpdateSlot` |
| `KubernetesUpdateTasksProofs` | theorems about the queue | the queue |
| `KubernetesUpdateWorker` | controllers, rollout, cluster, crashes | the queue |
| `KubernetesUpdateWorkerProofs` | theorems about them | the controller, the queue's theorems |
| `KubernetesUpdateRequests` | requests of the control API, settings, the controller's settings check | the queue |
| `KubernetesUpdateRequestsProofs` | theorems about them | the requests, the queue's theorems |
| `NotificationOutbox` | ingestion, deliveries, delivery workers | - |
| `NotificationOutboxProofs` | theorems about it | `NotificationOutbox` |
| `AuthSessions` | login sessions, rotation, validation, second factors, account changes | - |
| `AuthSessionsProofs` | theorems about it | `AuthSessions` |
| `RuntimeAuthorization` | watch and poll of live connections, revocation | - |
| `RuntimeAuthorizationProofs` | theorems about it | `RuntimeAuthorization` |
| `NativeRbacReconcile` | passes over the pairs of a cluster, settings, grants | - |
| `NativeRbacReconcileProofs` | theorems about it | `NativeRbacReconcile` |
| `ClusterEventSync` | watches and syncs of a cluster, console changes | - |
| `ClusterEventSyncProofs` | theorems about it | `ClusterEventSync` |
| `MC*` | instances for TLC | one module each |

### The queue

`row[t]` is the t-th task in order of creation; its fields are the columns.
Phases between "queued" and the terminal ones are one value, "working".
`lease` and `ttl` are `leaseUntil` and `preflightExpiresAt` relative to now, so
that `Tick` counts them down; `lease` stops at -1 (`leaseUntil < now`), and 0 is
the instant at which a lease can be neither used nor taken over. Each operation
is one action because it is one conditional UPDATE or INSERT; `claimNext` is
`ClaimRead` followed by `ClaimWon`, `ClaimLost` or `ClaimReject`, with anything
in between. Its second statement compares `leaseUntil` with the time read at the
start of the call; a lease granted since then cannot satisfy that, and this is
`attempt` being still the one read. The lease runs from the UPDATE instead of
from that time stamp: the code's may end earlier, by the time between the two
statements. An install's preflight is validated before the INSERT, so that a row
may enter with a validity that is already over (`ttl` 0). `valid` stands for the HMAC signature and the checks of
`validateTaskPayload`; rejecting ten rows in one call is not reached, as one row
at most is active. In this module any worker may call anything about any task:
what holds here holds for every client.

### The controller

`proc[w]` is the `runTask` call of worker `w`: where it is, the Deployment it
works on, `previousImages`, `changed`, and `leaseError`, which the renewal timer
sets. `Report` is `reportProgress`; it renews the lease or throws. The first two
progress reports are one step, and the rehearsal is one. The rollout is read as
in `applyKubernetesImageUpdate`: read all, then per Deployment note as changed,
report, patch, report, wait; on an error undo the changed ones in reverse.
`PatchImage` is one step because the JSON patch tests the resource version of
its own read. `waitForDeployment` succeeds, sees another image, or ends by its
deadline, by `ProgressDeadlineExceeded` or by a failed report. `Complete` and
`Fail` are the two ends, `Fail` including the case in which the failure itself
cannot be recorded. The settings check (a mismatch or a missing target) is a
fault here and exact in `KubernetesUpdateRequests`; preflight checks are not
tracked. Clock skew between the controllers and the database is not modelled.

Faults are bounded together by `MaxFaults`: a crash, a failed or lost call, a
rollout that never gets ready, a foreign edit. `base` and `disturbed` are
history: what the cluster ran when a task was first claimed, and the Deployments
somebody else (or a worker that lost its task) has changed. Safety of the
rollout is claimed for the Deployments nobody disturbed.

### The requests

One step is what a request runs from one await to the next; `mem` is what the
requests of the process share. A save changes the fingerprint always, since
encryption takes a fresh IV (`update-settings.crypto.ts:9-14`), so a fingerprint
is a version number. `Abort` covers every check whose subject is not modelled.
`Restart` forgets memory and requests; there is one API process
(`deploy/k8s/control-api.yaml`, replicas 1). The controller is reduced to
claiming, reading the settings, their check and finishing. It reads the settings
and their fingerprint by two queries (`kubernetes-update.worker.ts:146`):
`ControllerRead` keeps in `seen` what the first returned, and a save may come
between. The torn pair is harmless for an install whose fingerprint was right
when it was queued: `seen` is then no older than the payload's fingerprint, and
the check makes it no newer. `InstallRunsAsRehearsed` compares with `seen`.
`installStatus` is set when the INSERT has been answered (`UpdateSet`), so that
requests come between the two. History: `passed` are the tasks the controller
has reported as succeeded, and a rollback request keeps in `known` the tasks
there were when it read the latest update. `RollbackOfLatest` speaks of them: a
rollback undoes an update that succeeded, and no update came after that one but
those that were queued while the request was on its way. With one request in
flight there are none of these; with more there may be (see findings).

### The outbox

Deliveries of one cluster: `Delivery` is alert, channel and event, which the
table's unique key is. Ingestion is one transaction; a batch of events is a
sequence of them. `Claim` is the SKIP LOCKED statement, then `Load` (the three
reads and the checks), `LoadFiring`, `Send`, and `Release` or `Complete`, or
`Catch`. Every write carries the fence `StillMine`. Delays have no length: a
lease, a retry delay and the 24 hours end when they like. A channel may accept a
message and its answer may be lost: that is not a fault but part of `Send`. The
workers are API processes, of which there are two during a rolling update; one
process never overlaps two cycles. Deleting a cluster is two steps, as in
`clusters.service.ts`: it is marked, and then its alerts go. An ingestion that
found the cluster live may end between the two.

### Sessions

A step is one statement, or one transaction where its row locks keep everybody
else away; transactions that others get in between are two steps, and the locks
follow from where their call is (`Locked`, `SessionLocked`). Nothing revokes a
session when rights change: every account change increments `authzVersion`, and
sessions, challenges and proofs carry the version they were made for. `validate`
reads session, user and assurance one after the other. Each call carries its
locals in `call[c]`; `Abort` is every refusal whose subject is not modelled, an
expiry among them. History: `login` is the first session of a rotation chain,
`since` the number of account changes when the password was checked, `enrolment`
counts credentials, whose own version column starts at 1 each time. A rotation
finds session and user by one snapshot (`RotateMatch`), looks again at the session's
row when it has its lock, but not at the user's (`RotateRevoke`), and inserts the
successor; the start of an enrolment reads the session again, then the version of
the account (`BeginAgain`, `BeginReread`).

### Runtime authorization

`gate[c]` is the gateway's goroutines of connection `c` (subscription, poll,
closing), `api[c]` the request that serves its watch, `link` and `inbox` the
LISTEN connection. Validation reads the session with its user and then the
grants; `RevalidateSession` and `RevalidateGrants` do so again after the lease
is registered. Expiries and timers count ticks down or up; `Tick` requires that
timers are on time (`OnTime`), which is the assumption behind every bound in
time. Triggers announce changes of users and grants, not the closing of a
session: only the poll finds that. `LinkDies` is a connection whose end nobody
has noticed yet, `ApiCrash` the end of the API process.

### Native RBAC

A pass is a sequence of queries and Kubernetes calls; `pass[p]` is where it is
and what it has read. `roleFresh` and `boundFresh` are the conditional writes by
uid and resourceVersion: nobody has written the object since it was read. One
namespace, so that a user has one pair. `Throw` is a failure anywhere, also
after a call that was carried out (`WriteRules` and `WriteBinding` happen, then
the pass throws; `Finish` may write "ready", get no answer, and write "error"
after it); `Crash` loses the pass. `TimePasses` is a grant that comes
into force or ends without a change of version. History: `alone`, no other pass
has been at the cluster, and `held`, what each user was entitled to since the
pass began to work.

### Watches and syncs

One cluster that stays registered, in one process. A start (`call[s]`) takes a
generation, reads the kubeconfig and opens one watch per target; after each await
it looks whether its generation is still current. Generations are only compared
for equality, so `current` says whose is the current one: a start's, the
finished watches' (`Watches`), or nobody's that lives. `stream` are the open
watches with the holder of their handles. A sync lists and writes one kind after
the other; `AskForSync` is `syncCluster`, which starts one or joins the one that
goes on. The records of a kind are a version and are written in one step
(upserts one by one in the code); a failed kind writes nothing here. A change made
through the console writes its record from another path and asks for a sync.
`ConfigFails` of a restart by timer ends the process, since nobody catches its
rejection (`cluster-event-sync.service.ts:373`).

## 3. Runs

| Run | Bounds | Shows |
|---|---|---|
| `queue` | 2 workers, 2 tasks, lease 2, validity 5, symmetric workers | the slot column matches the status; attempts bounded by the validity; leases fence; outcomes final; the queue implements `UpdateSlot` |
| `rollout` | 2 workers, 2 Deployments, 1 task, 2 faults | order of the rollout, complete restore, at most one stray patch, backup first, foreign images kept, success means target |
| `recovery` | 1 worker, 2 tasks, 1 fault, fairness | an install and its rollback bring the images back; every task ends |
| `saved_images` | 2 workers, 1 task, 1 fault | violation: see findings |
| `one_request` | 1 request at a time, 4 tasks (preflight, install, another update, rollback), 1 save, restarts | installs as rehearsed and within the preflight; rollbacks of the update that was the latest when it was read, and only of one that succeeded |
| `fingerprint_race` | 2 requests, 2 tasks, 1 save | violation |
| `outbox` | 2 workers, 1 alert, 1 channel, 2 attempts, 1 fault, fairness | bounded sends, recovery after firing, cancelled never sent, no late firing but from an outlived lease, fencing, termination |
| `lost_release` | as `outbox`, 2 faults | violation |
| `auth_sessions` | 1 user, 2 requests in flight, 3 sessions, 1 token, 3 versions; symmetric requests, and a view without what revoked rows said | one live session per login; logged in since the last change; refused for good; accepted was acceptable; resets what was proved |
| `runtime_authorization` | 1 connection, poll 3, timeout 2, expiry 4, 2 notifications, fairness | bounded lag, no missed revocation, no orphan lease, doomed streams end |
| `native_rbac` | 1 user, 2 passes, rules 0..2, 2 revisions, 2 versions; symmetric passes, and a view without the history of passes that were not alone | ready is current, ready is applied |
| `cluster_sync` | 2 starts, 2 syncs (the second only if they did not join), 2 kinds, 1 change of each, 1 fault, fairness | no stray stream, every missing watch tended, syncs never go back, records end up as the cluster |

The type invariants, and `OneActiveTask`, are proved and therefore in no run, with
one exception: that of `NotificationOutbox` is checked as well, since it bounds the
number of attempts, which an unfenced write would exceed.

Why the bounds are enough. A lease of two ticks has a live, a boundary and an
expired instant between renewals, and a validity of five lets a task be claimed,
lost, reclaimed and at last rejected. Two tasks show one following another; the
slot forbids more at once, and the proofs remove the bound. Two Deployments
give the rollout a first, a last and an "in between"; the third of the program
repeats the middle. Two faults give a crash after a lost answer, or a foreign
edit and a crash. In the outbox a firing message and its recovery are the
smallest set in which order matters, and two attempts the least with a retry;
the five of the program are the constant `MaxAttempts`. The controller's lease
of one tick and the requests' of one are the shortest with all three instants.
Two requests make every pair of session operations meet, a third session is a
rotation of a rotation or a second login, and three versions let a credential be
enrolled, lost and enrolled again; users share nothing but the bound on tokens,
and the proofs remove all of these bounds.
Connections share only the LISTEN connection, and the proofs remove that bound; a
timeout shorter than the poll, as in the program, is an assumption, and 4 lets a
grant outlast a poll or end within it. Two passes are the least that overlap; with
two rules a Role can be wrong, and with two revisions and two versions a pass can
be late once. Two kinds give a start, and a sync, a first and a last. Two
starts overtake each other; the third, and any number of kinds, is left to the
proofs.

Deadlock is checked except in the outbox and the reconciliation, which may
really come to rest: with every delivery ended, or with access disabled and the
bounds on changes used up.

Fairness. `FairWSpec`: a worker's program goes on while its process lives and the
loop polls every three seconds (`kubernetes-update.worker.ts:148-155`); the
cluster completes a rollout, or its deadline ends the wait; time passes.
Submissions, renewals and faults get none. `FairOSpec`: the scheduler polls every
five seconds, and leases and retry delays end. Ingestion, expiry and faults get
none. `FairRSpec`: time passes; checks end by their timeout, tickers
fire, an ended watch or its missing heartbeats are read, and a lease's timer
fires. `FairESpec`: the auto-sync's interval asks for a sync
(`cluster-auto-sync.service.ts:26`), and a sync's requests are answered; events,
restarts and boots get none, so the records must catch up without any watch.
All are weak: nothing assumes that a step is taken which is disabled now and
then.

Each property of a passing run has a mutant: a `Mut_` operator that changes one
definition as a plausible bug would, and breaks the property.

### Findings

1. `saved_images`: an attempt that takes over a half-done rollout saves the new
   image as the one to roll back to.
2. `fingerprint_race`: `preflightSettingsFingerprint` is shared between requests;
   a concurrent preflight lets an install run under settings nobody rehearsed.
3. `lost_release`: giving an attempt back decrements the fence, and a stale
   write then ends the claim of the next worker.

Observed while modelling, without a run of their own:

- A preflight refused by the occupied slot does not invalidate the earlier one.
- Two rollback requests that read the latest update before either submits: the
  second, submitted once the first one's task has ended, undoes the same update
  again, which is no longer the latest, although
  `system-update.service.spec.ts:282` says "submits a Kubernetes rollback only from
  the latest successful task". TLC shows it with two requests and four tasks
  (preflight, install and the two rollbacks), when the conclusion of
  `RollbackOfLatest` is taken over all updates in between instead of those the
  request could know.
- A recovery is cancelled after a firing delivery that ended as failed or
  expired, although its message may have arrived.
- A start of the watches that cannot read the kubeconfig has already stopped
  the old ones (`WatchTended` says nothing of that state): the cluster stays unwatched until it is saved or the process
  restarts, and if the start came from a timer the rejection ends the process.
- A change whose sync joins one that has listed the kind before is not in the
  records until the next sync, at worst after the auto-sync's ten minutes.

## 4. Proofs

`KubernetesUpdateTasksProofs` proves for every set of workers, every number of
tasks, every lease and every validity, from `WorkerAssumption`,
`BoundAssumption` and `NullAssumption` alone:

- `TypeCorrect`, `SlotColumnCorrect`, `OneActiveCorrect`: the three invariants;
- `LeaseFencesCorrect`, `OutcomeFinalCorrect`: the two action properties;
- `AttemptsBoundedCorrect`: the bound on how often a task is claimed;
- `QueueImplementsSlot`: `Spec => SlotSpec`, the refinement of `UpdateSlot`.

The inductive invariant is the type invariant together with the slot invariant.
`OneActiveTask` alone is not inductive: a new row enters because no row has the
slot *column* set, and this excludes another active row only if the column
matches the status; that they match in turn needs each handler that ends a task
to clear it. The type invariant carries that a running row has an owner and a
lease between -1 and `Lease`: without it the claim's condition says nothing of a
row whose lease is NULL, and neither fencing nor the refinement follows. The
refinement goes action by action: `Submit` is `Admit`, `ClaimWon` is `Grant`
(also on a row whose lease has expired), `ClaimReject` and `Finish` are `Leave`,
`InvalidatePreflight` is `Withdraw`, `Tick` is `Expire` or nothing, everything
else stutters.

`AttemptsBounded` needs an invariant of its own, `BudgetInv`: every claim but
the last has used up a whole lease of the preflight's validity. While validity is
left, a running row satisfies `attempt * (Lease + 1) + ttl <= Ttl + lease + 1`: a
tick takes one from the left and at most one from the right, a
heartbeat raises only the right, and a claim of an expired lease (`lease = -1`)
pays one `Lease + 1` on the left out of the new lease. A claim is written after
the row was read, when the validity may be over; the invariant therefore also
says of the `attempt` a pending claim has read that it leaves one to spare.

`KubernetesUpdateWorkerProofs` proves, for any number of controllers, Deployments,
tasks and faults, from the queue's assumptions and those of the module
(`ImageAssumption`, `DeploymentAssumption`, `PayloadAssumption`,
`BackupAssumption`), every safety property of the runs `rollout` and `recovery`.
`WorkersUseQueue`, `WSpec => Spec`, comes first: each step of a controller is one of
the queue's operations or leaves the table alone, so the queue's theorems hold of
it and need not be proved again. The argument then has three layers.

- `WInv` is what a controller knows of its task. `AtWork` is its heart: the task
  exists; while the worker holds it, the attempt is the one it began and it has made
  no stray patch; and once it has backed up, a backup is on record. The
  holder loses a task only by another claim, which raises the attempt, and every
  report in between throws; that gives `OneStrayAtMost` and `BackedUpFirst`.
- `ImageInv` is what the Deployments run while the holder is at each place of its
  program: behind it the target, before it what it has read, and during the restore
  everything outside `changed` as before. It is claimed of the holder only and of the
  Deployments nobody disturbed; without the first restriction it is false, since a
  worker that lost its task may patch once. Two workers cannot both patch
  undisturbed Deployments as holders because the slot has one, which is the queue's
  `SlotInv`. `FrontierHolds`, `RestoredHolds` and `SuccessReachesTarget` follow.
- `BaseInv` and `UndoesInv` connect two tasks: the first attempt of a task reads and
  saves what ran when it was first claimed, and a rollback is bound to what the
  update before it saved. `RollbackRestores` needs both, and its condition that the
  update took one attempt is what the finding `saved_images` shows to be necessary.

The steps are sorted once into six kinds (`TurnStep`, `BackupStep`, `LeaveStepOf`,
`PatchStep`, `BeginStep`, `OtherStep`), and the second and third layer are proved from
the kinds. `NotificationOutboxProofs` does the same with its own `Kinds`.

`KubernetesUpdateRequestsProofs` proves `RequestsUseQueue`, `RequestTypes` and
`InstallsWithinPreflight` and `RollbacksUndoLatest` for any number of interleaving
requests, from `RequestAssumption` and `BindingAssumption`. `ReqInv` says that a
request that is past its check knows a preflight the controller has passed, and rows
keep what it relies on although they may be withdrawn: `passed` only grows, and only
a passed task ever succeeds. `RollbackInv` says of a rollback on its way that its
update has succeeded, which is final, and that no update it could know is later;
rows keep their action, so what comes in between is what others queue meanwhile.
`InstallsRunAsRehearsed` has the hypothesis `OneAtATime`, one request at a time; the
code does not see to that, and the property fails without it (`fingerprint_race`).
Under it `FpInv` squeezes the settings: the fingerprint an install was queued with is
its preflight's, no newer than what the controller has read, and the check excludes
an older one.

`NotificationOutboxProofs` proves from `OutboxAssumption` and `NoneAssumption`, for any
number of workers, alerts, channels, attempts and faults: `OutboxTypes`,
`SendsBounded`, `RecoveryIsLast`, `LateFiringOutlived`, `FencedByNumber` and
`CancelledUnsent`. `UniqueInv` is the invariant on who may hold which attempt: two
claims of one row have different numbers, except that a recovery's claim that was
given back leaves its number to the next (`lost_release`), and then at most one of
the two has yet to send. Only a recovery is ever given back, so that firing messages
are really fenced by number, which is `HolderInv`. `SendsBounded` counts: `Spent(d)`
are the attempts of a row that nobody may still send, every send spends one, and none
comes back (`CountInv`). `RecoveryInv` adds that a recovery is about to be sent only
once the firing row is "sent", which is final; `LateInv`, that a firing claim which
still wants to send has then outlived its lease; `CancelInv`, that a firing
message is cancelled only by the first claim of its row.

`AuthSessionsProofs` proves from `AuthAssumption`, for any number of users,
requests in flight, sessions, tokens and versions: `SessionTypeCorrect`,
`OneLivePerLoginCorrect`, `LoggedInSinceChangeCorrect`,
`AcceptedWasAcceptableCorrect`, `ResetsWhatWasProvedCorrect` and
`RefusedForGoodCorrect`. The invariant says that an account's version counts its
changes (`AccountInv`), and that every session, token and request that carries a
version carries one no later than the account's, the one its password was checked
under (`SessionInv`, `TokenInv`, `OwnSound`). What the row locks give is
`LockSound` and `LockInv`: the session a rotation is about to replace is not
revoked and nobody else replaces it, and the credential a reset is about to remove
is the one that was proved. `ReadSound` carries `AcceptedWasAcceptable` from read to
read: a session that was not acceptable when its row was read has an account that
has changed since, or lacks the second factor, and neither is undone while the
version stays. `RefusedForGood` follows from two lemmas about steps: rows keep all
but their revocation, and an account changes only with its version.

`RuntimeAuthorizationProofs` proves from `TimerAssumption`, for any number of
connections, any period, any timeout shorter than it, and any bounds:
`RuntimeTypeCorrect`, `LagBoundedCorrect`, `NoMissedRevocationCorrect` and
`NoOrphanLeaseCorrect`. `LagBounded` is not inductive: what is, is that a
stream's lag is at most the time since the poll last looked (`LagInv`), that the
ticker and the check keep within their limits (`InTime`), and that a streaming
connection always polls (`PollState`). `NoMissedRevocation` needs what each
step of the handler has established (`Validated`): between registration and the
second validation nothing is known yet, and after each of its reads the part that
was read is, unless a notification is under way that will abort the lease.

`NativeRbacReconcileProofs` proves from `RbacAssumption`, for any users, passes,
rules, revisions and versions: `RbacTypeCorrect`, `ReadyIsCurrentCorrect` and
`ReadyIsAppliedCorrect`. The last rests on `AppliedInv`, what a pass that is alone
has achieved so far: what it has read is still so (`PairInv`), the users planned
for have what they were entitled to (`DesiredInv`), the others need nothing and
lose what they have (`OthersInv`), and the history knows all of it (`HeldInv`).

`ClusterEventSyncProofs` proves from `StartAssumption` and `EventAssumption`, for
any number of starts, targets, syncs, changes and faults: `SyncTypeCorrect`,
`NoStrayStreamCorrect`, `WatchTendedCorrect` and `SyncsNeverGoBackCorrect`. The
first invariant says who holds a stream (`StreamInv`); the second adds that a
start of the current generation has not come through and begins with the first
target (`StartInv`); the third that one sync at most is going on (`OneSync`), and
that what it has listed lies between what was written and what there is.

Only model-checked: liveness under fairness (`EveryTaskEnds`, `EveryDeliveryEnds`,
`DoomedStreamsEnd`, `EventuallySynced`), which is out of the prover's reach. Every
invariant and every action property of a passing run is a theorem. The properties of
the three runs that expect a violation are false of the program and have none:
`SavedImagesArePreUpgrade`, `CompletionFenced`, and `InstallRunsAsRehearsed` without
`OneAtATime`. Three assumptions only say that a null is not a value (`NullAssumption`,
`BackupAssumption`, `NoneAssumption`): a NULL column differs from every column that
is set.

## 5. Not modelled

Contents of payloads (image names, checks, versions), messages, percentages and
audit records; HMAC signatures and encryption; release lookup; the Compose and
systemd mode of the update service; the steps inside backup and rehearsal; the
rotation over clusters; and the components that `PROJECT.json` lists as not
modelled. The greater part of the repository is among these: resource services,
views and the web console, which keep no protocol state.

Where the code takes several steps and the model one, beyond what section 2 says:

- a delivery's expiry, its alert, its channel and its cluster are looked at together
  (`Load`); an ingestion that ends only after the alerts of its cluster are gone;
- a validation looks at the expiry of token and session when it reads the grants,
  the code when it reads the session; a watch whose gateway has closed does not
  settle, though the API may not know yet;
- the users of a pass and the time its grants are judged at are one step (`List`);
  of a binding only its presence is compared, so that one edited by somebody else is
  not replaced; a call to Kubernetes that is carried out after its process died;
- the records of a kind are written together, and a kind that fails writes nothing.

Left out altogether:

- Sessions: OIDC, the TOTP counter and recovery codes, the rate limiters, the
  deletion of users, the superadministrator's own account.
- Runtime: creation and bootstrap of a session, what is relayed, keepalives,
  several users, a connection opened again, timers that are late. A LISTEN
  connection that is dead without notice leaves only the poll
  (`docs/native-access-delivery-plan.md:322-329`).
- Native access: requests through the gateway, personal kubeconfigs, identity of
  a namespace, several namespaces; coordination of several workers, which
  `docs/native-access-delivery-plan.md:254-256` lists as still required. What
  happens between the second check and the write of a binding is only claimed as
  `ReadyIsApplied` says.
- Watches and syncs: disabling and removing a cluster that is watched, the length
  of delays, the dirty flag (a list may ask at any time), watches that are dead
  without notice, lists that are never answered, two processes, what the records
  contain.

## 6. Plan

In this order:

1. *Done*: queue, `UpdateSlot`; controller and rollout; requests; outbox;
   sessions; runtime authorization; native RBAC; watches and syncs; proofs of all
   of them.
2. Proofs: what else relates the modules, above all an abstract specification of the
   outbox and of the rollout, and their refinement.
3. AI approvals against an abstract "used once" specification.
4. Rehearsal and backup with its resources and settings contents (lost saves,
   overwritten backups); the host executors.
5. The scheduler's rotation; health leases; alert receivers.
