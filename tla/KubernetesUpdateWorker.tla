----------------------- MODULE KubernetesUpdateWorker -----------------------
(***************************************************************************)
(* The update controller (kubernetes-update.worker.ts) and the rollout it  *)
(* drives over the three Deployments (kubernetes-update.adapter.ts), on    *)
(* top of the durable queue.  A worker is a sequential program whose every *)
(* await may last arbitrarily long: between two steps leases expire, other *)
(* workers claim the task, other controllers edit the Deployments and the  *)
(* process may die.                                                        *)
(***************************************************************************)
EXTENDS KubernetesUpdateTasks

CONSTANTS
  N,          \* number of Deployments, updated in the order 1..N
  Old, New,   \* the images of the running and of the target release
  Foreign,    \* an image some other controller or operator sets
  MaxFaults   \* bound on crashes, failed calls, stuck rollouts and foreign edits

ASSUME ImageAssumption == Old # New /\ Foreign \notin {Old, New} /\ Null \notin {Old, New, Foreign}
ASSUME DeploymentAssumption == N \in Nat \ {0} /\ MaxFaults \in Nat

Deployment == 1..N
Image == {Old, New, Foreign}
Images == [Deployment -> Image]

\* A task is bound to three images, and a succeeded update reports three images.
ASSUME PayloadAssumption == Payload = Images /\ Result = Images /\ Null \notin Images

\* createBackup returns the location it wrote, or throws.
ASSUME BackupAssumption == Null \notin Backup

VARIABLES
  proc,      \* proc[w]: the runTask call of worker w
  image,     \* image[d]: the container image in the spec of Deployment d
  ready,     \* ready[d]: its rollout is complete
  faults,    \* faults that may still happen
  base,      \* history: base[t] is the images when task t was first claimed
  disturbed  \* history: Deployments edited by others, or by a worker that lost its task

workerVars == <<row, claim, proc, image, ready, faults, base, disturbed>>
clusterVars == <<image, ready>>
historyVars == <<base, disturbed>>

\* Where a worker is in runTask.  The last three end the task as failed.
Rollout == {"advance", "patch", "health", "wait"}
Undo == {"undo", "unpatch", "unwait"}
Failing == {"failing", "restored", "incomplete"}
Pc == {"idle", "start", "backup", "progress", "rehearse", "rehearsed", "read", "finish"}
        \union Rollout \union Undo \union Failing

Proc == [pc : Pc, task : Task \union {Null}, attempt : Nat, i : 1 .. N + 1,
         prev : [Deployment -> Image \union {Null}], changed : SUBSET Deployment,
         leaseError : BOOLEAN, undoFailed : BOOLEAN, strays : Nat]

Idle == [pc |-> "idle", task |-> Null, attempt |-> 0, i |-> 1,
         prev |-> [d \in Deployment |-> Null], changed |-> {},
         leaseError |-> FALSE, undoFailed |-> FALSE, strays |-> 0]

WInit ==
  /\ Init
  /\ proc = [w \in Worker |-> Idle]
  /\ image = [d \in Deployment |-> Old]
  /\ ready = [d \in Deployment |-> TRUE]
  /\ faults = MaxFaults
  /\ base = [t \in Task |-> Null]
  /\ disturbed = {}

Fault == faults > 0 /\ faults' = faults - 1

Goto(w, p) == proc' = [proc EXCEPT ![w] = p]

At(w, pc) == proc[w].pc = pc

MyTask(w) == proc[w].task

\* The task is still the one this attempt claimed.
Owns(w) ==
  /\ row[MyTask(w)].status = "running"
  /\ row[MyTask(w)].claimedBy = w
  /\ row[MyTask(w)].attempt = proc[w].attempt

Target(w) == row[MyTask(w)].payload

(***************************************************************************)
(* Tasks are submitted by the control API: an install or a preflight bound *)
(* to the new release, a rollback to the images the latest installation or *)
(* rollback saved (startKubernetesRollback).                               *)
(***************************************************************************)
SubmitTask ==
  /\ \/ \E action \in {"install", "preflight"} :
          Submit(action, [d \in Deployment |-> New], Ttl, TRUE)
     \/ \E t \in Task :
          /\ IsLatest(t, {"install", "rollback"})
          /\ row[t].status = "succeeded"
          /\ Submit("rollback", row[t].result, Ttl, TRUE)
  /\ UNCHANGED <<proc, clusterVars, faults, historyVars>>

(***************************************************************************)
(* runOnce: claimNext, then runTask.  A claim that was written but whose   *)
(* answer is lost leaves the task running with nobody executing it.        *)
(***************************************************************************)
Poll(w) ==
  /\ At(w, "idle")
  /\ ClaimRead(w) \/ ClaimNone(w) \/ ClaimReject(w) \/ ClaimLost(w)
  /\ UNCHANGED <<proc, clusterVars, faults, historyVars>>

BeginTask(w) ==
  LET t == claim[w].task IN
  /\ At(w, "idle")
  /\ ClaimWon(w)
  /\ base' = [base EXCEPT ![t] = IF @ = Null THEN image ELSE @]
  /\ \/ /\ Goto(w, [Idle EXCEPT !.pc = "start", !.task = t, !.attempt = row'[t].attempt])
        /\ UNCHANGED faults
     \/ Fault /\ UNCHANGED proc
  /\ UNCHANGED <<clusterVars, disturbed>>

(***************************************************************************)
(* reportProgress: assertLease, heartbeat, assertLease.  It throws when an *)
(* earlier renewal failed, when the lease is not held, or when the         *)
(* database call fails.                                                    *)
(***************************************************************************)
Reported(w, p) ==
  /\ ~proc[w].leaseError
  /\ Heartbeat(MyTask(w), w)
  /\ Goto(w, p)
  /\ UNCHANGED faults

\* The call could not be made good: no lease, or a fault.
Throws(w, p) ==
  /\ \/ (proc[w].leaseError \/ ~LeaseHeld(MyTask(w), w)) /\ UNCHANGED faults
     \/ Fault
  /\ Goto(w, p)
  /\ UNCHANGED queueVars

Report(w, onSuccess, onError) == Reported(w, onSuccess) \/ Throws(w, onError)

\* The interval timer renews the lease in the background and remembers a failure.
Renew(w) ==
  /\ ~At(w, "idle")
  /\ ~proc[w].leaseError
  /\ Report(w, proc[w], [proc[w] EXCEPT !.leaseError = TRUE])
  /\ UNCHANGED <<clusterVars, historyVars>>

Failed(p) == [p EXCEPT !.pc = "failing"]

\* The two progress reports before the backup.
Start(w) ==
  /\ At(w, "start")
  /\ Report(w, [proc[w] EXCEPT !.pc = "backup"], Failed(proc[w]))
  /\ UNCHANGED <<clusterVars, historyVars>>

Mut_BackUp(w) ==
  /\ At(w, "backup")
  /\ Report(w, [proc[w] EXCEPT !.pc = "progress"], Failed(proc[w]))
  /\ UNCHANGED <<clusterVars, historyVars>>

\* Settings check, createBackup, verifyLease and recordBackup.  A changed
\* fingerprint, a missing target and a failed dump are faults.
BackUp(w) ==
  /\ At(w, "backup")
  /\ \/ /\ ~proc[w].leaseError
        /\ \E backup \in Backup : RecordBackup(MyTask(w), w, backup)
        /\ Goto(w, [proc[w] EXCEPT !.pc = "progress"])
        /\ UNCHANGED faults
     \/ Throws(w, Failed(proc[w]))
  /\ UNCHANGED <<clusterVars, historyVars>>

BackedUp(w) ==
  /\ At(w, "progress")
  /\ Report(w, [proc[w] EXCEPT !.pc = IF row[MyTask(w)].action = "preflight" THEN "rehearse" ELSE "read"],
            Failed(proc[w]))
  /\ UNCHANGED <<clusterVars, historyVars>>

Rehearse(w) ==
  /\ At(w, "rehearse")
  /\ Report(w, [proc[w] EXCEPT !.pc = "rehearsed"], Failed(proc[w]))
  /\ UNCHANGED <<clusterVars, historyVars>>

\* The rehearsal's verdict is recorded; a rehearsal that did not pass is a fault.
Rehearsed(w) ==
  /\ At(w, "rehearsed")
  /\ \/ /\ ~proc[w].leaseError
        /\ \/ Finish(MyTask(w), w, "succeeded", "completed", Null) /\ UNCHANGED faults
           \/ Finish(MyTask(w), w, "failed", "failed", Null) /\ Fault
        /\ Goto(w, Idle)
     \/ Throws(w, Failed(proc[w]))
  /\ UNCHANGED <<clusterVars, historyVars>>

------------------------------------------------------------------------------
(***************************************************************************)
(* applyKubernetesImageUpdate.  First every Deployment is read: one that   *)
(* is not ready, or not the updater's to change, stops the task before     *)
(* anything is patched.                                                    *)
(***************************************************************************)
ReadDeployment(w) ==
  LET d == proc[w].i IN
  /\ At(w, "read")
  /\ \/ /\ ready[d]
        /\ Goto(w, [proc[w] EXCEPT !.prev[d] = image[d], !.i = IF d = N THEN 1 ELSE d + 1,
                                   !.pc = IF d = N THEN "advance" ELSE "read"])
        /\ UNCHANGED faults
     \/ ~ready[d] /\ Goto(w, Failed(proc[w])) /\ UNCHANGED faults
     \/ Fault /\ Goto(w, Failed(proc[w]))
  /\ UNCHANGED <<queueVars, clusterVars, historyVars>>

Mut_UndoNext(p) ==
  IF p.changed = {}
    THEN [p EXCEPT !.pc = IF p.undoFailed THEN "incomplete" ELSE "finish"]
    ELSE [p EXCEPT !.pc = "undo", !.i = CHOOSE d \in p.changed : \A e \in p.changed : e <= d]

\* Restores run over the changed Deployments from the last to the first.
UndoNext(p) ==
  IF p.changed = {}
    THEN [p EXCEPT !.pc = IF p.undoFailed THEN "incomplete" ELSE "restored"]
    ELSE [p EXCEPT !.pc = "undo", !.i = CHOOSE d \in p.changed : \A e \in p.changed : e <= d]

Mut_Todo(w) == {d \in proc[w].i + 1 .. N : Target(w)[d] # proc[w].prev[d]}

\* Deployments still to be updated; one that has the target image is skipped.
Todo(w) == {d \in proc[w].i .. N : Target(w)[d] # proc[w].prev[d]}

\* The next Deployment whose image differs is noted as changed before the
\* progress report that precedes its patch.
Advance(w) ==
  LET d == CHOOSE d \in Todo(w) : \A e \in Todo(w) : d <= e
      p == [proc[w] EXCEPT !.i = d, !.changed = @ \union {d}]
  IN
  /\ At(w, "advance")
  /\ \/ /\ Todo(w) = {}
        /\ Goto(w, [proc[w] EXCEPT !.pc = "finish"])
        /\ UNCHANGED <<queueVars, faults>>
     \/ /\ Todo(w) # {}
        /\ Report(w, [p EXCEPT !.pc = "patch"], UndoNext(p))
  /\ UNCHANGED <<clusterVars, historyVars>>

(***************************************************************************)
(* patchImage: the Deployment is read again and patched under its resource *)
(* version, so that the read and the write are one step.  A Deployment     *)
(* that already has the image is left alone; one that has neither the      *)
(* expected nor the new image was changed by somebody else.  The call may  *)
(* fail before the patch, or after it (the answer is lost).                *)
(***************************************************************************)
SetImage(w, d, new) ==
  /\ image' = [image EXCEPT ![d] = new]
  /\ ready' = [ready EXCEPT ![d] = FALSE]
  /\ disturbed' = IF Owns(w) THEN disturbed ELSE disturbed \union {d}

\* p, with one more patch made after the task was lost.
Counted(w, p) == IF Owns(w) THEN p ELSE [p EXCEPT !.strays = @ + 1]

Mut_AsExpected(d, expected) == TRUE

\* "changed outside this update; refusing to overwrite it"
AsExpected(d, expected) == image[d] = expected

PatchImage(w, d, new, expected, onSuccess, onError) ==
  /\ \/ /\ image[d] = new
        /\ Goto(w, onSuccess)
        /\ UNCHANGED <<clusterVars, faults, disturbed>>
     \/ /\ image[d] # new
        /\ AsExpected(d, expected)
        /\ SetImage(w, d, new)
        /\ \/ Goto(w, Counted(w, onSuccess)) /\ UNCHANGED faults
           \/ Goto(w, Counted(w, onError)) /\ Fault
     \/ /\ image[d] # new
        /\ ~AsExpected(d, expected)
        /\ Goto(w, onError)
        /\ UNCHANGED <<clusterVars, faults, disturbed>>
     \/ /\ Fault
        /\ Goto(w, onError)
        /\ UNCHANGED <<clusterVars, disturbed>>
  /\ UNCHANGED <<queueVars, base>>

\* waitForDeployment: ready, changed by another controller, or not ready within
\* the rollout deadline; a progress report made while waiting may throw.
WaitReady(w, d, expected, onReady, onError) ==
  /\ \/ /\ image[d] = expected /\ ready[d]
        /\ Goto(w, onReady)
        /\ UNCHANGED <<queueVars, faults>>
     \/ /\ image[d] # expected
        /\ Goto(w, onError)
        /\ UNCHANGED <<queueVars, faults>>
     \/ image[d] = expected /\ ~ready[d] /\ Throws(w, onError)
  /\ UNCHANGED <<clusterVars, historyVars>>

Patch(w) ==
  LET p == proc[w] IN
  /\ At(w, "patch")
  /\ PatchImage(w, p.i, Target(w)[p.i], p.prev[p.i], [p EXCEPT !.pc = "health"], UndoNext(p))

Patched(w) ==
  /\ At(w, "health")
  /\ Report(w, [proc[w] EXCEPT !.pc = "wait"], UndoNext(proc[w]))
  /\ UNCHANGED <<clusterVars, historyVars>>

Wait(w) ==
  LET p == proc[w] IN
  /\ At(w, "wait")
  /\ WaitReady(w, p.i, Target(w)[p.i], [p EXCEPT !.pc = "advance", !.i = @ + 1], UndoNext(p))

(***************************************************************************)
(* The restore loop: each entry is reported, patched back from the target  *)
(* image to the previous one and awaited; an entry that fails is skipped   *)
(* and makes the rollback incomplete.                                      *)
(***************************************************************************)
Undone(p) == UndoNext([p EXCEPT !.changed = @ \ {p.i}])

Mut_NotUndone(p) == Undone(p)

NotUndone(p) == UndoNext([p EXCEPT !.changed = @ \ {p.i}, !.undoFailed = TRUE])

UndoReport(w) ==
  /\ At(w, "undo")
  /\ Report(w, [proc[w] EXCEPT !.pc = "unpatch"], NotUndone(proc[w]))
  /\ UNCHANGED <<clusterVars, historyVars>>

UndoPatch(w) ==
  LET p == proc[w] IN
  /\ At(w, "unpatch")
  /\ PatchImage(w, p.i, p.prev[p.i], Target(w)[p.i], [p EXCEPT !.pc = "unwait"], NotUndone(p))

UndoWait(w) ==
  LET p == proc[w] IN
  /\ At(w, "unwait")
  /\ WaitReady(w, p.i, p.prev[p.i], Undone(p), NotUndone(p))

------------------------------------------------------------------------------
Mut_SavedImages(w) == Target(w)

\* rollbackState: the images this attempt read before it patched anything.
SavedImages(w) == proc[w].prev

\* verifyLease and finish('succeeded') with the images the rollout replaced; an
\* error of either is recorded as a failure although the rollout is complete.
Complete(w) ==
  /\ At(w, "finish")
  /\ \/ /\ ~proc[w].leaseError
        /\ Finish(MyTask(w), w, "succeeded", "completed", SavedImages(w))
        /\ Goto(w, Idle)
        /\ UNCHANGED faults
     \/ Throws(w, Failed(proc[w]))
  /\ UNCHANGED <<clusterVars, historyVars>>

\* The catch block: finish('failed'); an error of this call is only logged.
Fail(w) ==
  LET phase == IF At(w, "incomplete") THEN "rollback-incomplete" ELSE "failed" IN
  /\ proc[w].pc \in Failing
  /\ Goto(w, Idle)
  /\ \/ Finish(MyTask(w), w, "failed", phase, Null) /\ UNCHANGED faults
     \/ ~LeaseHeld(MyTask(w), w) /\ UNCHANGED <<queueVars, faults>>
     \/ Fault /\ UNCHANGED queueVars
  /\ UNCHANGED <<clusterVars, historyVars>>

WorkerStep(w) ==
  \/ Poll(w) \/ BeginTask(w) \/ Start(w) \/ BackUp(w) \/ BackedUp(w)
  \/ Rehearse(w) \/ Rehearsed(w)
  \/ ReadDeployment(w) \/ Advance(w) \/ Patch(w) \/ Patched(w) \/ Wait(w)
  \/ UndoReport(w) \/ UndoPatch(w) \/ UndoWait(w)
  \/ Complete(w) \/ Fail(w)

------------------------------------------------------------------------------
(***************************************************************************)
(* The surroundings: the cluster completes rollouts, somebody else edits a *)
(* Deployment, a worker process dies, time passes.                         *)
(***************************************************************************)
RolloutDone(d) ==
  /\ ~ready[d]
  /\ ready' = [ready EXCEPT ![d] = TRUE]
  /\ UNCHANGED <<queueVars, proc, image, faults, historyVars>>

Edit(d) ==
  /\ image[d] # Foreign
  /\ Fault
  /\ image' = [image EXCEPT ![d] = Foreign]
  /\ ready' = [ready EXCEPT ![d] = FALSE]
  /\ disturbed' = disturbed \union {d}
  /\ UNCHANGED <<queueVars, proc, base>>

Crash(w) ==
  /\ ~At(w, "idle") \/ claim[w].step # "none"
  /\ Fault
  /\ Goto(w, Idle)
  /\ claim' = [claim EXCEPT ![w] = NoClaim]
  /\ UNCHANGED <<row, clusterVars, historyVars>>

TimePasses == Tick /\ UNCHANGED <<proc, clusterVars, faults, historyVars>>

WNext ==
  \/ SubmitTask
  \/ \E w \in Worker : WorkerStep(w) \/ Renew(w) \/ Crash(w)
  \/ \E d \in Deployment : RolloutDone(d) \/ Edit(d)
  \/ TimePasses

WSpec == WInit /\ [][WNext]_workerVars

(***************************************************************************)
(* Fairness.  Node runs a worker's program on as long as the process lives *)
(* and the loop polls every three seconds; the cluster completes a rollout *)
(* (one that does not is ended by the rollout deadline, a fault here); and *)
(* time passes.  Nothing is assumed of submissions, renewals or faults.    *)
(***************************************************************************)
FairWSpec ==
  /\ WSpec
  /\ \A w \in Worker : WF_workerVars(WorkerStep(w))
  /\ \A d \in Deployment : WF_workerVars(RolloutDone(d))
  /\ WF_workerVars(TimePasses)

------------------------------------------------------------------------------
WTypeOK ==
  /\ TypeOK
  /\ proc \in [Worker -> Proc]
  /\ image \in Images
  /\ ready \in [Deployment -> BOOLEAN]
  /\ faults \in 0..MaxFaults
  /\ base \in [Task -> Images \union {Null}]
  /\ disturbed \subseteq Deployment
  /\ \A w \in Worker : ~At(w, "idle") => MyTask(w) \in Task

\* While a worker that still owns its task rolls forward, the Deployments
\* before the current one run the target and those after it the images it
\* read: the cluster is never changed out of order.
RolloutFrontier ==
  \A w \in Worker : proc[w].pc \in Rollout \union {"finish"} /\ Owns(w) =>
    \A d \in Deployment \ disturbed :
      /\ d < proc[w].i \/ At(w, "finish") => image[d] = Target(w)[d]
      /\ d > proc[w].i /\ ~At(w, "finish") => image[d] = proc[w].prev[d]

\* A worker that reports "restored previous images" has put back every image it
\* read, including those of a patch whose answer was lost.
RestoredIsRestored ==
  \A w \in Worker : At(w, "restored") /\ Owns(w) =>
    \A d \in Deployment \ disturbed : image[d] = proc[w].prev[d]

\* "refusing to overwrite it": an image set by somebody else is replaced only by the
\* patch of a worker that found it there when its attempt began, or by the restore of
\* one whose task is bound to it.
ForeignImagesKept ==
  [][\A d \in Deployment : image[d] = Foreign /\ image'[d] # Foreign =>
       \E w \in Worker :
         /\ proc[w].i = d
         /\ \/ At(w, "patch") /\ proc[w].prev[d] = Foreign
            \/ At(w, "unpatch") /\ Target(w)[d] = Foreign]_workerVars

\* A worker whose lease was lost and whose task went to somebody else makes at
\* most the one patch it had already been cleared for.
AtMostOneStray == \A w \in Worker : proc[w].strays <= 1

\* Nothing is patched for a task before a database backup is on record for it.
BackedUpBeforePatch ==
  \A w \in Worker : proc[w].pc \in Rollout \union Undo \union {"finish"} =>
    row[MyTask(w)].backup # Null

\* A task that succeeds leaves every Deployment on the images it was bound to.
SuccessMeansTarget ==
  [][\A t \in Task :
       /\ row[t].status = "running" /\ row'[t].status = "succeeded"
       /\ row[t].action # "preflight"
       => \A d \in Deployment \ disturbed : image[d] = row[t].payload[d]]_workerVars

\* "The result of a succeeded upgrade keeps the image digests of before the
\* upgrade": with no foreign edit they are those the cluster ran when the task
\* was first claimed.
SavedImagesArePreUpgrade ==
  \A t \in Task : row[t].status = "succeeded" /\ row[t].action # "preflight" /\ disturbed = {}
    => row[t].result = base[t]

\* A rollback that succeeds puts the cluster back to the images it ran when the
\* task being rolled back was first claimed, if that task needed one attempt
\* only and nobody else touched the Deployments.
RollbackUndoes ==
  [][\A t \in Task : \A u \in 1 .. t - 1 :
       /\ row[t].action = "rollback" /\ row[t].status = "running" /\ row'[t].status = "succeeded"
       /\ \A v \in u .. t - 1 : row[v].action = "preflight" <=> v # u
       /\ row[u].attempt = 1 /\ disturbed = {}
       => image = base[u]]_workerVars

\* Every task ends and gives the slot back, whatever crashes and expires.
EveryTaskEnds == \A t \in Task : Active(t) ~> ~Active(t)
=============================================================================
