------------------------ MODULE KubernetesUpdateTasks ------------------------
(***************************************************************************)
(* The durable queue of Kubernetes update tasks: the KubernetesUpdateTask  *)
(* table and the operations of KubernetesUpdateTasksService on it          *)
(* (kubernetes-update-tasks.service.ts).  Every operation is one           *)
(* conditional UPDATE or INSERT, atomic in PostgreSQL, except claimNext,   *)
(* which reads a candidate and then writes it with a compare-and-set.      *)
(*                                                                         *)
(* Here the callers are arbitrary: any worker may call any operation on    *)
(* any task at any time.  What holds of this module holds for every        *)
(* client, and KubernetesUpdateWorker puts the real workers on top of it.  *)
(*                                                                         *)
(* Clock values are kept relative to now: lease is leaseUntil - now and    *)
(* ttl is preflightExpiresAt - now, in ticks.  Tick lets one tick pass.    *)
(***************************************************************************)
EXTENDS Integers

CONSTANTS
  Worker,     \* worker ids (the pod names of the update controller)
  MaxTasks,   \* bound on the number of rows ever created
  Lease,      \* LEASE_MS, in ticks
  Ttl,        \* the longest preflight validity (30 minutes), in ticks
  Payload,    \* what a task is bound to; opaque to the queue
  Result,     \* what a task reports; opaque to the queue
  Backup,     \* backup locations
  Null        \* SQL NULL

ASSUME WorkerAssumption == Null \notin Worker
ASSUME BoundAssumption == MaxTasks \in Nat /\ Lease \in Nat \ {0} /\ Ttl \in Nat \ {0}
ASSUME NullAssumption == Null \notin Int

VARIABLES
  row,        \* the table: row[t] is the t-th row in order of createdAt
  claim       \* claim[w]: the claimNext call worker w has in progress

queueVars == <<row, claim>>

Task == 1..MaxTasks
Action == {"install", "rollback", "preflight"}
Status == {"absent", "queued", "running", "succeeded", "failed"}
Phase == {"queued", "working", "completed", "failed", "rollback-incomplete", "rejected"}

Row == [action : Action, status : Status, phase : Phase, slot : BOOLEAN,
        claimedBy : Worker \union {Null}, lease : (-1 .. Lease) \union {Null},
        ttl : 0 .. Ttl, valid : BOOLEAN, attempt : Nat,
        payload : Payload \union {Null}, result : Result \union {Null},
        backup : Backup \union {Null}]

NoRow == [action |-> "install", status |-> "absent", phase |-> "queued", slot |-> FALSE,
          claimedBy |-> Null, lease |-> Null, ttl |-> 0, valid |-> FALSE, attempt |-> 0,
          payload |-> Null, result |-> Null, backup |-> Null]

Claim == [step : {"none", "claim", "reject", "again"}, task : Task \union {Null},
          seen : Status, attempt : Nat]

NoClaim == [step |-> "none", task |-> Null, seen |-> "absent", attempt |-> 0]

Init ==
  /\ row = [t \in Task |-> NoRow]
  /\ claim = [w \in Worker |-> NoClaim]

Exists(t) == row[t].status # "absent"
Active(t) == row[t].status \in {"queued", "running"}

(***************************************************************************)
(* submit: INSERT a queued row.  The unique index on activeSlot refuses it *)
(* while another row holds the slot; validateTaskPayload refuses a payload *)
(* that has expired, but before the INSERT, so that ttl may be 0 by then.  *)
(* valid is FALSE for a row the worker cannot verify (signed with another  *)
(* key, or altered in the database).                                       *)
(***************************************************************************)
SlotFree == \A t \in Task : ~row[t].slot

NextTask == CHOOSE t \in Task : ~Exists(t) /\ \A u \in Task : u < t => Exists(u)

QueuedRow(action, payload, ttl, valid) ==
  [NoRow EXCEPT !.action = action, !.status = "queued", !.slot = TRUE,
                !.ttl = ttl, !.valid = valid, !.payload = payload]

Submit(action, payload, ttl, valid) ==
  /\ \E t \in Task : ~Exists(t)
  /\ SlotFree
  /\ row' = [row EXCEPT ![NextTask] = QueuedRow(action, payload, ttl, valid)]
  /\ UNCHANGED claim

(***************************************************************************)
(* claimNext.  The candidate is the oldest row that is queued, or running  *)
(* with leaseUntil < now.  Its payload is then checked in memory; the      *)
(* verdict is carried out by an UPDATE that repeats the candidate's        *)
(* condition with the time stamp taken before the read: a lease granted    *)
(* since then does not satisfy it, so a running candidate is written only  *)
(* if no other claim came between (attempt is still the one read).         *)
(***************************************************************************)
Mut_LeaseExpired(t) == row[t].lease \in Int /\ row[t].lease <= 0

LeaseExpired(t) == row[t].lease \in Int /\ row[t].lease < 0

Mut_Claimable(t) == row[t].status = "queued"

Claimable(t) == row[t].status = "queued" \/ (row[t].status = "running" /\ LeaseExpired(t))

Oldest(t) == Claimable(t) /\ \A u \in Task : Claimable(u) => t <= u

Acceptable(t) == row[t].valid /\ row[t].ttl > 0

ClaimRead(w) ==
  /\ claim[w].step \in {"none", "again"}
  /\ \E t \in Task :
       /\ Oldest(t)
       /\ claim' = [claim EXCEPT ![w] =
            [step |-> IF Acceptable(t) THEN "claim" ELSE "reject", task |-> t,
             seen |-> row[t].status, attempt |-> row[t].attempt]]
  /\ UNCHANGED row

\* No candidate is left after a rejected one: claimNext returns null.
ClaimNone(w) ==
  /\ claim[w].step = "again"
  /\ \A t \in Task : ~Claimable(t)
  /\ claim' = [claim EXCEPT ![w] = NoClaim]
  /\ UNCHANGED row

Mut_Unchanged(w, t) == row[t].attempt = claim[w].attempt

\* The WHERE clause of the two UPDATEs of claimNext.
Unchanged(w, t) ==
  /\ row[t].status = claim[w].seen
  /\ row[t].attempt = claim[w].attempt
  /\ Claimable(t)

Mut_RejectedRow(r) == [r EXCEPT !.status = "failed", !.phase = "rejected"]

RejectedRow(r) == [r EXCEPT !.status = "failed", !.phase = "rejected", !.slot = FALSE]

\* A rejected candidate frees the slot and the loop reads again; a candidate
\* lost to another worker ends the call.
ClaimReject(w) ==
  LET t == claim[w].task IN
  /\ claim[w].step = "reject"
  /\ \/ /\ Unchanged(w, t)
        /\ row' = [row EXCEPT ![t] = RejectedRow(@)]
        /\ claim' = [claim EXCEPT ![w] = [NoClaim EXCEPT !.step = "again"]]
     \/ /\ ~Unchanged(w, t)
        /\ claim' = [claim EXCEPT ![w] = NoClaim]
        /\ UNCHANGED row

ClaimedRow(r, w) ==
  [r EXCEPT !.status = "running", !.phase = "working", !.claimedBy = w,
            !.lease = Lease, !.attempt = @ + 1]

ClaimWon(w) ==
  /\ claim[w].step = "claim"
  /\ Unchanged(w, claim[w].task)
  /\ row' = [row EXCEPT ![claim[w].task] = ClaimedRow(@, w)]
  /\ claim' = [claim EXCEPT ![w] = NoClaim]

ClaimLost(w) ==
  /\ claim[w].step = "claim"
  /\ ~Unchanged(w, claim[w].task)
  /\ claim' = [claim EXCEPT ![w] = NoClaim]
  /\ UNCHANGED row

(***************************************************************************)
(* heartbeat, recordBackup and finish: UPDATE ... WHERE the task is        *)
(* running, claimed by the caller and leaseUntil > now.  When no row       *)
(* matches they throw and change nothing, so only the match is a step.     *)
(***************************************************************************)
LeaseLive(t) == row[t].lease \in Int /\ row[t].lease > 0

Mut_LeaseHeld(t, w) == row[t].status = "running" /\ LeaseLive(t)

Mut_LeaseHeldAnyTime(t, w) == row[t].status = "running" /\ row[t].claimedBy = w

LeaseHeld(t, w) == row[t].status = "running" /\ row[t].claimedBy = w /\ LeaseLive(t)

Heartbeat(t, w) ==
  /\ LeaseHeld(t, w)
  /\ row' = [row EXCEPT ![t].lease = Lease]
  /\ UNCHANGED claim

RecordBackup(t, w, backup) ==
  /\ LeaseHeld(t, w)
  /\ row' = [row EXCEPT ![t].backup = backup]
  /\ UNCHANGED claim

\* The combinations of status and terminal phase finish accepts.
TerminalPhase(status) == IF status = "succeeded" THEN {"completed"} ELSE {"failed", "rollback-incomplete"}

\* result is written only when the caller passes one.
FinishedRow(r, status, phase, result) ==
  [r EXCEPT !.status = status, !.phase = phase, !.slot = FALSE, !.lease = Null,
            !.result = IF result = Null THEN @ ELSE result]

Finish(t, w, status, phase, result) ==
  /\ LeaseHeld(t, w)
  /\ phase \in TerminalPhase(status)
  /\ row' = [row EXCEPT ![t] = FinishedRow(@, status, phase, result)]
  /\ UNCHANGED claim

(***************************************************************************)
(* The second statement of invalidateLatestPreflight: the preflight t that *)
(* was the latest when it was read is failed if it is still succeeded.     *)
(***************************************************************************)
InvalidatePreflight(t, result) ==
  /\ row[t].action = "preflight"
  /\ row[t].status = "succeeded"
  /\ row' = [row EXCEPT ![t].status = "failed", ![t].phase = "failed", ![t].slot = FALSE,
                        ![t].result = result]
  /\ UNCHANGED claim

\* getLatest and getLatestPreflight: the newest row of the given actions.
IsLatest(t, actions) ==
  /\ Exists(t) /\ row[t].action \in actions
  /\ \A u \in Task : Exists(u) /\ row[u].action \in actions => u <= t

(***************************************************************************)
(* One tick passes.  A lease is tracked down to -1, where it has expired   *)
(* for good, and an expiry down to 0.                                      *)
(***************************************************************************)
LeaseAfterTick(l) == IF l \in Int /\ l > -1 THEN l - 1 ELSE l

TtlAfterTick(n) == IF n > 0 THEN n - 1 ELSE n

Tick ==
  /\ row' = [t \in Task |-> [row[t] EXCEPT !.lease = LeaseAfterTick(@), !.ttl = TtlAfterTick(@)]]
  /\ UNCHANGED claim

\* A worker process dies inside claimNext.
ClaimAbandoned(w) ==
  /\ claim[w].step # "none"
  /\ claim' = [claim EXCEPT ![w] = NoClaim]
  /\ UNCHANGED row

ClaimStep(w) == ClaimRead(w) \/ ClaimNone(w) \/ ClaimReject(w) \/ ClaimWon(w) \/ ClaimLost(w)

Next ==
  \/ \E action \in Action, payload \in Payload, ttl \in 0..Ttl, valid \in BOOLEAN :
       Submit(action, payload, ttl, valid)
  \/ \E w \in Worker : ClaimStep(w) \/ ClaimAbandoned(w)
  \/ \E t \in Task, w \in Worker :
       \/ Heartbeat(t, w)
       \/ \E backup \in Backup : RecordBackup(t, w, backup)
       \/ \E status \in {"succeeded", "failed"}, phase \in Phase, result \in Result \union {Null} :
            Finish(t, w, status, phase, result)
  \/ \E t \in Task, result \in Result : InvalidatePreflight(t, result)
  \/ Tick

Spec == Init /\ [][Next]_queueVars

------------------------------------------------------------------------------
\* Type invariant of the table and of the calls in progress; a running row has
\* a lease and an owner.
TypeOK ==
  /\ row \in [Task -> Row]
  /\ claim \in [Worker -> Claim]
  /\ \A t \in Task : row[t].status = "running" => row[t].lease \in -1..Lease /\ row[t].claimedBy \in Worker
  /\ \A w \in Worker : claim[w].step \in {"claim", "reject"} =>
       claim[w].task \in Task /\ claim[w].seen \in {"queued", "running"}

\* The activeSlot column says exactly which rows are queued or running: every
\* handler that ends a task frees the slot, and none frees it earlier.
SlotMatchesStatus == \A t \in Task : row[t].slot <=> Active(t)

\* "The database's unique active slot lets one preflight, install or rollback
\* exist at a time": two active rows are the same row.
OneActiveTask == \A t, u \in Task : Active(t) /\ Active(u) => t = u

\* However often its workers crash, a task is claimed at most once per expired
\* lease while its preflight is valid.
AttemptsBounded == \A t \in Task : row[t].attempt <= 1 + ((Ttl - 1) \div (Lease + 1))

\* A running task changes hands, or is rejected, only after the lease of the
\* worker that holds it has expired.
LeaseFences ==
  [][\A t \in Task :
       /\ row[t].status = "running"
       /\ row'[t].attempt # row[t].attempt \/ row'[t].phase = "rejected"
       => row[t].lease = -1]_queueVars

\* An outcome is final: a task that ended is never reopened, and only a
\* succeeded preflight may still be turned into a failed one.
OutcomeFinal ==
  [][\A t \in Task :
       row[t].status \in {"succeeded", "failed"} /\ row'[t].status # row[t].status
       => /\ row[t].action = "preflight" /\ row[t].status = "succeeded"
          /\ row'[t].status = "failed"]_queueVars

------------------------------------------------------------------------------
(***************************************************************************)
(* The queue implements UpdateSlot: the job in the slot is the active row, *)
(* its holder is claimedBy, and the holder is live until leaseUntil has    *)
(* passed.                                                                 *)
(***************************************************************************)
ActiveTask == IF \E t \in Task : Active(t) THEN CHOOSE t \in Task : Active(t) ELSE Null

ActiveHolder == IF ActiveTask = Null THEN Null ELSE row[ActiveTask].claimedBy

\* The lease of the active row's holder has not expired.
ActiveLive ==
  IF ActiveTask = Null THEN FALSE
    ELSE row[ActiveTask].status = "running" /\ ~LeaseExpired(ActiveTask)

Outcomes == [t \in Task |-> IF row[t].status \in {"succeeded", "failed"} THEN row[t].status ELSE "none"]

Revocable == {t \in Task : Exists(t) /\ row[t].action = "preflight"}

Slot == INSTANCE UpdateSlot WITH
  Job <- Task, None <- Null,
  job <- ActiveTask, holder <- ActiveHolder, live <- ActiveLive,
  outcome <- Outcomes, revocable <- Revocable

\* The queue is a single slot with fenced holders: every operation on the table
\* is one of UpdateSlot's steps or changes nothing a client can rely on.
SlotSpec == Slot!Spec
==============================================================================
