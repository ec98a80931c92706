-------------------------- MODULE NotificationOutbox --------------------------
(***************************************************************************)
(* The durable delivery of alert notifications: alerts are ingested from   *)
(* Alertmanager together with one delivery per channel                     *)
(* (alert-ingestion.service.ts), and the workers of the API processes      *)
(* claim, send and finish the deliveries (notification-worker.ts).         *)
(*                                                                         *)
(* A claim is a 30 second lease fenced by the attempts counter: whoever    *)
(* claims a delivery increments it, and ends it only if the counter still  *)
(* has that value.  A recovery that must wait for its firing message gives *)
(* the attempt back, and so decrements its own fence.                      *)
(*                                                                         *)
(* The deliveries of one cluster are modelled.  Delays are events: a       *)
(* retry delay, a lease and the 24 hours of a delivery end at any time.    *)
(***************************************************************************)
EXTENDS Integers

CONSTANTS
  Worker,       \* API processes that deliver notifications
  Alert,        \* occurrences: cluster, fingerprint and startsAt
  Channel,      \* notification templates of the cluster
  MaxAttempts,  \* attempts of a delivery (5)
  MaxFaults,    \* bound on crashes, failed calls, lost answers and outlived leases
  None

ASSUME OutboxAssumption ==
  /\ MaxAttempts \in Nat \ {0}
  /\ MaxFaults \in Nat

Event == {"firing", "resolved"}
Delivery == Alert \X Channel \X Event

ASSUME NoneAssumption == None \notin Delivery

VARIABLES
  alert,      \* alert[a]: the status of the MonitoringAlert row
  channel,    \* channel[c]: the template is enabled, disabled or deleted
  delivery,   \* delivery[d]: the NotificationDelivery row
  batches,    \* ingestions that created deliveries (createdAt)
  job,        \* job[w]: the runOnce call of worker w
  cluster,    \* the cluster is live, marked as deleted, or its alerts are gone too
  faults,     \* faults that may still happen
  received,   \* history: received[d] counts the messages of d that reached the channel
  touched     \* history: channels that were once disabled or deleted

sourceVars == <<alert, channel, cluster, batches>>
outboxVars == <<alert, channel, delivery, batches, job, cluster, faults, received, touched>>

Ended == {"sent", "failed", "expired", "cancelled"}
Status == {"absent", "pending", "sending"} \union Ended

Row == [status : Status, attempts : Nat, due : BOOLEAN, lease : BOOLEAN, expired : BOOLEAN, born : Nat]

NoRow == [status |-> "absent", attempts |-> 0, due |-> FALSE, lease |-> FALSE,
          expired |-> FALSE, born |-> 0]

Job == [pc : {"idle", "claimed", "prior", "send", "release", "finish", "catch"},
        d : Delivery \union {None}, attempts : Nat, verdict : Ended \union {"pending"}, lost : BOOLEAN]

Idle == [pc |-> "idle", d |-> None, attempts |-> 0, verdict |-> "pending", lost |-> FALSE]

OInit ==
  /\ alert = [a \in Alert |-> "absent"]
  /\ channel = [c \in Channel |-> "enabled"]
  /\ delivery = [d \in Delivery |-> NoRow]
  /\ batches = 0
  /\ job = [w \in Worker |-> Idle]
  /\ cluster = "live"
  /\ faults = MaxFaults
  /\ received = [d \in Delivery |-> 0]
  /\ touched = {}

Fault == faults > 0 /\ faults' = faults - 1

At(w, pc) == job[w].pc = pc

Goto(w, j) == job' = [job EXCEPT ![w] = j]

Firing(d) == <<d[1], d[2], "firing">>

Pending(d) == delivery[d].status = "pending"

------------------------------------------------------------------------------
(***************************************************************************)
(* ingest: in one transaction the occurrence changes and its deliveries    *)
(* are created, for a firing event on every enabled channel, for a         *)
(* recovery on the channels of the firing message.  A replay, and an event *)
(* of an occurrence that is resolved, change nothing.  A transaction that  *)
(* found the cluster live may end after it was marked as deleted.          *)
(***************************************************************************)
Enqueue(ds) ==
  /\ delivery' = [d \in Delivery |->
       IF d \in ds /\ delivery[d].status = "absent"
         THEN [NoRow EXCEPT !.status = "pending", !.due = TRUE, !.born = batches + 1]
         ELSE delivery[d]]
  /\ batches' = IF ds = {} THEN batches ELSE batches + 1

IngestFiring(a) ==
  /\ cluster # "purged"
  /\ alert[a] = "absent"
  /\ alert' = [alert EXCEPT ![a] = "firing"]
  /\ Enqueue({<<a, c, "firing">> : c \in {c \in Channel : channel[c] = "enabled"}})
  /\ UNCHANGED <<channel, job, cluster, faults, received, touched>>

RecoveryChannels(a) == {c \in Channel : delivery[<<a, c, "firing">>].status # "absent"}

\* A recovery of an occurrence never seen firing is stored and not announced.
IngestResolved(a) ==
  /\ cluster # "purged"
  /\ alert[a] \in {"absent", "firing"}
  /\ alert' = [alert EXCEPT ![a] = "resolved"]
  /\ Enqueue(IF alert[a] = "absent" THEN {} ELSE {<<a, c, "resolved">> : c \in RecoveryChannels(a)})
  /\ UNCHANGED <<channel, job, cluster, faults, received, touched>>

\* resolveAlert: somebody resolves the alert in the console.
ResolveByHand(a) ==
  /\ alert[a] = "firing"
  /\ alert' = [alert EXCEPT ![a] = "resolved"]
  /\ UNCHANGED <<channel, delivery, batches, job, cluster, faults, received, touched>>

\* updateNotificationTemplate and deleteNotificationTemplate.
SetChannel(c, status) ==
  /\ channel[c] \notin {"deleted", status}
  /\ channel' = [channel EXCEPT ![c] = status]
  /\ touched' = touched \union {c}
  /\ UNCHANGED <<alert, delivery, batches, job, cluster, faults, received>>

\* remove: the cluster is marked as deleted, and then its alerts are deleted,
\* with them their deliveries.
DeleteCluster ==
  /\ cluster = "live"
  /\ cluster' = "deleted"
  /\ UNCHANGED <<alert, channel, delivery, batches, job, faults, received, touched>>

PurgeCluster ==
  /\ cluster = "deleted"
  /\ cluster' = "purged"
  /\ alert' = [a \in Alert |-> "absent"]
  /\ delivery' = [d \in Delivery |-> NoRow]
  /\ UNCHANGED <<channel, batches, job, faults, received, touched>>

------------------------------------------------------------------------------
(***************************************************************************)
(* runOnce.  The claim takes the oldest delivery that is due, or whose     *)
(* lease has ended; its answer may be lost.                                *)
(***************************************************************************)
Mut_LeaseEnded(d) == delivery[d].status = "sending" /\ ~delivery[d].lease /\ delivery[d].attempts < MaxAttempts

LeaseEnded(d) == delivery[d].status = "sending" /\ ~delivery[d].lease

Due(d) == (Pending(d) /\ delivery[d].due) \/ LeaseEnded(d)

Oldest(d) == Due(d) /\ \A e \in Delivery : Due(e) => delivery[d].born <= delivery[e].born

ClaimedRow(r) == [r EXCEPT !.status = "sending", !.attempts = @ + 1, !.lease = TRUE]

Claim(w) ==
  /\ At(w, "idle")
  /\ \E d \in Delivery :
       /\ Oldest(d)
       /\ delivery' = [delivery EXCEPT ![d] = ClaimedRow(@)]
       /\ \/ /\ Goto(w, [Idle EXCEPT !.pc = "claimed", !.d = d, !.attempts = delivery[d].attempts + 1])
             /\ UNCHANGED faults
          \/ Fault /\ UNCHANGED job
  /\ UNCHANGED <<sourceVars, received, touched>>

Finish(w, verdict) == Goto(w, [job[w] EXCEPT !.pc = "finish", !.verdict = verdict])

\* A database read fails: the catch block puts the delivery back.
Retry(j) == IF j.attempts >= MaxAttempts THEN "failed" ELSE "pending"

Thrown(j) == [j EXCEPT !.pc = "catch", !.verdict = Retry(j)]

ReadFails(w) ==
  /\ job[w].pc \in {"claimed", "prior"}
  /\ Fault
  /\ Goto(w, Thrown(job[w]))
  /\ UNCHANGED <<sourceVars, delivery, received, touched>>

Usable(d) == cluster = "live" /\ alert[d[1]] # "absent" /\ channel[d[2]] = "enabled"

Mut_Obsolete(d, attempts) == d[3] = "firing" /\ alert[d[1]] = "resolved"

\* A firing message nobody can have sent yet, of an alert that is resolved.
Obsolete(d, attempts) == d[3] = "firing" /\ alert[d[1]] = "resolved" /\ attempts = 1

Mut_Exhausted(w) == job[w].attempts > MaxAttempts + 1

Exhausted(w) == job[w].attempts > MaxAttempts

\* Expiry, the attempts limit, the channel and the alert.
Load(w) ==
  LET d == job[w].d IN
  /\ At(w, "claimed")
  /\ \/ delivery[d].expired /\ Finish(w, "expired")
     \/ ~delivery[d].expired /\ Exhausted(w) /\ Finish(w, "failed")
     \/ /\ ~delivery[d].expired /\ ~Exhausted(w)
        /\ IF ~Usable(d) \/ Obsolete(d, job[w].attempts)
             THEN Finish(w, "cancelled")
             ELSE Goto(w, [job[w] EXCEPT !.pc = IF d[3] = "resolved" THEN "prior" ELSE "send"])
  /\ UNCHANGED <<sourceVars, delivery, faults, received, touched>>

Mut_FiringSent(status) == status \in {"sending", "sent"}

FiringSent(status) == status = "sent"

\* A recovery looks at the delivery of its firing message.
LoadFiring(w) ==
  LET status == delivery[Firing(job[w].d)].status IN
  /\ At(w, "prior")
  /\ IF status \in {"absent", "cancelled", "failed", "expired"}
       THEN Finish(w, "cancelled")
       ELSE Goto(w, [job[w] EXCEPT !.pc = IF FiringSent(status) THEN "send" ELSE "release"])
  /\ UNCHANGED <<sourceVars, delivery, faults, received, touched>>

\* sendNotification: the channel accepts the message, or does not; or it
\* accepts it and the answer never arrives.
Send(w) ==
  LET d == job[w].d IN
  /\ At(w, "send")
  /\ \/ received' = [received EXCEPT ![d] = @ + 1] /\ Finish(w, "sent")
     \/ received' = [received EXCEPT ![d] = @ + 1] /\ Finish(w, Retry(job[w]))
     \/ UNCHANGED received /\ Finish(w, Retry(job[w]))
  /\ UNCHANGED <<sourceVars, delivery, faults, touched>>

Mut_StillMine(w) == delivery[job[w].d].status = "sending"

Mut_Unfenced(w) == TRUE

\* The WHERE clause that fences every write of a claim.
StillMine(w) ==
  /\ delivery[job[w].d].status = "sending"
  /\ delivery[job[w].d].attempts = job[w].attempts

Write(w, row) ==
  delivery' = IF StillMine(w) THEN [delivery EXCEPT ![job[w].d] = row] ELSE delivery

FinishedRow(r, verdict) == [r EXCEPT !.status = verdict, !.lease = FALSE, !.due = FALSE]

\* The attempt is given back.
ReleasedRow(r) == [FinishedRow(r, "pending") EXCEPT !.attempts = @ - 1]

\* The write succeeds, or throws before or after it was made.
WriteOrThrow(w, row) ==
  \/ Write(w, row) /\ Goto(w, Idle) /\ UNCHANGED faults
  \/ Write(w, row) /\ Goto(w, Thrown([job[w] EXCEPT !.lost = TRUE])) /\ Fault
  \/ UNCHANGED delivery /\ Goto(w, Thrown(job[w])) /\ Fault

Release(w) ==
  /\ At(w, "release")
  /\ WriteOrThrow(w, ReleasedRow(delivery[job[w].d]))
  /\ UNCHANGED <<sourceVars, received, touched>>

Complete(w) ==
  /\ At(w, "finish")
  /\ WriteOrThrow(w, FinishedRow(delivery[job[w].d], job[w].verdict))
  /\ UNCHANGED <<sourceVars, received, touched>>

\* The catch block; an error here only ends the call.
Catch(w) ==
  /\ At(w, "catch")
  /\ Goto(w, Idle)
  /\ \/ Write(w, FinishedRow(delivery[job[w].d], job[w].verdict)) /\ UNCHANGED faults
     \/ UNCHANGED delivery /\ Fault
  /\ UNCHANGED <<sourceVars, received, touched>>

WorkerStep(w) ==
  Claim(w) \/ Load(w) \/ LoadFiring(w) \/ Send(w) \/ Release(w) \/ Complete(w) \/ Catch(w)

------------------------------------------------------------------------------
(***************************************************************************)
(* Time and faults.  A lease may end while the worker is still at work:    *)
(* that worker has lost its claim, and does not know it.                   *)
(***************************************************************************)
Crash(w) ==
  /\ ~At(w, "idle")
  /\ Fault
  /\ Goto(w, Idle)
  /\ UNCHANGED <<sourceVars, delivery, received, touched>>

Holders(d) == {w \in Worker : job[w].d = d /\ job[w].attempts = delivery[d].attempts}

LeaseEnds(d) ==
  /\ delivery[d].status = "sending" /\ delivery[d].lease
  /\ delivery' = [delivery EXCEPT ![d].lease = FALSE]
  /\ IF Holders(d) = {} THEN UNCHANGED <<job, faults>>
       ELSE /\ Fault
            /\ job' = [w \in Worker |-> IF w \in Holders(d) THEN [job[w] EXCEPT !.lost = TRUE] ELSE job[w]]
  /\ UNCHANGED <<sourceVars, received, touched>>

DelayEnds(d) ==
  /\ Pending(d) /\ ~delivery[d].due
  /\ delivery' = [delivery EXCEPT ![d].due = TRUE]
  /\ UNCHANGED <<sourceVars, job, faults, received, touched>>

Expire(d) ==
  /\ delivery[d].status # "absent" /\ ~delivery[d].expired
  /\ delivery' = [delivery EXCEPT ![d].expired = TRUE]
  /\ UNCHANGED <<sourceVars, job, faults, received, touched>>

ONext ==
  \/ \E a \in Alert : IngestFiring(a) \/ IngestResolved(a) \/ ResolveByHand(a)
  \/ \E c \in Channel, status \in {"enabled", "disabled", "deleted"} : SetChannel(c, status)
  \/ DeleteCluster \/ PurgeCluster
  \/ \E w \in Worker : WorkerStep(w) \/ ReadFails(w) \/ Crash(w)
  \/ \E d \in Delivery : LeaseEnds(d) \/ DelayEnds(d) \/ Expire(d)

OSpec == OInit /\ [][ONext]_outboxVars

\* The scheduler polls every five seconds and its process goes on; leases and
\* retry delays end.  Nothing is assumed of faults, expiries or ingestion.
FairOSpec ==
  /\ OSpec
  /\ \A w \in Worker : WF_outboxVars(WorkerStep(w))
  /\ \A d \in Delivery : WF_outboxVars(DelayEnds(d)) /\ WF_outboxVars(LeaseEnds(d))
------------------------------------------------------------------------------
OTypeOK ==
  /\ alert \in [Alert -> {"absent", "firing", "resolved"}]
  /\ channel \in [Channel -> {"enabled", "disabled", "deleted"}]
  /\ delivery \in [Delivery -> Row]
  /\ batches \in Nat
  /\ job \in [Worker -> Job]
  /\ cluster \in {"live", "deleted", "purged"}
  /\ faults \in 0..MaxFaults
  /\ received \in [Delivery -> Nat]
  /\ touched \subseteq Channel
  /\ \A w \in Worker : ~At(w, "idle") => job[w].d \in Delivery

\* "A five-attempt limit": no message reaches its channel more often than that,
\* although a waiting recovery gives attempts back and crashed claims are retaken.
AtMostMaxSends == \A d \in Delivery : received[d] <= MaxAttempts

\* "Do not send recovery ahead of an unresolved firing delivery": whoever got the
\* recovery got the firing message before, and its delivery is recorded as sent.
RecoveryAfterFiring ==
  \A a \in Alert, c \in Channel : received[<<a, c, "resolved">>] > 0 =>
    /\ received[<<a, c, "firing">>] > 0
    /\ cluster # "purged" => delivery[<<a, c, "firing">>].status = "sent"

\* A firing message that arrives after its recovery comes from a worker that
\* outlived its lease between its checks and its send.
NoLateFiring ==
  [][\A a \in Alert, c \in Channel :
       received'[<<a, c, "firing">>] > received[<<a, c, "firing">>] /\ received[<<a, c, "resolved">>] > 0
       => \E w \in Worker : At(w, "send") /\ job[w].d = <<a, c, "firing">> /\ job[w].lost]_outboxVars

\* "Never-sent obsolete firing is cancelled": on a channel nobody touched, a
\* cancelled firing message is one that never went out.
CancelledNeverSent ==
  \A a \in Alert, c \in Channel \ touched :
    cluster = "live" /\ delivery[<<a, c, "firing">>].status = "cancelled" => received[<<a, c, "firing">>] = 0

\* A delivery whose lease is live is ended, or put back, only by a worker that
\* still has its claim.
Fenced(d) ==
  /\ delivery[d].status = "sending" /\ delivery[d].lease
  /\ delivery'[d].status \notin {"sending", "absent"}
  => \E w \in Worker : /\ job[w].d = d /\ ~job[w].lost /\ job[w].attempts = delivery[d].attempts
                        /\ job'[w] # job[w]

\* "Fences completion by attempt number", of firing messages.
FiringFenced == [][\A a \in Alert, c \in Channel : Fenced(<<a, c, "firing">>)]_outboxVars

\* The same of every delivery.
CompletionFenced == [][\A d \in Delivery : Fenced(d)]_outboxVars

\* Every delivery ends, whatever crashes and however long a recovery waits.
EveryDeliveryEnds ==
  \A d \in Delivery : delivery[d].status # "absent" ~> delivery[d].status \in Ended \union {"absent"}
==============================================================================
