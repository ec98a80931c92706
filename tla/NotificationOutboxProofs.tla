----------------------- MODULE NotificationOutboxProofs -----------------------
(***************************************************************************)
(* Theorems about the notification outbox, for any number of workers,      *)
(* alerts, channels, attempts and faults.                                  *)
(***************************************************************************)
EXTENDS NotificationOutbox, FiniteSetTheorems, TLAPS

IsFiring(d) == d[3] = "firing"

Busy(w) == ~At(w, "idle")

\* The claim of w has not sent its message, and may still do so.
Unsent(w) == job[w].pc \in {"claimed", "prior", "send", "release"}

Purged == cluster = "purged"

\* What the rows, the alerts and the channels say of each other.
RowSound(d) ==
  /\ Purged => delivery[d].status = "absent"
  /\ delivery[d].status = "absent" => delivery[d].attempts = 0
  /\ delivery[d].status # "absent" => alert[d[1]] # "absent"
  /\ delivery[d].status = "sent" => received[d] > 0

RowInv == \A d \in Delivery : RowSound(d)

ChannelInv == \A c \in Channel \ touched : channel[c] = "enabled"

\* A claim knows a number that its row has reached, unless it was given back.
JobSound(w) == Busy(w) =>
  /\ job[w].attempts >= 1
  /\ ~Purged => delivery[job[w].d].status # "absent"
  /\ ~Purged /\ (Unsent(w) \/ IsFiring(job[w].d)) => job[w].attempts <= delivery[job[w].d].attempts
  /\ job[w].pc \in {"prior", "send", "release"} => job[w].attempts <= MaxAttempts
  /\ job[w].pc \in {"prior", "release"} => ~IsFiring(job[w].d)
  /\ job[w].pc = "finish" /\ job[w].verdict = "sent" => received[job[w].d] > 0
  /\ job[w].pc = "catch" => job[w].verdict \in {"failed", "pending"}

JobInv == \A w \in Worker : JobSound(w)

\* Two claims of one row have different numbers, but for a recovery's claim that was
\* given back.
UniqueInv == \A v, w \in Worker :
  /\ v # w /\ Busy(v) /\ Busy(w)
  /\ job[v].d = job[w].d /\ job[v].attempts = job[w].attempts
  => ~IsFiring(job[v].d) /\ ~(Unsent(v) /\ Unsent(w))

BaseInv == OTypeOK /\ RowInv /\ ChannelInv /\ JobInv /\ UniqueInv

\* The numbers of a row's attempts that have been sent, or never will be.
Spent(d) == {n \in 1..MaxAttempts :
  /\ Purged \/ n <= delivery[d].attempts
  /\ ~\E w \in Worker : Unsent(w) /\ job[w].d = d /\ job[w].attempts = n}

CountInv == \A d \in Delivery : received[d] <= Cardinality(Spent(d))

\* A recovery has been sent, or is about to be.
Recovered(d) == received[d] > 0 \/ \E w \in Worker : At(w, "send") /\ job[w].d = d

RecoveryInv == \A d \in Delivery : ~IsFiring(d) /\ Recovered(d) =>
  /\ received[Firing(d)] > 0
  /\ ~Purged => delivery[Firing(d)].status = "sent"

\* Whoever has the claim of a firing message has its row, until its lease ends.
HolderSound(w) == Busy(w) /\ IsFiring(job[w].d) =>
  /\ ~job[w].lost /\ ~Purged =>
       /\ delivery[job[w].d].status = "sending" /\ delivery[job[w].d].lease
       /\ delivery[job[w].d].attempts = job[w].attempts
  /\ job[w].lost /\ delivery[job[w].d].status = "sending"
       /\ delivery[job[w].d].attempts = job[w].attempts => ~delivery[job[w].d].lease

HolderInv == \A w \in Worker : HolderSound(w)

LateInv == \A d \in Delivery, w \in Worker :
  /\ ~IsFiring(d) /\ Recovered(d)
  /\ job[w].pc \in {"claimed", "send"} /\ job[w].d = Firing(d)
  => job[w].lost

\* A cancelled firing message, and one that is about to be, had a single claim.
CancelInv == cluster = "live" => \A d \in Delivery : IsFiring(d) /\ d[2] \notin touched =>
  /\ delivery[d].status = "cancelled" =>
       /\ delivery[d].attempts = 1 /\ received[d] = 0
       /\ \A w \in Worker : job[w].d = d => ~Unsent(w)
  /\ \A w \in Worker : job[w].d = d /\ At(w, "finish") /\ job[w].verdict = "cancelled" =>
       /\ job[w].attempts = 1
       /\ delivery[d].attempts = 1 => received[d] = 0

------------------------------------------------------------------------------
(***************************************************************************)
(* Deliveries are triples, and jobs and rows have types.                   *)
(***************************************************************************)
LEMMA DeliveryParts ==
  ASSUME NEW d \in Delivery
  PROVE  /\ d[1] \in Alert /\ d[2] \in Channel /\ d[3] \in Event /\ d = <<d[1], d[2], d[3]>>
         /\ Firing(d) \in Delivery /\ IsFiring(Firing(d))
         /\ IsFiring(d) => Firing(d) = d
         /\ ~IsFiring(d) <=> d[3] = "resolved"
BY DEF Delivery, Event, Firing, IsFiring

LEMMA Triples ==
  ASSUME NEW a \in Alert, NEW c \in Channel
  PROVE  /\ <<a, c, "firing">> \in Delivery /\ <<a, c, "resolved">> \in Delivery
         /\ IsFiring(<<a, c, "firing">>) /\ ~IsFiring(<<a, c, "resolved">>)
         /\ Firing(<<a, c, "resolved">>) = <<a, c, "firing">>
BY DEF Delivery, Event, Firing, IsFiring

LEMMA IdleTyped == Idle \in Job /\ NoRow \in Row
BY DEF Idle, Job, NoRow, Row, Status, Ended

LEMMA JobTyped ==
  ASSUME OTypeOK, NEW w \in Worker
  PROVE  /\ job[w] \in Job /\ Thrown(job[w]) \in Job
         /\ Thrown([job[w] EXCEPT !.lost = TRUE]) \in Job
         /\ \A pc \in {"prior", "send", "release"} : [job[w] EXCEPT !.pc = pc] \in Job
         /\ \A verdict \in Ended \union {"pending"} :
              [job[w] EXCEPT !.pc = "finish", !.verdict = verdict] \in Job
         /\ Retry(job[w]) \in {"failed", "pending"}
         /\ Busy(w) => job[w].d \in Delivery
<1>1. job[w] \in Job /\ (Busy(w) => job[w].d \in Delivery)  BY DEF OTypeOK, Busy
<1>2. Retry(job[w]) \in {"failed", "pending"}  BY DEF Retry
<1>3. {"failed", "pending"} \subseteq Ended \union {"pending"}  BY DEF Ended
<1>4. Thrown(job[w]) \in Job  BY <1>1, <1>2, <1>3 DEF Thrown, Job
<1>5. Thrown([job[w] EXCEPT !.lost = TRUE]) \in Job
  BY <1>1, <1>2, <1>3 DEF Thrown, Job, Retry
<1>. QED  BY <1>1, <1>2, <1>4, <1>5 DEF Job

LEMMA RowTyped ==
  ASSUME OTypeOK, NEW d \in Delivery
  PROVE  /\ delivery[d] \in Row /\ ClaimedRow(delivery[d]) \in Row
         /\ \A verdict \in Ended \union {"pending"} : FinishedRow(delivery[d], verdict) \in Row
         /\ delivery[d].attempts >= 1 => ReleasedRow(delivery[d]) \in Row
<1>1. delivery[d] \in Row  BY DEF OTypeOK
<1>2. ClaimedRow(delivery[d]) \in Row
  <2>1. "sending" \in Status  BY DEF Status
  <2>2. delivery[d].attempts + 1 \in Nat  BY <1>1 DEF Row
  <2>. QED  BY <1>1, <2>1, <2>2 DEF ClaimedRow, Row
<1>3. \A verdict \in Ended \union {"pending"} : FinishedRow(delivery[d], verdict) \in Row
  BY <1>1 DEF FinishedRow, Row, Status
<1>4. delivery[d].attempts >= 1 => ReleasedRow(delivery[d]) \in Row
  <2>1. FinishedRow(delivery[d], "pending") \in Row  BY <1>3
  <2>2. FinishedRow(delivery[d], "pending").attempts = delivery[d].attempts
    BY <1>1 DEF FinishedRow, Row
  <2>3. delivery[d].attempts >= 1 => delivery[d].attempts - 1 \in Nat  BY <1>1 DEF Row
  <2>. HIDE DEF FinishedRow
  <2>. QED  BY <2>1, <2>2, <2>3 DEF ReleasedRow, Row
<1>. QED  BY <1>1, <1>2, <1>3, <1>4

LEMMA JobStep ==
  ASSUME OTypeOK, NEW w \in Worker, NEW j \in Job, j.pc # "idle" => j.d \in Delivery, Goto(w, j)
  PROVE  /\ job' \in [Worker -> Job] /\ job'[w] = j
         /\ \A v \in Worker \ {w} : job'[v] = job[v]
         /\ \A v \in Worker : job'[v].pc # "idle" => job'[v].d \in Delivery
<1>1. job \in [Worker -> Job]  BY DEF OTypeOK
<1>2. job' = [job EXCEPT ![w] = j]  BY DEF Goto
<1>3. job' \in [Worker -> Job] /\ job'[w] = j /\ \A v \in Worker \ {w} : job'[v] = job[v]
  BY <1>1, <1>2
<1>4. \A v \in Worker : job[v].pc # "idle" => job[v].d \in Delivery  BY DEF OTypeOK, At
<1>. QED  BY <1>3, <1>4

LEMMA RowStep ==
  ASSUME OTypeOK, NEW e \in Delivery, NEW row \in Row, delivery' = [delivery EXCEPT ![e] = row]
  PROVE  /\ delivery' \in [Delivery -> Row] /\ delivery'[e] = row
         /\ \A d \in Delivery \ {e} : delivery'[d] = delivery[d]
BY DEF OTypeOK

------------------------------------------------------------------------------
(***************************************************************************)
(* What a step does to the rows and the jobs, one by one.  Every step of   *)
(* ONext is one of the six kinds below (StepKinds), and the invariants are *)
(* proved from the kinds.                                                  *)
(***************************************************************************)
Kept(d) ==
  /\ delivery'[d].status = delivery[d].status
  /\ delivery'[d].attempts = delivery[d].attempts
  /\ delivery'[d].lease = delivery[d].lease

Born(d) ==
  /\ ~Purged /\ delivery[d].status = "absent"
  /\ delivery'[d].status = "pending" /\ delivery'[d].attempts = 0
  /\ alert'[d[1]] # "absent"

\* Sources change, deliveries are created, delays and days end.
Quiet ==
  /\ UNCHANGED <<job, received>>
  /\ Purged' <=> Purged
  /\ cluster' = "live" => cluster = "live"
  /\ touched \subseteq touched'
  /\ \A c \in Channel \ touched' : channel'[c] = channel[c]
  /\ \A a \in Alert : alert[a] # "absent" => alert'[a] # "absent"
  /\ \A d \in Delivery : Kept(d) \/ Born(d)

\* Row d is claimed; the worker gets the answer, or does not.
Claimed(w, d) ==
  /\ UNCHANGED <<sourceVars, received, touched>>
  /\ At(w, "idle") /\ Due(d)
  /\ \A e \in Delivery \ {d} : delivery'[e] = delivery[e]
  /\ delivery'[d].status = "sending" /\ delivery'[d].lease
  /\ delivery'[d].attempts = delivery[d].attempts + 1
  /\ \A v \in Worker \ {w} : job'[v] = job[v]
  /\ \/ job'[w] = job[w]
     \/ /\ job'[w].pc = "claimed" /\ job'[w].d = d /\ ~job'[w].lost
        /\ job'[w].attempts = delivery[d].attempts + 1

Alone(w) == Busy(w) /\ \A v \in Worker \ {w} : job'[v] = job[v]

Ends(w) == job'[w].pc = "idle"

From(w, from, to) ==
  /\ job[w].pc = from /\ job'[w].pc = to
  /\ job'[w].d = job[w].d /\ job'[w].attempts = job[w].attempts

Fails(w, from) == From(w, from, "catch") /\ job'[w].verdict \in {"failed", "pending"}

\* A worker reads, or crashes.
Thinks(w) ==
  LET d == job[w].d IN
  /\ Alone(w) /\ UNCHANGED <<sourceVars, delivery, received, touched>>
  /\ \/ Ends(w)
     \/ /\ job'[w].lost = job[w].lost
        /\ \/ Fails(w, "claimed") \/ Fails(w, "prior")
           \/ From(w, "claimed", "finish") /\ job'[w].verdict \in {"expired", "failed"}
           \/ /\ From(w, "claimed", "finish") /\ job'[w].verdict = "cancelled"
              /\ job[w].attempts <= MaxAttempts
              /\ ~Usable(d) \/ Obsolete(d, job[w].attempts)
           \/ From(w, "claimed", "send") /\ job[w].attempts <= MaxAttempts /\ IsFiring(d)
           \/ From(w, "claimed", "prior") /\ job[w].attempts <= MaxAttempts /\ ~IsFiring(d)
           \/ From(w, "prior", "finish") /\ job'[w].verdict = "cancelled"
           \/ From(w, "prior", "send") /\ delivery[Firing(d)].status = "sent"
           \/ From(w, "prior", "release")

\* A worker sends: the channel gets the message, or does not.
Sends(w) ==
  /\ Alone(w) /\ UNCHANGED <<sourceVars, delivery, touched>>
  /\ From(w, "send", "finish") /\ job'[w].lost = job[w].lost
  /\ \A d \in Delivery \ {job[w].d} : received'[d] = received[d]
  /\ \/ received'[job[w].d] = received[job[w].d] + 1 /\ job'[w].verdict \in {"sent", "failed", "pending"}
     \/ received'[job[w].d] = received[job[w].d] /\ job'[w].verdict \in {"failed", "pending"}

\* The row a worker writes when it ends or gives back its claim.
Wrote(w) ==
  LET d == job[w].d IN
  /\ StillMine(w)
  /\ \A e \in Delivery \ {d} : delivery'[e] = delivery[e]
  /\ ~delivery'[d].lease
  /\ job[w].pc = "release" => /\ delivery'[d].status = "pending"
                              /\ delivery'[d].attempts = delivery[d].attempts - 1
  /\ job[w].pc # "release" => /\ delivery'[d].status = job[w].verdict
                              /\ delivery'[d].attempts = delivery[d].attempts

Writes(w) ==
  /\ Alone(w) /\ UNCHANGED <<sourceVars, received, touched>>
  /\ job[w].pc \in {"release", "finish", "catch"}
  /\ Wrote(w) \/ UNCHANGED delivery
  /\ \/ Ends(w)
     \/ /\ Fails(w, "release") \/ Fails(w, "finish")
        /\ \/ job'[w].lost /\ (Wrote(w) \/ (UNCHANGED delivery /\ ~StillMine(w)))
           \/ UNCHANGED delivery /\ job'[w].lost = job[w].lost

\* The lease of row d ends, and whoever has its claim has lost it.
LosesLease(d) ==
  /\ UNCHANGED <<sourceVars, received, touched>>
  /\ \A e \in Delivery \ {d} : delivery'[e] = delivery[e]
  /\ delivery[d].status = "sending" /\ delivery'[d].status = "sending"
  /\ delivery'[d].attempts = delivery[d].attempts /\ ~delivery'[d].lease
  /\ \A w \in Worker :
       /\ job'[w].pc = job[w].pc /\ job'[w].d = job[w].d
       /\ job'[w].attempts = job[w].attempts /\ job'[w].verdict = job[w].verdict
       /\ job[w].lost => job'[w].lost
       /\ job[w].d = d /\ job[w].attempts = delivery[d].attempts => job'[w].lost
       /\ job[w].d # d => job'[w].lost = job[w].lost

Kinds ==
  \/ Quiet \/ PurgeCluster
  \/ \E w \in Worker : (\E d \in Delivery : Claimed(w, d)) \/ Thinks(w) \/ Sends(w) \/ Writes(w)
  \/ \E d \in Delivery : LosesLease(d)

LEMMA EnqueueKinds ==
  ASSUME OTypeOK, RowInv, NEW ds, NEW a \in Alert, Enqueue(ds), \A d \in ds : d[1] = a,
         cluster # "purged", NEW status \in {"firing", "resolved"},
         alert' = [alert EXCEPT ![a] = status],
         UNCHANGED <<channel, job, cluster, faults, received, touched>>
  PROVE  OTypeOK' /\ Quiet
<1>1. batches' \in Nat  BY DEF Enqueue, OTypeOK
<1>2. alert' \in [Alert -> {"absent", "firing", "resolved"}] /\ alert'[a] # "absent"
  BY DEF OTypeOK
<1>3. \A b \in Alert : alert[b] # "absent" => alert'[b] # "absent"  BY <1>2 DEF OTypeOK
<1>4. ASSUME NEW d \in Delivery
      PROVE  delivery'[d] \in Row /\ (Kept(d) \/ Born(d))
  <2>1. CASE d \in ds /\ delivery[d].status = "absent"
    <3>. DEFINE row == [NoRow EXCEPT !.status = "pending", !.due = TRUE, !.born = batches + 1]
    <3>1. delivery'[d] = row  BY <2>1 DEF Enqueue
    <3>2. batches + 1 \in Nat /\ "pending" \in Status  BY DEF OTypeOK, Status
    <3>3. row \in Row /\ row.status = "pending" /\ row.attempts = 0
      BY <3>2, IdleTyped DEF NoRow, Row
    <3>. QED  BY <2>1, <3>1, <3>3, <1>2 DEF Born, Purged
  <2>2. CASE ~(d \in ds /\ delivery[d].status = "absent")
    <3>1. delivery'[d] = delivery[d]  BY <2>2 DEF Enqueue
    <3>. QED  BY <3>1, RowTyped DEF Kept
  <2>. QED  BY <2>1, <2>2
<1>5. delivery' \in [Delivery -> Row]
  <2>1. DOMAIN delivery' = Delivery /\ delivery' = [d \in Delivery |-> delivery'[d]]  BY DEF Enqueue
  <2>. QED  BY <2>1, <1>4
<1>6. OTypeOK'
  <2>1. UNCHANGED <<channel, job, cluster, faults, received, touched>>  OBVIOUS
  <2>. QED  BY <1>1, <1>2, <1>5, <2>1 DEF OTypeOK, At
<1>7. Quiet
  BY <1>3, <1>4 DEF Quiet, Purged
<1>. QED  BY <1>6, <1>7

LEMMA SourceKinds ==
  ASSUME OTypeOK, RowInv,
         \/ \E a \in Alert : IngestFiring(a) \/ IngestResolved(a) \/ ResolveByHand(a)
         \/ \E c \in Channel, status \in {"enabled", "disabled", "deleted"} : SetChannel(c, status)
         \/ DeleteCluster
         \/ \E d \in Delivery : DelayEnds(d) \/ Expire(d)
  PROVE  OTypeOK' /\ Quiet
<1>1. ASSUME NEW a \in Alert, IngestFiring(a)
      PROVE  OTypeOK' /\ Quiet
  <2>. DEFINE ds == {<<a, c, "firing">> : c \in {c \in Channel : channel[c] = "enabled"}}
  <2>1. \A d \in ds : d[1] = a  OBVIOUS
  <2>2. Enqueue(ds) /\ cluster # "purged" /\ alert' = [alert EXCEPT ![a] = "firing"]
    /\ UNCHANGED <<channel, job, cluster, faults, received, touched>>  BY <1>1 DEF IngestFiring
  <2>. HIDE DEF ds
  <2>. QED  BY <2>1, <2>2, EnqueueKinds
<1>2. ASSUME NEW a \in Alert, IngestResolved(a)
      PROVE  OTypeOK' /\ Quiet
  <2>. DEFINE ds == IF alert[a] = "absent" THEN {} ELSE {<<a, c, "resolved">> : c \in RecoveryChannels(a)}
  <2>1. \A d \in ds : d[1] = a  OBVIOUS
  <2>2. Enqueue(ds) /\ cluster # "purged" /\ alert' = [alert EXCEPT ![a] = "resolved"]
    /\ UNCHANGED <<channel, job, cluster, faults, received, touched>>  BY <1>2 DEF IngestResolved
  <2>. HIDE DEF ds
  <2>. QED  BY <2>1, <2>2, EnqueueKinds
<1>3. ASSUME NEW a \in Alert, ResolveByHand(a)
      PROVE  OTypeOK' /\ Quiet
  <2>1. alert' \in [Alert -> {"absent", "firing", "resolved"}]
        /\ \A b \in Alert : alert[b] # "absent" => alert'[b] # "absent"
    BY <1>3 DEF ResolveByHand, OTypeOK
  <2>2. UNCHANGED <<channel, delivery, batches, job, cluster, faults, received, touched>>
    BY <1>3 DEF ResolveByHand
  <2>3. OTypeOK'  BY <2>1, <2>2 DEF OTypeOK, At
  <2>. QED  BY <2>1, <2>2, <2>3 DEF Quiet, Kept, Purged
<1>4. ASSUME NEW c \in Channel, NEW status \in {"enabled", "disabled", "deleted"}, SetChannel(c, status)
      PROVE  OTypeOK' /\ Quiet
  <2>1. channel' \in [Channel -> {"enabled", "disabled", "deleted"}]
        /\ \A b \in Channel \ {c} : channel'[b] = channel[b]
    BY <1>4 DEF SetChannel, OTypeOK
  <2>2. touched' = touched \union {c} /\ UNCHANGED <<alert, delivery, batches, job, cluster, faults, received>>
    BY <1>4 DEF SetChannel
  <2>3. OTypeOK'  BY <2>1, <2>2 DEF OTypeOK, At
  <2>. QED  BY <2>1, <2>2, <2>3 DEF Quiet, Kept, Purged
<1>5. ASSUME DeleteCluster
      PROVE  OTypeOK' /\ Quiet
  <2>1. cluster = "live" /\ cluster' = "deleted"
        /\ UNCHANGED <<alert, channel, delivery, batches, job, faults, received, touched>>
    BY <1>5 DEF DeleteCluster
  <2>2. OTypeOK'  BY <2>1 DEF OTypeOK, At
  <2>. QED  BY <2>1, <2>2 DEF Quiet, Kept, Purged
<1>6. ASSUME NEW e \in Delivery, DelayEnds(e) \/ Expire(e)
      PROVE  OTypeOK' /\ Quiet
  <2>1. UNCHANGED <<sourceVars, job, faults, received, touched>>
    BY <1>6 DEF DelayEnds, Expire
  <2>2. delivery \in [Delivery -> Row]  BY DEF OTypeOK
  <2>3. PICK row : /\ row \in {[delivery[e] EXCEPT !.due = TRUE], [delivery[e] EXCEPT !.expired = TRUE]}
                   /\ delivery' = [delivery EXCEPT ![e] = row]
    BY <1>6, <2>2 DEF DelayEnds, Expire
  <2>4. row \in Row /\ row.status = delivery[e].status /\ row.attempts = delivery[e].attempts
        /\ row.lease = delivery[e].lease
    BY <2>2, <2>3 DEF Row
  <2>5. /\ delivery' \in [Delivery -> Row] /\ delivery'[e] = row
        /\ \A d \in Delivery \ {e} : delivery'[d] = delivery[d]
    BY <2>3, <2>4, RowStep
  <2>6. OTypeOK'  BY <2>1, <2>5 DEF OTypeOK, At, sourceVars
  <2>7. \A d \in Delivery : Kept(d)  BY <2>4, <2>5 DEF Kept
  <2>. QED  BY <2>1, <2>6, <2>7 DEF Quiet, Purged, sourceVars
<1>. QED  BY <1>1, <1>2, <1>3, <1>4, <1>5, <1>6

LEMMA PurgeTyped ==
  ASSUME OTypeOK, PurgeCluster
  PROVE  OTypeOK'
<1>1. delivery' \in [Delivery -> Row]  BY IdleTyped DEF PurgeCluster
<1>2. alert' \in [Alert -> {"absent", "firing", "resolved"}]  BY DEF PurgeCluster
<1>. QED  BY <1>1, <1>2 DEF PurgeCluster, OTypeOK, At

LEMMA FaultTyped ==
  ASSUME OTypeOK, Fault \/ UNCHANGED faults
  PROVE  faults' \in 0..MaxFaults
BY OutboxAssumption DEF OTypeOK, Fault

\* The rest of the state is untouched by a worker.
LEMMA WorkerTyped ==
  ASSUME OTypeOK, UNCHANGED sourceVars, UNCHANGED touched, Fault \/ UNCHANGED faults,
         received' \in [Delivery -> Nat], delivery' \in [Delivery -> Row],
         job' \in [Worker -> Job], \A v \in Worker : job'[v].pc # "idle" => job'[v].d \in Delivery
  PROVE  OTypeOK'
<1>1. faults' \in 0..MaxFaults  BY FaultTyped
<1>. QED  BY <1>1 DEF OTypeOK, At, sourceVars

LEMMA ClaimKinds ==
  ASSUME OTypeOK, NEW w \in Worker, Claim(w)
  PROVE  OTypeOK' /\ \E d \in Delivery : Claimed(w, d)
<1>1. UNCHANGED <<sourceVars, received, touched>> /\ At(w, "idle")  BY DEF Claim
<1>2. PICK d \in Delivery :
        /\ Due(d)
        /\ delivery' = [delivery EXCEPT ![d] = ClaimedRow(@)]
        /\ \/ /\ Goto(w, [Idle EXCEPT !.pc = "claimed", !.d = d, !.attempts = delivery[d].attempts + 1])
              /\ UNCHANGED faults
           \/ Fault /\ UNCHANGED job
  BY DEF Claim, Oldest
<1>3. delivery[d] \in Row /\ ClaimedRow(delivery[d]) \in Row  BY RowTyped
<1>4. delivery' = [delivery EXCEPT ![d] = ClaimedRow(delivery[d])]  BY <1>2
<1>5. /\ delivery' \in [Delivery -> Row] /\ delivery'[d] = ClaimedRow(delivery[d])
      /\ \A e \in Delivery \ {d} : delivery'[e] = delivery[e]
  BY <1>3, <1>4, RowStep
<1>6. /\ delivery'[d].status = "sending" /\ delivery'[d].lease
      /\ delivery'[d].attempts = delivery[d].attempts + 1
  BY <1>3, <1>5 DEF ClaimedRow, Row
<1>. DEFINE j == [Idle EXCEPT !.pc = "claimed", !.d = d, !.attempts = delivery[d].attempts + 1]
<1>7. /\ j \in Job /\ j.pc = "claimed" /\ j.d = d /\ ~j.lost
      /\ j.attempts = delivery[d].attempts + 1
  <2>1. delivery[d].attempts + 1 \in Nat  BY <1>3 DEF Row
  <2>. QED  BY <2>1, IdleTyped DEF Idle, Job
<1>8. \/ Goto(w, j) /\ UNCHANGED faults
      \/ Fault /\ UNCHANGED job
  BY <1>2
<1>. HIDE DEF j
<1>9. CASE Goto(w, j) /\ UNCHANGED faults
  <2>1. /\ job' \in [Worker -> Job] /\ job'[w] = j
        /\ \A v \in Worker \ {w} : job'[v] = job[v]
        /\ \A v \in Worker : job'[v].pc # "idle" => job'[v].d \in Delivery
    BY <1>7, <1>9, JobStep
  <2>2. OTypeOK'  BY <1>1, <1>5, <1>9, <2>1, WorkerTyped DEF OTypeOK
  <2>. QED  BY <1>1, <1>2, <1>5, <1>6, <1>7, <2>1, <2>2 DEF Claimed
<1>10. CASE Fault /\ UNCHANGED job
  <2>1. OTypeOK'  BY <1>1, <1>5, <1>10, WorkerTyped DEF OTypeOK, At
  <2>. QED  BY <1>1, <1>2, <1>5, <1>6, <1>10, <2>1 DEF Claimed
<1>. QED  BY <1>8, <1>9, <1>10

\* A step of one worker that writes no row, and sends nothing.
LEMMA ThinkTyped ==
  ASSUME OTypeOK, NEW w \in Worker, Busy(w), UNCHANGED <<sourceVars, delivery, received, touched>>,
         Fault \/ UNCHANGED faults, NEW j \in Job, j.pc # "idle" => j.d \in Delivery, Goto(w, j)
  PROVE  OTypeOK' /\ Alone(w) /\ job'[w] = j
<1>1. /\ job' \in [Worker -> Job] /\ job'[w] = j
      /\ \A v \in Worker \ {w} : job'[v] = job[v]
      /\ \A v \in Worker : job'[v].pc # "idle" => job'[v].d \in Delivery
  BY JobStep
<1>2. OTypeOK'  BY <1>1, WorkerTyped DEF OTypeOK
<1>. QED  BY <1>1, <1>2 DEF Alone

LEMMA JobFields ==
  ASSUME OTypeOK, NEW w \in Worker
  PROVE  /\ \A verdict :
              LET j == [job[w] EXCEPT !.pc = "finish", !.verdict = verdict] IN
              /\ j.pc = "finish" /\ j.verdict = verdict /\ j.d = job[w].d
              /\ j.attempts = job[w].attempts /\ j.lost = job[w].lost
         /\ \A pc :
              LET j == [job[w] EXCEPT !.pc = pc] IN
              /\ j.pc = pc /\ j.d = job[w].d /\ j.attempts = job[w].attempts /\ j.lost = job[w].lost
         /\ LET j == Thrown(job[w]) IN
              /\ j.pc = "catch" /\ j.verdict \in {"failed", "pending"} /\ j.d = job[w].d
              /\ j.attempts = job[w].attempts /\ j.lost = job[w].lost
         /\ LET j == Thrown([job[w] EXCEPT !.lost = TRUE]) IN
              /\ j.pc = "catch" /\ j.verdict \in {"failed", "pending"} /\ j.d = job[w].d
              /\ j.attempts = job[w].attempts /\ j.lost
<1>1. job[w] \in Job  BY JobTyped
<1>2. \A k : Retry(k) \in {"failed", "pending"}  BY DEF Retry
<1>3. \A verdict :
        LET j == [job[w] EXCEPT !.pc = "finish", !.verdict = verdict] IN
        /\ j.pc = "finish" /\ j.verdict = verdict /\ j.d = job[w].d
        /\ j.attempts = job[w].attempts /\ j.lost = job[w].lost
  BY <1>1 DEF Job
<1>4. \A pc :
        LET j == [job[w] EXCEPT !.pc = pc] IN
        /\ j.pc = pc /\ j.d = job[w].d /\ j.attempts = job[w].attempts /\ j.lost = job[w].lost
  BY <1>1 DEF Job
<1>5. LET j == Thrown(job[w]) IN
        /\ j.pc = "catch" /\ j.verdict \in {"failed", "pending"} /\ j.d = job[w].d
        /\ j.attempts = job[w].attempts /\ j.lost = job[w].lost
  BY <1>1, <1>2 DEF Thrown, Job
<1>6. LET j == Thrown([job[w] EXCEPT !.lost = TRUE]) IN
        /\ j.pc = "catch" /\ j.verdict \in {"failed", "pending"} /\ j.d = job[w].d
        /\ j.attempts = job[w].attempts /\ j.lost
  BY <1>1, <1>2 DEF Thrown, Job
<1>. QED  BY <1>3, <1>4, <1>5, <1>6

LEMMA CrashKinds ==
  ASSUME OTypeOK, NEW w \in Worker, ReadFails(w) \/ Crash(w)
  PROVE  OTypeOK' /\ Thinks(w)
<1>1. UNCHANGED <<sourceVars, delivery, received, touched>> /\ Fault /\ Busy(w)
  BY DEF ReadFails, Crash, Busy, At
<1>2. CASE Crash(w)
  <2>1. Goto(w, Idle) /\ Idle \in Job /\ Idle.pc = "idle"  BY <1>2, IdleTyped DEF Crash, Idle
  <2>2. OTypeOK' /\ Alone(w) /\ job'[w] = Idle  BY <1>1, <2>1, ThinkTyped
  <2>. QED  BY <1>1, <2>1, <2>2 DEF Thinks, Ends
<1>3. CASE ReadFails(w)
  <2>. DEFINE j == Thrown(job[w])
  <2>1. Goto(w, j) /\ j \in Job /\ job[w].pc \in {"claimed", "prior"}
    BY <1>3, JobTyped DEF ReadFails
  <2>2. /\ j.pc = "catch" /\ j.verdict \in {"failed", "pending"} /\ j.d = job[w].d
        /\ j.attempts = job[w].attempts /\ j.lost = job[w].lost
    BY JobFields
  <2>. HIDE DEF j
  <2>3. OTypeOK' /\ Alone(w) /\ job'[w] = j  BY <1>1, <2>1, <2>2, ThinkTyped, JobTyped
  <2>. QED  BY <1>1, <2>1, <2>2, <2>3 DEF Thinks, Fails, From
<1>. QED  BY <1>2, <1>3

\* Finish(w, verdict), as a step of the job.
LEMMA FinishTyped ==
  ASSUME OTypeOK, NEW w \in Worker, Busy(w), UNCHANGED <<sourceVars, delivery, received, touched>>,
         UNCHANGED faults, NEW verdict \in Ended \union {"pending"}, Finish(w, verdict)
  PROVE  /\ OTypeOK' /\ Alone(w) /\ From(w, job[w].pc, "finish")
         /\ job'[w].verdict = verdict /\ job'[w].lost = job[w].lost
<1>. DEFINE j == [job[w] EXCEPT !.pc = "finish", !.verdict = verdict]
<1>1. Goto(w, j) /\ j \in Job  BY JobTyped DEF Finish
<1>2. /\ j.pc = "finish" /\ j.verdict = verdict /\ j.d = job[w].d
      /\ j.attempts = job[w].attempts /\ j.lost = job[w].lost
  BY JobFields
<1>. HIDE DEF j
<1>3. OTypeOK' /\ Alone(w) /\ job'[w] = j  BY <1>1, <1>2, ThinkTyped, JobTyped
<1>. QED  BY <1>2, <1>3 DEF From

\* Going on to another program counter.
LEMMA AdvanceTyped ==
  ASSUME OTypeOK, NEW w \in Worker, Busy(w), UNCHANGED <<sourceVars, delivery, received, touched>>,
         UNCHANGED faults, NEW pc \in {"prior", "send", "release"}, Goto(w, [job[w] EXCEPT !.pc = pc])
  PROVE  OTypeOK' /\ Alone(w) /\ From(w, job[w].pc, pc) /\ job'[w].lost = job[w].lost
<1>. DEFINE j == [job[w] EXCEPT !.pc = pc]
<1>1. Goto(w, j) /\ j \in Job  BY JobTyped
<1>2. j.pc = pc /\ j.d = job[w].d /\ j.attempts = job[w].attempts /\ j.lost = job[w].lost
  BY JobFields
<1>. HIDE DEF j
<1>3. OTypeOK' /\ Alone(w) /\ job'[w] = j  BY <1>1, <1>2, ThinkTyped, JobTyped
<1>. QED  BY <1>2, <1>3 DEF From

LEMMA LoadKinds ==
  ASSUME OTypeOK, NEW w \in Worker, Load(w)
  PROVE  OTypeOK' /\ Thinks(w)
<1>. DEFINE d == job[w].d
            n == job[w].attempts
<1>1. UNCHANGED <<sourceVars, delivery, received, touched>> /\ UNCHANGED faults /\ Busy(w)
      /\ job[w].pc = "claimed"
  BY DEF Load, Busy, At
<1>2. d \in Delivery /\ n \in Nat  BY <1>1, JobTyped DEF Job
<1>3. {"expired", "failed", "cancelled"} \subseteq Ended \union {"pending"}  BY DEF Ended
<1>4. n <= MaxAttempts \/ Exhausted(w)  BY <1>2, OutboxAssumption DEF Exhausted
<1>5. \/ Finish(w, "expired") \/ Finish(w, "failed")
      \/ n <= MaxAttempts /\ (~Usable(d) \/ Obsolete(d, n)) /\ Finish(w, "cancelled")
      \/ n <= MaxAttempts /\ d[3] = "resolved" /\ Goto(w, [job[w] EXCEPT !.pc = "prior"])
      \/ n <= MaxAttempts /\ d[3] # "resolved" /\ Goto(w, [job[w] EXCEPT !.pc = "send"])
  BY <1>4 DEF Load
<1>6. ASSUME NEW verdict \in {"expired", "failed"}, Finish(w, verdict)
      PROVE  OTypeOK' /\ Thinks(w)
  <2>1. verdict \in Ended \union {"pending"}  BY <1>3
  <2>2. OTypeOK' /\ Alone(w) /\ From(w, "claimed", "finish")
        /\ job'[w].verdict = verdict /\ job'[w].lost = job[w].lost
    BY <1>1, <1>6, <2>1, FinishTyped
  <2>. QED  BY <1>1, <2>2 DEF Thinks
<1>7. CASE n <= MaxAttempts /\ (~Usable(d) \/ Obsolete(d, n)) /\ Finish(w, "cancelled")
  <2>2. OTypeOK' /\ Alone(w) /\ From(w, "claimed", "finish")
        /\ job'[w].verdict = "cancelled" /\ job'[w].lost = job[w].lost
    BY <1>1, <1>3, <1>7, FinishTyped
  <2>. QED  BY <1>1, <1>7, <2>2 DEF Thinks
<1>8. CASE n <= MaxAttempts /\ d[3] = "resolved" /\ Goto(w, [job[w] EXCEPT !.pc = "prior"])
  <2>1. OTypeOK' /\ Alone(w) /\ From(w, "claimed", "prior") /\ job'[w].lost = job[w].lost
    BY <1>1, <1>8, AdvanceTyped
  <2>2. ~IsFiring(d)  BY <1>2, <1>8, DeliveryParts
  <2>. QED  BY <1>1, <1>8, <2>1, <2>2 DEF Thinks
<1>9. CASE n <= MaxAttempts /\ d[3] # "resolved" /\ Goto(w, [job[w] EXCEPT !.pc = "send"])
  <2>1. OTypeOK' /\ Alone(w) /\ From(w, "claimed", "send") /\ job'[w].lost = job[w].lost
    BY <1>1, <1>9, AdvanceTyped
  <2>2. IsFiring(d)  BY <1>2, <1>9, DeliveryParts
  <2>. QED  BY <1>1, <1>9, <2>1, <2>2 DEF Thinks
<1>. QED  BY <1>5, <1>6, <1>7, <1>8, <1>9

LEMMA LoadFiringKinds ==
  ASSUME OTypeOK, NEW w \in Worker, LoadFiring(w)
  PROVE  OTypeOK' /\ Thinks(w)
<1>. DEFINE status == delivery[Firing(job[w].d)].status
<1>1. UNCHANGED <<sourceVars, delivery, received, touched>> /\ UNCHANGED faults /\ Busy(w)
      /\ job[w].pc = "prior"
  BY DEF LoadFiring, Busy, At
<1>2. \/ Finish(w, "cancelled")
      \/ status = "sent" /\ Goto(w, [job[w] EXCEPT !.pc = "send"])
      \/ Goto(w, [job[w] EXCEPT !.pc = "release"])
  BY DEF LoadFiring, FiringSent
<1>3. CASE Finish(w, "cancelled")
  <2>1. "cancelled" \in Ended \union {"pending"}  BY DEF Ended
  <2>2. OTypeOK' /\ Alone(w) /\ From(w, "prior", "finish")
        /\ job'[w].verdict = "cancelled" /\ job'[w].lost = job[w].lost
    BY <1>1, <1>3, <2>1, FinishTyped
  <2>. QED  BY <1>1, <2>2 DEF Thinks
<1>4. CASE status = "sent" /\ Goto(w, [job[w] EXCEPT !.pc = "send"])
  <2>1. OTypeOK' /\ Alone(w) /\ From(w, "prior", "send") /\ job'[w].lost = job[w].lost
    BY <1>1, <1>4, AdvanceTyped
  <2>. QED  BY <1>1, <1>4, <2>1 DEF Thinks
<1>5. CASE Goto(w, [job[w] EXCEPT !.pc = "release"])
  <2>1. OTypeOK' /\ Alone(w) /\ From(w, "prior", "release") /\ job'[w].lost = job[w].lost
    BY <1>1, <1>5, AdvanceTyped
  <2>. QED  BY <1>1, <2>1 DEF Thinks
<1>. QED  BY <1>2, <1>3, <1>4, <1>5

LEMMA SendKinds ==
  ASSUME OTypeOK, NEW w \in Worker, Send(w)
  PROVE  OTypeOK' /\ Sends(w)
<1>. DEFINE d == job[w].d
<1>1. UNCHANGED <<sourceVars, delivery, touched>> /\ UNCHANGED faults /\ Busy(w)
      /\ job[w].pc = "send"
  BY DEF Send, Busy, At
<1>2. d \in Delivery /\ received \in [Delivery -> Nat]  BY <1>1, JobTyped DEF OTypeOK
<1>3. PICK verdict \in {"sent", "failed", "pending"} :
        /\ Finish(w, verdict)
        /\ \/ received' = [received EXCEPT ![d] = @ + 1]
           \/ UNCHANGED received /\ verdict # "sent"
  <2>1. Retry(job[w]) \in {"failed", "pending"}  BY JobTyped
  <2>2. \/ received' = [received EXCEPT ![d] = @ + 1] /\ Finish(w, "sent")
        \/ received' = [received EXCEPT ![d] = @ + 1] /\ Finish(w, Retry(job[w]))
        \/ UNCHANGED received /\ Finish(w, Retry(job[w]))
    BY DEF Send
  <2>. HIDE DEF d
  <2>. QED  BY <2>1, <2>2, Zenon
<1>4. /\ received' \in [Delivery -> Nat]
      /\ \A e \in Delivery \ {d} : received'[e] = received[e]
      /\ \/ received'[d] = received[d] + 1
         \/ received'[d] = received[d] /\ verdict # "sent"
  BY <1>2, <1>3
<1>. DEFINE j == [job[w] EXCEPT !.pc = "finish", !.verdict = verdict]
<1>5. verdict \in Ended \union {"pending"}  BY DEF Ended
<1>6. Goto(w, j) /\ j \in Job  BY <1>3, <1>5, JobTyped DEF Finish
<1>7. /\ j.pc = "finish" /\ j.verdict = verdict /\ j.d = job[w].d
      /\ j.attempts = job[w].attempts /\ j.lost = job[w].lost
  BY JobFields
<1>. HIDE DEF j
<1>8. /\ job' \in [Worker -> Job] /\ job'[w] = j
      /\ \A v \in Worker \ {w} : job'[v] = job[v]
      /\ \A v \in Worker : job'[v].pc # "idle" => job'[v].d \in Delivery
  BY <1>2, <1>6, <1>7, JobStep
<1>9. OTypeOK'  BY <1>1, <1>4, <1>8, WorkerTyped DEF OTypeOK
<1>10. Alone(w) /\ From(w, "send", "finish") /\ job'[w].lost = job[w].lost /\ job'[w].verdict = verdict
  BY <1>1, <1>7, <1>8 DEF Alone, From
<1>11. verdict # "sent" => verdict \in {"failed", "pending"}  OBVIOUS
<1>12. \/ received'[d] = received[d] + 1 /\ job'[w].verdict \in {"sent", "failed", "pending"}
       \/ received'[d] = received[d] /\ job'[w].verdict \in {"failed", "pending"}
  BY <1>4, <1>10, <1>11
<1>13. \A e \in Delivery \ {d} : received'[e] = received[e]  BY <1>4
<1>. QED  BY <1>1, <1>9, <1>10, <1>12, <1>13 DEF Sends

\* A write of a claim: the row, or nothing when the claim is not its own any more.
LEMMA WriteRow ==
  ASSUME OTypeOK, NEW w \in Worker, Busy(w), job[w].pc \in {"release", "finish", "catch"},
         job[w].attempts >= 1, NEW row,
         row = IF job[w].pc = "release" THEN ReleasedRow(delivery[job[w].d])
                                        ELSE FinishedRow(delivery[job[w].d], job[w].verdict),
         Write(w, row)
  PROVE  /\ delivery' \in [Delivery -> Row]
         /\ Wrote(w) \/ (UNCHANGED delivery /\ ~StillMine(w))
<1>. DEFINE d == job[w].d
<1>1. d \in Delivery /\ job[w] \in Job /\ job[w].verdict \in Ended \union {"pending"}
  BY JobTyped DEF Job
<1>2. CASE ~StillMine(w)
  <2>1. UNCHANGED delivery  BY <1>2 DEF Write
  <2>. QED  BY <1>2, <2>1 DEF OTypeOK
<1>3. CASE StillMine(w)
  <2>1. delivery' = [delivery EXCEPT ![d] = row]  BY <1>3 DEF Write
  <2>2. delivery[d] \in Row /\ delivery[d].attempts >= 1  BY <1>1, <1>3, RowTyped DEF StillMine
  <2>3. row \in Row  BY <1>1, <2>2, RowTyped
  <2>4. /\ delivery' \in [Delivery -> Row] /\ delivery'[d] = row
        /\ \A e \in Delivery \ {d} : delivery'[e] = delivery[e]
    BY <1>1, <2>1, <2>3, RowStep
  <2>5. \A verdict :
          LET r == FinishedRow(delivery[d], verdict) IN
          r.status = verdict /\ ~r.lease /\ r.attempts = delivery[d].attempts
    BY <2>2 DEF FinishedRow, Row
  <2>6. LET r == ReleasedRow(delivery[d]) IN
          r.status = "pending" /\ ~r.lease /\ r.attempts = delivery[d].attempts - 1
    BY <2>2 DEF ReleasedRow, FinishedRow, Row
  <2>7. /\ ~row.lease
        /\ job[w].pc = "release" => row.status = "pending" /\ row.attempts = delivery[d].attempts - 1
        /\ job[w].pc # "release" => row.status = job[w].verdict /\ row.attempts = delivery[d].attempts
    BY <2>5, <2>6
  <2>. HIDE DEF d
  <2>. QED  BY <1>3, <2>4, <2>7 DEF Wrote, d
<1>. QED  BY <1>2, <1>3

LEMMA WriteKinds ==
  ASSUME OTypeOK, JobInv, NEW w \in Worker, Release(w) \/ Complete(w) \/ Catch(w)
  PROVE  OTypeOK' /\ Writes(w)
<1>. DEFINE d == job[w].d
            row == IF job[w].pc = "release" THEN ReleasedRow(delivery[d])
                                            ELSE FinishedRow(delivery[d], job[w].verdict)
<1>1. UNCHANGED <<sourceVars, received, touched>> /\ Busy(w)
      /\ job[w].pc \in {"release", "finish", "catch"} /\ job[w].attempts >= 1
  <2>1. UNCHANGED <<sourceVars, received, touched>> /\ job[w].pc \in {"release", "finish", "catch"}
    BY DEF Release, Complete, Catch, At
  <2>2. Busy(w)  BY <2>1 DEF Busy, At
  <2>. QED  BY <2>1, <2>2 DEF JobInv, JobSound
<1>2. \/ /\ Write(w, row) \/ UNCHANGED delivery
         /\ Goto(w, Idle) /\ (Fault \/ UNCHANGED faults)
      \/ /\ Write(w, row) /\ job[w].pc # "catch"
         /\ Goto(w, Thrown([job[w] EXCEPT !.lost = TRUE])) /\ Fault
      \/ /\ UNCHANGED delivery /\ job[w].pc # "catch"
         /\ Goto(w, Thrown(job[w])) /\ Fault
  BY DEF Release, Complete, Catch, At, WriteOrThrow
<1>3. Write(w, row) => /\ delivery' \in [Delivery -> Row]
                       /\ Wrote(w) \/ (UNCHANGED delivery /\ ~StillMine(w))
  BY <1>1, WriteRow
<1>4. d \in Delivery  BY <1>1, JobTyped
<1>. HIDE DEF row, d
<1>5. ASSUME NEW j \in Job, Goto(w, j), j.pc = "idle" \/ j.d = d, Fault \/ UNCHANGED faults,
             Write(w, row) \/ UNCHANGED delivery
      PROVE  OTypeOK' /\ Alone(w) /\ job'[w] = j
  <2>1. /\ job' \in [Worker -> Job] /\ job'[w] = j
        /\ \A v \in Worker \ {w} : job'[v] = job[v]
        /\ \A v \in Worker : job'[v].pc # "idle" => job'[v].d \in Delivery
    BY <1>4, <1>5, JobStep
  <2>2. delivery' \in [Delivery -> Row]  BY <1>3, <1>5 DEF OTypeOK
  <2>3. OTypeOK'  BY <1>1, <1>5, <2>1, <2>2, WorkerTyped DEF OTypeOK
  <2>. QED  BY <1>1, <2>1, <2>3 DEF Alone
<1>6. CASE /\ Write(w, row) \/ UNCHANGED delivery
           /\ Goto(w, Idle) /\ (Fault \/ UNCHANGED faults)
  <2>1. Idle \in Job /\ Idle.pc = "idle"  BY IdleTyped DEF Idle
  <2>2. OTypeOK' /\ Alone(w) /\ job'[w] = Idle  BY <1>5, <1>6, <2>1
  <2>. QED  BY <1>1, <1>3, <1>6, <2>1, <2>2 DEF Writes, Ends
<1>7. CASE /\ Write(w, row) /\ job[w].pc # "catch"
           /\ Goto(w, Thrown([job[w] EXCEPT !.lost = TRUE])) /\ Fault
  <2>. DEFINE j == Thrown([job[w] EXCEPT !.lost = TRUE])
  <2>1. /\ j \in Job /\ j.pc = "catch" /\ j.verdict \in {"failed", "pending"} /\ j.d = job[w].d
        /\ j.attempts = job[w].attempts /\ j.lost
    BY JobTyped, JobFields
  <2>2. Goto(w, j) /\ Fault  BY <1>7
  <2>. HIDE DEF j
  <2>3. OTypeOK' /\ Alone(w) /\ job'[w] = j  BY <1>5, <1>7, <2>1, <2>2 DEF d
  <2>4. Fails(w, "release") \/ Fails(w, "finish")  BY <1>1, <1>7, <2>1, <2>3 DEF Fails, From
  <2>. QED  BY <1>1, <1>3, <1>7, <2>1, <2>3, <2>4 DEF Writes
<1>8. CASE /\ UNCHANGED delivery /\ job[w].pc # "catch"
           /\ Goto(w, Thrown(job[w])) /\ Fault
  <2>. DEFINE j == Thrown(job[w])
  <2>1. /\ j \in Job /\ j.pc = "catch" /\ j.verdict \in {"failed", "pending"} /\ j.d = job[w].d
        /\ j.attempts = job[w].attempts /\ j.lost = job[w].lost
    BY JobTyped, JobFields
  <2>2. Goto(w, j) /\ Fault  BY <1>8
  <2>. HIDE DEF j
  <2>3. OTypeOK' /\ Alone(w) /\ job'[w] = j  BY <1>5, <1>8, <2>1, <2>2 DEF d
  <2>4. Fails(w, "release") \/ Fails(w, "finish")  BY <1>1, <1>8, <2>1, <2>3 DEF Fails, From
  <2>. QED  BY <1>1, <1>8, <2>1, <2>3, <2>4 DEF Writes
<1>. QED  BY <1>2, <1>6, <1>7, <1>8

LEMMA LeaseKinds ==
  ASSUME OTypeOK, NEW d \in Delivery, LeaseEnds(d)
  PROVE  OTypeOK' /\ LosesLease(d)
<1>1. UNCHANGED <<sourceVars, received, touched>> /\ delivery[d].status = "sending"
      /\ delivery' = [delivery EXCEPT ![d].lease = FALSE]
  BY DEF LeaseEnds
<1>. DEFINE row == [delivery[d] EXCEPT !.lease = FALSE]
<1>2. delivery[d] \in Row  BY RowTyped
<1>3. row \in Row /\ row.status = delivery[d].status /\ row.attempts = delivery[d].attempts /\ ~row.lease
  BY <1>2 DEF Row
<1>4. delivery' = [delivery EXCEPT ![d] = row]  BY <1>1, <1>2 DEF OTypeOK
<1>. HIDE DEF row
<1>5. /\ delivery' \in [Delivery -> Row] /\ delivery'[d] = row
      /\ \A e \in Delivery \ {d} : delivery'[e] = delivery[e]
  BY <1>3, <1>4, RowStep
<1>6. /\ job' \in [Worker -> Job] /\ (Fault \/ UNCHANGED faults)
      /\ \A w \in Worker :
           job'[w] = IF w \in Holders(d) THEN [job[w] EXCEPT !.lost = TRUE] ELSE job[w]
  <2>1. CASE Holders(d) = {}
    <3>1. UNCHANGED <<job, faults>>  BY <2>1 DEF LeaseEnds
    <3>2. job \in [Worker -> Job] /\ \A w \in Worker : w \notin Holders(d)  BY <2>1 DEF OTypeOK
    <3>. QED  BY <3>1, <3>2
  <2>2. CASE Holders(d) # {}
    <3>1. Fault /\ job' = [w \in Worker |-> IF w \in Holders(d) THEN [job[w] EXCEPT !.lost = TRUE] ELSE job[w]]
      BY <2>2 DEF LeaseEnds
    <3>2. ASSUME NEW w \in Worker
          PROVE  job[w] \in Job /\ [job[w] EXCEPT !.lost = TRUE] \in Job
      <4>1. job[w] \in Job  BY JobTyped
      <4>. QED  BY <4>1 DEF Job
    <3>. QED  BY <3>1, <3>2
  <2>. QED  BY <2>1, <2>2
<1>7. ASSUME NEW w \in Worker
      PROVE  /\ job'[w].pc = job[w].pc /\ job'[w].d = job[w].d
             /\ job'[w].attempts = job[w].attempts /\ job'[w].verdict = job[w].verdict
             /\ job[w].lost => job'[w].lost
             /\ job[w].d = d /\ job[w].attempts = delivery[d].attempts => job'[w].lost
             /\ job[w].d # d => job'[w].lost = job[w].lost
  <2>1. job[w] \in Job  BY JobTyped
  <2>2. CASE w \in Holders(d)
    <3>1. job'[w] = [job[w] EXCEPT !.lost = TRUE]  BY <1>6, <2>2
    <3>2. job[w].d = d  BY <2>2 DEF Holders
    <3>. QED  BY <2>1, <3>1, <3>2 DEF Job
  <2>3. CASE w \notin Holders(d)
    <3>1. job'[w] = job[w]  BY <1>6, <2>3
    <3>2. ~(job[w].d = d /\ job[w].attempts = delivery[d].attempts)  BY <2>3 DEF Holders
    <3>. QED  BY <3>1, <3>2
  <2>. QED  BY <2>2, <2>3
<1>8. OTypeOK'
  <2>1. \A w \in Worker : job'[w].pc # "idle" => job'[w].d \in Delivery  BY <1>7 DEF OTypeOK, At
  <2>. QED  BY <1>1, <1>5, <1>6, <2>1, WorkerTyped DEF OTypeOK
<1>. QED  BY <1>1, <1>3, <1>5, <1>7, <1>8 DEF LosesLease

LEMMA StepKinds ==
  ASSUME OTypeOK, RowInv, JobInv, ONext
  PROVE  OTypeOK' /\ Kinds
<1>1. CASE PurgeCluster  BY <1>1, PurgeTyped DEF Kinds
<1>2. CASE \E w \in Worker : WorkerStep(w) \/ ReadFails(w) \/ Crash(w)
  <2>1. PICK w \in Worker : WorkerStep(w) \/ ReadFails(w) \/ Crash(w)  BY <1>2
  <2>2. OTypeOK' /\ ((\E d \in Delivery : Claimed(w, d)) \/ Thinks(w) \/ Sends(w) \/ Writes(w))
    BY <2>1, ClaimKinds, CrashKinds, LoadKinds, LoadFiringKinds, SendKinds, WriteKinds DEF WorkerStep
  <2>. QED  BY <2>2 DEF Kinds
<1>3. CASE \E d \in Delivery : LeaseEnds(d)  BY <1>3, LeaseKinds DEF Kinds
<1>4. CASE \/ \E a \in Alert : IngestFiring(a) \/ IngestResolved(a) \/ ResolveByHand(a)
           \/ \E c \in Channel, status \in {"enabled", "disabled", "deleted"} : SetChannel(c, status)
           \/ DeleteCluster
           \/ \E d \in Delivery : DelayEnds(d) \/ Expire(d)
  BY <1>4, SourceKinds DEF Kinds
<1>. QED  BY <1>1, <1>2, <1>3, <1>4 DEF ONext

LEMMA Numbers ==
  ASSUME OTypeOK
  PROVE  /\ \A d \in Delivery : delivery[d].attempts \in Nat /\ received[d] \in Nat
                                /\ delivery[d].status \in Status
         /\ \A w \in Worker : job[w].attempts \in Nat /\ (Busy(w) => job[w].d \in Delivery)
         /\ MaxAttempts \in Nat
<1>1. \A d \in Delivery : delivery[d] \in Row /\ received[d] \in Nat  BY DEF OTypeOK
<1>2. \A w \in Worker : job[w] \in Job /\ (Busy(w) => job[w].d \in Delivery)  BY DEF OTypeOK, Busy
<1>3. \A d \in Delivery : delivery[d].attempts \in Nat /\ delivery[d].status \in Status
  BY <1>1 DEF Row
<1>4. \A w \in Worker : job[w].attempts \in Nat  BY <1>2 DEF Job
<1>. QED  BY <1>1, <1>2, <1>3, <1>4, OutboxAssumption

\* Once the alerts of the cluster are gone, no row is claimed or written.
LEMMA NotPurged ==
  ASSUME OTypeOK, Purged, RowInv, NEW d \in Delivery
  PROVE  ~Due(d) /\ delivery[d].status = "absent" /\ \A w \in Worker : job[w].d = d => ~StillMine(w)
<1>1. delivery[d].status = "absent"  BY DEF RowInv, RowSound
<1>. QED  BY <1>1 DEF Due, Pending, LeaseEnded, StillMine

------------------------------------------------------------------------------
(***************************************************************************)
(* The rows, the channels, the jobs and the numbers of the claims.         *)
(***************************************************************************)
LEMMA RowKept ==
  ASSUME OTypeOK, RowInv, JobInv, Kinds
  PROVE  RowInv'
<1>. SUFFICES ASSUME NEW d \in Delivery PROVE RowSound(d)'
  BY DEF RowInv
<1>1. RowSound(d) /\ d[1] \in Alert  BY DeliveryParts DEF RowInv
<1>2. received[d] \in Nat  BY Numbers
<1>3. CASE Quiet
  <2>1. received' = received /\ (Purged' <=> Purged) /\ (alert[d[1]] # "absent" => alert'[d[1]] # "absent")
    BY <1>1, <1>3 DEF Quiet
  <2>2. CASE Kept(d)  BY <1>1, <2>1, <2>2 DEF Kept, RowSound
  <2>3. CASE Born(d)  BY <1>1, <2>1, <2>3 DEF Born, RowSound
  <2>. QED  BY <1>3, <2>2, <2>3 DEF Quiet
<1>4. CASE PurgeCluster
  <2>1. delivery'[d].status = "absent" /\ delivery'[d].attempts = 0  BY <1>4 DEF PurgeCluster, NoRow
  <2>. QED  BY <2>1 DEF RowSound
<1>5. ASSUME NEW w \in Worker, NEW e \in Delivery, Claimed(w, e)
      PROVE  RowSound(d)'
  <2>1. alert' = alert /\ received' = received /\ (Purged' <=> Purged)
    BY <1>5 DEF Claimed, sourceVars, Purged
  <2>2. CASE d = e
    <3>1. ~Purged /\ delivery[d].status # "absent" /\ delivery'[d].status = "sending"
      BY <1>5, <2>2, NotPurged DEF Claimed, Due, Pending, LeaseEnded
    <3>. QED  BY <1>1, <2>1, <3>1 DEF RowSound
  <2>3. CASE d # e
    <3>1. delivery'[d] = delivery[d]  BY <1>5, <2>3 DEF Claimed
    <3>. QED  BY <1>1, <2>1, <3>1 DEF RowSound
  <2>. QED  BY <2>2, <2>3
<1>6. ASSUME NEW w \in Worker, Thinks(w) \/ Sends(w)
      PROVE  RowSound(d)'
  <2>1. alert' = alert /\ delivery' = delivery /\ (Purged' <=> Purged)
    BY <1>6 DEF Thinks, Sends, sourceVars, Purged
  <2>2. received[d] > 0 => received'[d] > 0
    <3>1. received'[d] = received[d] \/ received'[d] = received[d] + 1
      BY <1>6 DEF Thinks, Sends
    <3>. QED  BY <1>2, <3>1
  <2>. QED  BY <1>1, <2>1, <2>2 DEF RowSound
<1>7. ASSUME NEW w \in Worker, Writes(w)
      PROVE  RowSound(d)'
  <2>1. alert' = alert /\ received' = received /\ (Purged' <=> Purged)
    BY <1>7 DEF Writes, sourceVars, Purged
  <2>2. CASE delivery'[d] = delivery[d]  BY <1>1, <2>1, <2>2 DEF RowSound
  <2>3. CASE delivery'[d] # delivery[d]
    <3>1. Wrote(w) /\ d = job[w].d  BY <1>7, <2>3 DEF Writes, Wrote
    <3>2. ~Purged /\ delivery[d].status = "sending"  BY <3>1, NotPurged DEF Wrote, StillMine
    <3>3. Busy(w) /\ job[w].pc \in {"release", "finish", "catch"} /\ job[w] \in Job
      BY <1>7, JobTyped DEF Writes, Alone
    <3>4. delivery'[d].status \in Ended \union {"pending"}
      BY <3>1, <3>3 DEF Wrote, Job
    <3>5. delivery'[d].status = "sent" => received[d] > 0
      BY <3>1, <3>3 DEF Wrote, JobInv, JobSound
    <3>6. delivery'[d].status # "absent"  BY <3>4 DEF Ended
    <3>. QED  BY <1>1, <2>1, <3>2, <3>5, <3>6 DEF RowSound
  <2>. QED  BY <2>2, <2>3
<1>8. ASSUME NEW e \in Delivery, LosesLease(e)
      PROVE  RowSound(d)'
  <2>1. alert' = alert /\ received' = received /\ (Purged' <=> Purged)
    BY <1>8 DEF LosesLease, sourceVars, Purged
  <2>2. delivery'[d].status = delivery[d].status /\ delivery'[d].attempts = delivery[d].attempts
    BY <1>8 DEF LosesLease
  <2>. QED  BY <1>1, <2>1, <2>2 DEF RowSound
<1>. QED  BY <1>3, <1>4, <1>5, <1>6, <1>7, <1>8 DEF Kinds

LEMMA ChannelKept ==
  ASSUME ChannelInv, Kinds
  PROVE  ChannelInv'
<1>1. CASE Quiet  BY <1>1 DEF Quiet, ChannelInv
<1>2. CASE ~Quiet
  <2>1. channel' = channel /\ touched' = touched
    BY <1>2 DEF Kinds, PurgeCluster, Claimed, Thinks, Sends, Writes, LosesLease, sourceVars
  <2>. QED  BY <2>1 DEF ChannelInv
<1>. QED  BY <1>1, <1>2

\* A job that stays as it is stays sound if its row does not fall behind.
LEMMA JobFrame ==
  ASSUME OTypeOK, OTypeOK', NEW v \in Worker, JobSound(v), job'[v] = job[v],
         Purged => Purged',
         Busy(v) => /\ received'[job[v].d] >= received[job[v].d]
                    /\ ~Purged' /\ delivery[job[v].d].status # "absent" => delivery'[job[v].d].status # "absent"
                    /\ ~Purged' /\ (Unsent(v) \/ IsFiring(job[v].d)) /\ job[v].attempts <= delivery[job[v].d].attempts
                         => job[v].attempts <= delivery'[job[v].d].attempts
  PROVE  JobSound(v)'
<1>1. /\ Busy(v)' <=> Busy(v)
      /\ Unsent(v)' <=> Unsent(v)
  BY DEF Busy, At, Unsent
<1>2. Busy(v) => received[job[v].d] \in Nat /\ received'[job[v].d] \in Nat
  BY JobTyped DEF OTypeOK
<1>3. ~Purged' => ~Purged  OBVIOUS
<1>. QED  BY <1>1, <1>2, <1>3 DEF JobSound, IsFiring

LEMMA JobKept ==
  ASSUME OTypeOK, OTypeOK', RowInv, JobInv, UniqueInv, Kinds
  PROVE  JobInv'
<1>. SUFFICES ASSUME NEW v \in Worker PROVE JobSound(v)'
  BY DEF JobInv
<1>. DEFINE d == job[v].d
<1>1. JobSound(v) /\ (Busy(v) => d \in Delivery)  BY JobTyped DEF JobInv
<1>2. /\ \A e \in Delivery : /\ delivery[e].attempts \in Nat /\ received[e] \in Nat
                             /\ delivery[e].status = "absent" => delivery[e].attempts = 0
      /\ job[v].attempts \in Nat
  BY Numbers DEF RowInv, RowSound
<1>3. CASE Quiet
  <2>1. job' = job /\ received' = received /\ Purged' = Purged  BY <1>3 DEF Quiet, Purged
  <2>2. Busy(v) => Kept(d) \/ Born(d)  BY <1>1, <1>3 DEF Quiet
  <2>3. Busy(v) => \/ /\ delivery'[d].status = delivery[d].status
                      /\ delivery'[d].attempts = delivery[d].attempts
                   \/ delivery'[d].status # "absent" /\ delivery[d].status = "absent"
                      /\ delivery'[d].attempts = delivery[d].attempts
    BY <1>1, <1>2, <2>2 DEF Kept, Born
  <2>. QED  BY <1>1, <1>2, <2>1, <2>3, JobFrame
<1>4. CASE PurgeCluster
  <2>1. job' = job /\ received' = received /\ Purged'  BY <1>4 DEF PurgeCluster, Purged
  <2>. QED  BY <1>1, <1>2, <2>1, JobFrame
<1>5. ASSUME NEW w \in Worker, NEW e \in Delivery, Claimed(w, e)
      PROVE  JobSound(v)'
  <2>1. received' = received /\ Purged' = Purged  BY <1>5 DEF Claimed, sourceVars, Purged
  <2>2. CASE job'[v] = job[v]
    <3>1. Busy(v) /\ d = e => delivery'[d].status # "absent" /\ delivery'[d].attempts = delivery[d].attempts + 1
      BY <1>5 DEF Claimed
    <3>2. Busy(v) /\ d # e => delivery'[d] = delivery[d]  BY <1>1, <1>5 DEF Claimed
    <3>. QED  BY <1>1, <1>2, <2>1, <2>2, <3>1, <3>2, JobFrame
  <2>3. CASE job'[v] # job[v]
    <3>1. /\ v = w /\ job'[v].pc = "claimed" /\ job'[v].d = e
          /\ job'[v].attempts = delivery[e].attempts + 1
      BY <1>5, <2>3 DEF Claimed
    <3>2. delivery'[e].status = "sending" /\ delivery'[e].attempts = delivery[e].attempts + 1
      BY <1>5 DEF Claimed
    <3>. QED  BY <1>2, <3>1, <3>2 DEF JobSound
  <2>. QED  BY <2>2, <2>3
<1>6. ASSUME NEW w \in Worker, Thinks(w) \/ Sends(w) \/ Writes(w), v = w
      PROVE  JobSound(v)'
  <2>1. Alone(w) /\ (Purged' <=> Purged)
    BY <1>6 DEF Thinks, Sends, Writes, sourceVars, Purged
  <2>2. CASE Ends(w)  BY <1>6, <2>2 DEF Ends, JobSound, Busy, At
  <2>3. CASE ~Ends(w) /\ Thinks(w)
    <3>1. delivery' = delivery /\ received' = received /\ Busy(w)
      BY <2>3 DEF Thinks, Alone
    <3>2. job'[w].d = d /\ job'[w].attempts = job[w].attempts /\ Unsent(w)
      BY <1>6, <2>3 DEF Thinks, Fails, From, Unsent
    <3>3. /\ job'[w].pc \in {"prior", "send", "release"} => job[w].attempts <= MaxAttempts
          /\ job'[w].pc \in {"prior", "release"} => ~IsFiring(d)
      BY <1>1, <1>6, <2>3, <3>1 DEF Thinks, Fails, From, JobSound
    <3>4. job'[w].pc = "finish" => job'[w].verdict # "sent"
      BY <2>3 DEF Thinks, Fails, From
    <3>5. job'[w].pc = "catch" => job'[w].verdict \in {"failed", "pending"}
      BY <2>3 DEF Thinks, Fails, From
    <3>. HIDE DEF d
    <3>. QED  BY <1>1, <1>6, <2>1, <3>1, <3>2, <3>3, <3>4, <3>5 DEF JobSound, d
  <2>4. CASE Sends(w)
    <3>1. delivery' = delivery /\ Busy(w)  BY <2>4 DEF Sends, Alone
    <3>2. job'[w].d = d /\ job'[w].attempts = job[w].attempts /\ Unsent(w) /\ job'[w].pc = "finish"
      BY <1>6, <2>4 DEF Sends, From, Unsent
    <3>3. job'[w].verdict = "sent" => received'[d] = received[d] + 1
      BY <1>6, <2>4 DEF Sends
    <3>4. job'[w].verdict = "sent" => received'[d] > 0
      BY <1>1, <1>2, <1>6, <3>1, <3>3
    <3>. QED  BY <1>1, <1>6, <2>1, <3>1, <3>2, <3>4 DEF JobSound, Unsent
  <2>5. CASE ~Ends(w) /\ Writes(w)
    <3>1. Busy(w) /\ job[w].pc \in {"release", "finish", "catch"}  BY <2>5 DEF Writes, Alone
    <3>2. /\ job'[w].d = d /\ job'[w].attempts = job[w].attempts /\ job'[w].pc = "catch"
          /\ job'[w].verdict \in {"failed", "pending"} /\ job[w].pc \in {"release", "finish"}
      BY <1>6, <2>5 DEF Writes, Fails, From
    <3>3. /\ ~Purged => delivery'[d].status # "absent"
          /\ ~Purged /\ IsFiring(d) => job[w].attempts <= delivery'[d].attempts
      <4>1. CASE delivery' = delivery  BY <1>1, <1>6, <3>1, <4>1 DEF JobSound
      <4>2. CASE Wrote(w)
        <5>1. job[w].verdict \in Ended \union {"pending"}  BY JobTyped DEF Job
        <5>2. delivery'[d].status # "absent"
          BY <1>6, <3>1, <4>2, <5>1 DEF Wrote, Ended
        <5>3. IsFiring(d) => job[w].pc # "release"  BY <1>1, <1>6, <3>1 DEF JobSound
        <5>4. IsFiring(d) => delivery'[d].attempts = delivery[d].attempts
          BY <1>6, <4>2, <5>3 DEF Wrote
        <5>. QED  BY <1>1, <1>6, <3>1, <5>2, <5>4 DEF JobSound
      <4>. QED  BY <2>5, <4>1, <4>2 DEF Writes
    <3>. QED  BY <1>1, <1>6, <2>1, <3>1, <3>2, <3>3 DEF JobSound, Unsent
  <2>. QED  BY <1>6, <2>2, <2>3, <2>4, <2>5
<1>7. ASSUME NEW w \in Worker, Thinks(w) \/ Sends(w), v # w
      PROVE  JobSound(v)'
  <2>1. job'[v] = job[v] /\ delivery' = delivery /\ (Purged' <=> Purged)
    BY <1>7 DEF Thinks, Sends, Alone, sourceVars, Purged
  <2>2. \A e \in Delivery : received'[e] >= received[e]
    <3>1. \A e \in Delivery : received'[e] = received[e] \/ received'[e] = received[e] + 1
      BY <1>7 DEF Thinks, Sends
    <3>. QED  BY <1>2, <3>1
  <2>. QED  BY <1>1, <2>1, <2>2, JobFrame
<1>8. ASSUME NEW w \in Worker, Writes(w), v # w
      PROVE  JobSound(v)'
  <2>1. job'[v] = job[v] /\ received' = received /\ (Purged' <=> Purged) /\ Busy(w)
    BY <1>8 DEF Writes, Alone, sourceVars, Purged
  <2>2. CASE Busy(v) /\ delivery'[d] # delivery[d]
    <3>1. Wrote(w) /\ d = job[w].d /\ d \in Delivery  BY <1>1, <1>8, <2>2 DEF Writes, Wrote
    <3>2. job[w].verdict \in Ended \union {"pending"}  BY JobTyped DEF Job
    <3>3. delivery'[d].status # "absent"
      BY <1>8, <3>1, <3>2 DEF Wrote, Ended
    <3>4. CASE job[w].pc # "release"
      <4>1. delivery'[d].attempts = delivery[d].attempts  BY <3>1, <3>4 DEF Wrote
      <4>. QED  BY <1>1, <1>2, <2>1, <3>1, <3>3, <4>1, JobFrame
    <3>5. CASE job[w].pc = "release"
      <4>1. ~IsFiring(d) /\ Unsent(w)  BY <2>1, <3>1, <3>5 DEF JobInv, JobSound, Unsent
      <4>2. Unsent(v) => job[v].attempts # job[w].attempts
        BY <1>8, <2>1, <2>2, <3>1, <4>1 DEF UniqueInv
      <4>3. delivery[d].attempts = job[w].attempts  BY <3>1 DEF Wrote, StillMine
      <4>4. delivery'[d].attempts = delivery[d].attempts - 1  BY <3>1, <3>5 DEF Wrote
      <4>5. Unsent(v) /\ job[v].attempts <= delivery[d].attempts => job[v].attempts <= delivery'[d].attempts
        BY <1>2, <3>1, <4>2, <4>3, <4>4
      <4>. QED  BY <1>1, <1>2, <2>1, <3>1, <3>3, <4>1, <4>5, JobFrame
    <3>. QED  BY <3>4, <3>5
  <2>3. CASE Busy(v) => delivery'[d] = delivery[d]  BY <1>1, <1>2, <2>1, <2>3, JobFrame
  <2>. QED  BY <2>2, <2>3
<1>9. ASSUME NEW e \in Delivery, LosesLease(e)
      PROVE  JobSound(v)'
  <2>1. received' = received /\ (Purged' <=> Purged)  BY <1>9 DEF LosesLease, sourceVars, Purged
  <2>2. /\ job'[v].pc = job[v].pc /\ job'[v].d = d
        /\ job'[v].attempts = job[v].attempts /\ job'[v].verdict = job[v].verdict
    BY <1>9 DEF LosesLease
  <2>3. Busy(v) => /\ delivery'[d].status = delivery[d].status
                   /\ delivery'[d].attempts = delivery[d].attempts
    BY <1>1, <1>9 DEF LosesLease
  <2>4. (Busy(v)' <=> Busy(v)) /\ (Unsent(v)' <=> Unsent(v))  BY <2>2 DEF Busy, At, Unsent
  <2>. QED  BY <1>1, <2>1, <2>2, <2>3, <2>4 DEF JobSound
<1>. QED  BY <1>3, <1>4, <1>5, <1>6, <1>7, <1>8, <1>9 DEF Kinds

\* But for a claim, a step only takes jobs further, or ends them.
GoesOn(v) == job'[v].pc # "idle" =>
  /\ Busy(v) /\ job'[v].d = job[v].d /\ job'[v].attempts = job[v].attempts
  /\ job'[v].pc \in {"claimed", "prior", "send", "release"} => Unsent(v)

LEMMA WorkerGoesOn ==
  ASSUME NEW v \in Worker, NEW w \in Worker, Thinks(w) \/ Sends(w) \/ Writes(w)
  PROVE  GoesOn(v)
<1>1. CASE v = w
  <2>1. Busy(w)  BY DEF Thinks, Sends, Writes, Alone
  <2>2. CASE Thinks(w)  BY <1>1, <2>1, <2>2 DEF Thinks, Ends, Fails, From, GoesOn, Unsent
  <2>3. CASE Sends(w)  BY <1>1, <2>1, <2>3 DEF Sends, From, GoesOn, Unsent
  <2>4. CASE Writes(w)  BY <1>1, <2>1, <2>4 DEF Writes, Ends, Fails, From, GoesOn, Unsent
  <2>. QED  BY <2>2, <2>3, <2>4
<1>2. CASE v # w
  <2>1. job'[v] = job[v]  BY <1>2 DEF Thinks, Sends, Writes, Alone
  <2>. QED  BY <2>1 DEF GoesOn, Busy, At, Unsent
<1>. QED  BY <1>1, <1>2

LEMMA NoClaimGoesOn ==
  ASSUME NEW v \in Worker, Kinds, ~\E w \in Worker, d \in Delivery : Claimed(w, d)
  PROVE  GoesOn(v)
<1>1. ASSUME NEW d \in Delivery, LosesLease(d)
      PROVE  GoesOn(v)
  BY <1>1 DEF LosesLease, GoesOn, Busy, At, Unsent
<1>2. CASE Quiet \/ PurgeCluster
  <2>1. job'[v] = job[v]  BY <1>2 DEF Quiet, PurgeCluster
  <2>. QED  BY <2>1 DEF GoesOn, Busy, At, Unsent
<1>. QED  BY <1>1, <1>2, WorkerGoesOn DEF Kinds

LEMMA UniqueKept ==
  ASSUME OTypeOK, JobInv, RowInv, UniqueInv, Kinds
  PROVE  UniqueInv'
<1>. SUFFICES ASSUME NEW u \in Worker, NEW v \in Worker, u # v, Busy(u)', Busy(v)',
                     (job[u].d = job[v].d)', (job[u].attempts = job[v].attempts)'
              PROVE  (~IsFiring(job[u].d) /\ ~(Unsent(u) /\ Unsent(v)))'
  BY DEF UniqueInv
<1>0. job'[u].pc # "idle" /\ job'[v].pc # "idle"
      /\ job'[u].d = job'[v].d /\ job'[u].attempts = job'[v].attempts
  BY DEF Busy, At
<1>1. CASE GoesOn(u) /\ GoesOn(v)
  <2>1. /\ Busy(u) /\ job'[u].d = job[u].d /\ job'[u].attempts = job[u].attempts
        /\ Unsent(u)' => Unsent(u)
    BY <1>0, <1>1 DEF GoesOn, Unsent
  <2>2. /\ Busy(v) /\ job'[v].d = job[v].d /\ job'[v].attempts = job[v].attempts
        /\ Unsent(v)' => Unsent(v)
    BY <1>0, <1>1 DEF GoesOn, Unsent
  <2>3. ~IsFiring(job[u].d) /\ ~(Unsent(u) /\ Unsent(v))  BY <1>0, <2>1, <2>2 DEF UniqueInv
  <2>. QED  BY <2>1, <2>2, <2>3 DEF IsFiring
<1>2. CASE ~(GoesOn(u) /\ GoesOn(v))
  <2>1. PICK w \in Worker, d \in Delivery : Claimed(w, d)  BY <1>2, NoClaimGoesOn
  <2>2. \A x \in Worker \ {w} : job'[x] = job[x]  BY <2>1 DEF Claimed
  <2>3. \A x \in Worker : job'[x] = job[x] => GoesOn(x)  BY DEF GoesOn, Busy, At, Unsent
  <2>4. job'[w].d = d /\ job'[w].attempts = delivery[d].attempts + 1
    BY <1>2, <2>1, <2>2, <2>3 DEF Claimed
  <2>5. ASSUME NEW x \in Worker, x # w, x \in {u, v}
        PROVE  ~IsFiring(d) /\ job'[x].d = d /\ ~Unsent(x)'
    <3>1. job'[x] = job[x]  BY <2>2, <2>5
    <3>2. Busy(x) /\ job[x].d = d /\ job[x].attempts = delivery[d].attempts + 1
      BY <1>0, <1>2, <2>1, <2>2, <2>3, <2>4, <2>5, <3>1 DEF Busy, At
    <3>3. ~Purged  BY <2>1, NotPurged DEF Claimed
    <3>4. delivery[d].attempts \in Nat  BY Numbers
    <3>5. ~(Unsent(x) \/ IsFiring(d))  BY <3>2, <3>3, <3>4 DEF JobInv, JobSound
    <3>. QED  BY <3>1, <3>2, <3>5 DEF Unsent
  <2>6. w \in {u, v}  BY <1>2, <2>2, <2>3
  <2>7. job'[u].d = d /\ ~IsFiring(d) /\ ~(Unsent(u)' /\ Unsent(v)')
    BY <2>4, <2>5, <2>6
  <2>. QED  BY <2>7 DEF IsFiring
<1>. QED  BY <1>1, <1>2

LEMMA BaseInit == OInit => BaseInv
<1>. SUFFICES ASSUME OInit PROVE BaseInv
  OBVIOUS
<1>1. OTypeOK
  <2>1. MaxFaults \in 0..MaxFaults  BY OutboxAssumption
  <2>. QED  BY <2>1, IdleTyped DEF OInit, OTypeOK, At, Idle
<1>2. RowInv  BY DeliveryParts DEF OInit, RowInv, RowSound, NoRow, Purged
<1>3. ChannelInv  BY DEF OInit, ChannelInv
<1>4. \A w \in Worker : ~Busy(w)  BY DEF OInit, Busy, At, Idle
<1>. QED  BY <1>1, <1>2, <1>3, <1>4 DEF BaseInv, JobInv, JobSound, UniqueInv

LEMMA BaseNext == BaseInv /\ [ONext]_outboxVars => BaseInv' /\ (Kinds \/ UNCHANGED outboxVars)
<1>. SUFFICES ASSUME BaseInv, [ONext]_outboxVars
              PROVE  BaseInv' /\ (Kinds \/ UNCHANGED outboxVars)
  OBVIOUS
<1>1. CASE ONext
  <2>1. OTypeOK' /\ Kinds  BY <1>1, StepKinds DEF BaseInv
  <2>2. RowInv'  BY <2>1, RowKept DEF BaseInv
  <2>3. ChannelInv'  BY <2>1, ChannelKept DEF BaseInv
  <2>4. JobInv'  BY <2>1, JobKept DEF BaseInv
  <2>5. UniqueInv'  BY <2>1, UniqueKept DEF BaseInv
  <2>. QED  BY <2>1, <2>2, <2>3, <2>4, <2>5 DEF BaseInv
<1>2. CASE UNCHANGED outboxVars
  <2>. USE <1>2 DEF outboxVars
  <2>1. OTypeOK'  BY DEF BaseInv, OTypeOK, At
  <2>2. RowInv'  BY DEF BaseInv, RowInv, RowSound, Purged
  <2>3. ChannelInv'  BY DEF BaseInv, ChannelInv
  <2>4. JobInv'  BY DEF BaseInv, JobInv, JobSound, Busy, At, Unsent, Purged
  <2>5. UniqueInv'  BY DEF BaseInv, UniqueInv, Busy, At, Unsent
  <2>. QED  BY <2>1, <2>2, <2>3, <2>4, <2>5 DEF BaseInv
<1>. QED  BY <1>1, <1>2

\* Every variable keeps its type: a claim is always of a delivery, whatever crashes.
THEOREM OutboxTypes == OSpec => []OTypeOK
<1>1. OInit => BaseInv  BY BaseInit
<1>2. BaseInv /\ [ONext]_outboxVars => BaseInv'  BY BaseNext
<1>3. BaseInv => OTypeOK  BY DEF BaseInv
<1>. QED  BY <1>1, <1>2, <1>3, PTL DEF OSpec

------------------------------------------------------------------------------
(***************************************************************************)
(* A message is sent at most once under each number of its row's attempts, *)
(* and a number that was sent is never claimed again: a claim takes a new  *)
(* number, and gives one back only if it did not send.                     *)
(***************************************************************************)
LEMMA SpentFinite ==
  ASSUME OTypeOK, NEW d \in Delivery
  PROVE  IsFiniteSet(Spent(d)) /\ Cardinality(Spent(d)) \in Nat /\ Cardinality(Spent(d)) <= MaxAttempts
<1>1. MaxAttempts \in Nat  BY OutboxAssumption
<1>2. IsFiniteSet(1..MaxAttempts) /\ Cardinality(1..MaxAttempts) = MaxAttempts
  BY <1>1, FS_Interval
<1>3. Spent(d) \subseteq 1..MaxAttempts  BY DEF Spent
<1>. HIDE DEF Spent
<1>. QED  BY <1>1, <1>2, <1>3, FS_Subset, FS_CardinalityType

\* The numbers that stay sent, or lost, under a step.
LEMMA SpentGrows ==
  ASSUME OTypeOK, OTypeOK', NEW d \in Delivery,
         received[d] <= Cardinality(Spent(d)), received'[d] = received[d],
         Spent(d) \subseteq Spent(d)'
  PROVE  received'[d] <= Cardinality(Spent(d)')
<1>. DEFINE S == Spent(d)
            T == Spent(d)'
<1>1. IsFiniteSet(S) /\ Cardinality(S) \in Nat  BY SpentFinite
<1>2. T \subseteq 1..MaxAttempts  BY DEF Spent
<1>3. IsFiniteSet(T)
  <2>1. IsFiniteSet(1..MaxAttempts)  BY FS_Interval, OutboxAssumption
  <2>. HIDE DEF T
  <2>. QED  BY <1>2, <2>1, FS_Subset
<1>4. S \subseteq T  OBVIOUS
<1>5. received[d] <= Cardinality(S) /\ received[d] \in Nat  BY Numbers
<1>. HIDE DEF S, T
<1>6. Cardinality(S) <= Cardinality(T) /\ Cardinality(T) \in Nat
  BY <1>1, <1>3, <1>4, FS_Subset, FS_CardinalityType
<1>7. received'[d] <= Cardinality(T)  BY <1>1, <1>5, <1>6
<1>. QED  BY <1>7 DEF T

\* A number is spent after the step if it was before, the row still counts it, and
\* nobody claims it anew.
LEMMA SpentStays ==
  ASSUME OTypeOK, NEW d \in Delivery, NEW n \in Spent(d),
         Purged' \/ n <= delivery'[d].attempts,
         \A v \in Worker : Unsent(v)' /\ job'[v].d = d /\ job'[v].attempts = n =>
                           Unsent(v) /\ job[v].d = d /\ job[v].attempts = n
  PROVE  n \in Spent(d)'
BY DEF Spent

LEMMA UnsentGoesOn ==
  ASSUME NEW v \in Worker, GoesOn(v), Unsent(v)'
  PROVE  Unsent(v) /\ job'[v].d = job[v].d /\ job'[v].attempts = job[v].attempts
BY DEF GoesOn, Unsent

LEMMA CountKept ==
  ASSUME BaseInv, BaseInv', CountInv, Kinds
  PROVE  CountInv'
<1>. SUFFICES ASSUME NEW d \in Delivery PROVE received'[d] <= Cardinality(Spent(d)')
  BY DEF CountInv
<1>0. /\ OTypeOK /\ OTypeOK' /\ RowInv /\ JobInv /\ UniqueInv
      /\ received[d] <= Cardinality(Spent(d)) /\ delivery[d].attempts \in Nat
      /\ \A n \in Spent(d) : n \in 1..MaxAttempts /\ (Purged \/ n <= delivery[d].attempts)
  BY Numbers DEF BaseInv, CountInv, Spent
<1>1. CASE Quiet \/ PurgeCluster \/ \E e \in Delivery : LosesLease(e)
  <2>2. \A v \in Worker : Unsent(v)' =>
          Unsent(v) /\ job'[v].d = job[v].d /\ job'[v].attempts = job[v].attempts
    <3>1. CASE Quiet \/ PurgeCluster
      <4>1. job' = job  BY <3>1 DEF Quiet, PurgeCluster
      <4>. QED  BY <4>1 DEF Unsent
    <3>2. CASE \E e \in Delivery : LosesLease(e)
      BY <3>2 DEF LosesLease, Unsent
    <3>. QED  BY <1>1, <3>1, <3>2
  <2>3. received'[d] = received[d]  BY <1>1 DEF Quiet, PurgeCluster, LosesLease
  <2>4. Purged' \/ (~Purged /\ delivery'[d].attempts = delivery[d].attempts)
    <3>1. CASE Quiet
      <4>1. Kept(d) \/ Born(d)  BY <3>1 DEF Quiet
      <4>2. delivery'[d].attempts = delivery[d].attempts
        BY <1>0, <4>1 DEF Kept, Born, RowInv, RowSound
      <4>. QED  BY <3>1, <4>2 DEF Quiet
    <3>2. CASE PurgeCluster  BY <3>2 DEF PurgeCluster, Purged
    <3>3. ASSUME NEW e \in Delivery, LosesLease(e)
          PROVE  (Purged => Purged') /\ delivery'[d].attempts = delivery[d].attempts
      BY <3>3 DEF LosesLease, Purged, sourceVars
    <3>. QED  BY <1>1, <3>1, <3>2, <3>3
  <2>5. ASSUME NEW n \in Spent(d)
        PROVE  n \in Spent(d)'
    <3>1. Purged' \/ n <= delivery'[d].attempts  BY <1>0, <2>4
    <3>. QED  BY <1>0, <2>2, <3>1, SpentStays
  <2>. QED  BY <1>0, <2>3, <2>5, SpentGrows
<1>2. ASSUME NEW w \in Worker, NEW e \in Delivery, Claimed(w, e)
      PROVE  received'[d] <= Cardinality(Spent(d)')
  <2>1. received' = received /\ (Purged' <=> Purged) /\ ~Purged
    BY <1>0, <1>2, NotPurged DEF Claimed, sourceVars, Purged
  <2>2. delivery'[d].attempts = delivery[d].attempts \/ delivery'[d].attempts = delivery[d].attempts + 1
    BY <1>2 DEF Claimed
  <2>3. ASSUME NEW n \in Spent(d)
        PROVE  n \in Spent(d)'
    <3>1. n \in Nat /\ n <= delivery[d].attempts  BY <1>0, <2>1, OutboxAssumption
    <3>2. n <= delivery'[d].attempts  BY <1>0, <2>2, <3>1
    <3>3. ASSUME NEW v \in Worker, Unsent(v)', job'[v].d = d, job'[v].attempts = n
          PROVE  Unsent(v) /\ job[v].d = d /\ job[v].attempts = n
      <4>1. CASE job'[v] = job[v]  BY <3>3, <4>1 DEF Unsent
      <4>2. CASE job'[v] # job[v]
        <5>1. job'[v].d = e /\ job'[v].attempts = delivery[e].attempts + 1
          BY <1>2, <4>2 DEF Claimed
        <5>2. n = delivery[d].attempts + 1  BY <3>3, <5>1
        <5>. QED  BY <1>0, <3>1, <5>2
      <4>. QED  BY <4>1, <4>2
    <3>. QED  BY <1>0, <3>2, <3>3, SpentStays
  <2>. QED  BY <1>0, <2>1, <2>3, SpentGrows
<1>3. ASSUME NEW w \in Worker, Thinks(w) \/ Sends(w) \/ Writes(w)
      PROVE  received'[d] <= Cardinality(Spent(d)')
  <2>1. Alone(w) /\ (Purged' <=> Purged) /\ Busy(w)
    BY <1>3 DEF Thinks, Sends, Writes, Alone, sourceVars, Purged
  <2>2. job[w].d \in Delivery /\ job[w].attempts \in Nat  BY <1>0, <2>1, Numbers
  <2>3. \A v \in Worker : Unsent(v)' =>
          Unsent(v) /\ job'[v].d = job[v].d /\ job'[v].attempts = job[v].attempts
    BY <1>3, WorkerGoesOn, UnsentGoesOn
  <2>4. CASE Writes(w)
    <3>1. received' = received  BY <2>4 DEF Writes
    <3>2. ASSUME NEW n \in Spent(d)
          PROVE  n \in Spent(d)'
      <4>1. n \in Nat /\ (Purged \/ n <= delivery[d].attempts)  BY <1>0, OutboxAssumption
      <4>2. CASE delivery'[d].attempts = delivery[d].attempts
        BY <1>0, <2>1, <2>3, <4>1, <4>2, SpentStays
      <4>3. CASE delivery'[d].attempts # delivery[d].attempts
        <5>1. Wrote(w) /\ d = job[w].d /\ job[w].pc = "release"
          BY <2>4, <4>3 DEF Writes, Wrote
        <5>2. delivery'[d].attempts = delivery[d].attempts - 1
              /\ delivery[d].attempts = job[w].attempts
          BY <5>1 DEF Wrote, StillMine
        <5>3. n # job[w].attempts  BY <5>1 DEF Spent, Unsent
        <5>4. Purged' \/ n <= delivery'[d].attempts  BY <1>0, <2>1, <4>1, <5>2, <5>3
        <5>. QED  BY <1>0, <2>3, <5>4, SpentStays
      <4>. QED  BY <4>2, <4>3
    <3>. QED  BY <1>0, <3>1, <3>2, SpentGrows
  <2>5. CASE ~Writes(w)
    <3>1. delivery' = delivery  BY <1>3, <2>5 DEF Thinks, Sends
    <3>2. Spent(d) \subseteq Spent(d)'
      <4>. SUFFICES ASSUME NEW n \in Spent(d) PROVE n \in Spent(d)'
        OBVIOUS
      <4>. QED  BY <1>0, <2>1, <2>3, <3>1, SpentStays
    <3>3. CASE received'[d] = received[d]  BY <1>0, <3>2, <3>3, SpentGrows
    <3>4. CASE received'[d] # received[d]
      <4>. DEFINE m == job[w].attempts
                  S == Spent(d)
                  T == Spent(d)'
      <4>1. Sends(w) /\ d = job[w].d /\ received'[d] = received[d] + 1
        BY <1>3, <2>5, <3>4 DEF Thinks, Sends
      <4>2. At(w, "send") /\ job'[w].pc = "finish"  BY <4>1 DEF Sends, From, At
      <4>3. m \in 1..MaxAttempts /\ (Purged \/ m <= delivery[d].attempts)
        <5>1. Unsent(w)  BY <4>2 DEF Unsent, At
        <5>. QED  BY <1>0, <2>1, <2>2, <4>1, <4>2, <5>1, OutboxAssumption DEF JobInv, JobSound, At
      <4>4. m \notin S  BY <4>1, <4>2 DEF Spent, Unsent, At
      <4>5. m \in T
        <5>1. ASSUME NEW v \in Worker, Unsent(v)', job'[v].d = d, job'[v].attempts = m
              PROVE  FALSE
          <6>1. v # w  BY <4>2, <5>1 DEF Unsent
          <6>2. Unsent(v) /\ job[v].d = d /\ job[v].attempts = m  BY <2>3, <5>1
          <6>3. Unsent(w) /\ Busy(v)  BY <4>2, <6>2 DEF Unsent, Busy, At
          <6>. QED  BY <1>0, <2>1, <4>1, <6>1, <6>2, <6>3 DEF UniqueInv
        <5>. QED  BY <2>1, <3>1, <4>3, <5>1 DEF Spent
      <4>6. S \union {m} \subseteq T  BY <3>2, <4>5
      <4>7. IsFiniteSet(T) /\ IsFiniteSet(S)
        <5>1. T \subseteq 1..MaxAttempts  BY DEF Spent
        <5>2. IsFiniteSet(1..MaxAttempts)  BY FS_Interval, OutboxAssumption
        <5>3. IsFiniteSet(S)  BY <1>0, SpentFinite
        <5>. HIDE DEF T, S
        <5>. QED  BY <5>1, <5>2, <5>3, FS_Subset
      <4>8. received[d] <= Cardinality(S) /\ received[d] \in Nat  BY <1>0, Numbers
      <4>. HIDE DEF S, T, m
      <4>9. Cardinality(S \union {m}) = Cardinality(S) + 1 /\ IsFiniteSet(S \union {m})
        BY <4>4, <4>7, FS_AddElement
      <4>10. Cardinality(S) + 1 <= Cardinality(T) /\ Cardinality(T) \in Nat /\ Cardinality(S) \in Nat
        BY <4>6, <4>7, <4>9, FS_Subset, FS_CardinalityType
      <4>11. received'[d] <= Cardinality(T)  BY <4>1, <4>8, <4>10
      <4>. QED  BY <4>11 DEF T
    <3>. QED  BY <3>3, <3>4
  <2>. QED  BY <2>4, <2>5
<1>. QED  BY <1>1, <1>2, <1>3 DEF Kinds

LEMMA CountInit == OInit => CountInv
<1>. SUFFICES ASSUME OInit, NEW d \in Delivery PROVE received[d] <= Cardinality(Spent(d))
  BY DEF CountInv
<1>1. OTypeOK  BY BaseInit DEF BaseInv
<1>2. received[d] = 0  BY DEF OInit
<1>. QED  BY <1>1, <1>2, SpentFinite

\* The invariants that are proved relative to BaseInv do not change in a stuttering step.
LEMMA CountStutter == CountInv /\ UNCHANGED outboxVars => CountInv'
<1>. SUFFICES ASSUME CountInv, UNCHANGED outboxVars, NEW d \in Delivery
              PROVE  received'[d] <= Cardinality(Spent(d)')
  BY DEF CountInv
<1>1. Spent(d)' = Spent(d)  BY DEF outboxVars, Spent, Purged, Unsent
<1>. QED  BY <1>1 DEF CountInv, outboxVars

\* "A five-attempt limit": no message reaches its channel more than MaxAttempts times.
THEOREM SendsBounded == OSpec => []AtMostMaxSends
<1>1. OInit => BaseInv /\ CountInv  BY BaseInit, CountInit
<1>2. BaseInv /\ CountInv /\ [ONext]_outboxVars => (BaseInv /\ CountInv)'
  BY BaseNext, CountKept, CountStutter
<1>3. BaseInv /\ CountInv => AtMostMaxSends
  <2>. SUFFICES ASSUME BaseInv, CountInv, NEW d \in Delivery PROVE received[d] <= MaxAttempts
    BY DEF AtMostMaxSends
  <2>1. OTypeOK /\ received[d] <= Cardinality(Spent(d)) /\ received[d] \in Nat /\ MaxAttempts \in Nat
    BY Numbers DEF BaseInv, CountInv
  <2>2. Cardinality(Spent(d)) \in Nat /\ Cardinality(Spent(d)) <= MaxAttempts  BY <2>1, SpentFinite
  <2>. QED  BY <2>1, <2>2
<1>. QED  BY <1>1, <1>2, <1>3, PTL DEF OSpec

------------------------------------------------------------------------------
(***************************************************************************)
(* A recovery is sent only once its firing message is recorded as sent,    *)
(* and that row is final.                                                  *)
(***************************************************************************)
LEMMA SentIsFinal ==
  ASSUME BaseInv, Kinds, NEW d \in Delivery, delivery[d].status = "sent", ~Purged'
  PROVE  delivery'[d].status = "sent" /\ ~Purged
<1>1. OTypeOK /\ RowInv  BY DEF BaseInv
<1>2. ~Due(d) /\ ~Purged  BY <1>1, NotPurged DEF Due, Pending, LeaseEnded
<1>3. CASE Quiet  BY <1>3 DEF Quiet, Kept, Born
<1>4. ~PurgeCluster  BY DEF PurgeCluster, Purged
<1>5. ASSUME NEW w \in Worker, (\E e \in Delivery : Claimed(w, e)) \/ Thinks(w) \/ Sends(w) \/ Writes(w)
      PROVE  delivery'[d] = delivery[d]
  <2>1. CASE Writes(w)
    <3>1. Wrote(w) => d # job[w].d  BY DEF Wrote, StillMine
    <3>. QED  BY <2>1, <3>1 DEF Writes, Wrote
  <2>2. CASE Thinks(w) \/ Sends(w)  BY <2>2 DEF Thinks, Sends
  <2>3. CASE \E e \in Delivery : Claimed(w, e)  BY <1>2, <2>3 DEF Claimed
  <2>. QED  BY <1>5, <2>1, <2>2, <2>3
<1>6. ASSUME NEW e \in Delivery, LosesLease(e)
      PROVE  delivery'[d] = delivery[d]
  BY <1>6 DEF LosesLease
<1>. QED  BY <1>2, <1>3, <1>4, <1>5, <1>6 DEF Kinds

LEMMA ReceivedGrows ==
  ASSUME BaseInv, Kinds, NEW d \in Delivery
  PROVE  received'[d] >= received[d] /\ received[d] \in Nat /\ received'[d] \in Nat
<1>1. received[d] \in Nat  BY Numbers DEF BaseInv
<1>2. received'[d] = received[d] \/ received'[d] = received[d] + 1
  BY DEF Kinds, Quiet, PurgeCluster, Claimed, Thinks, Sends, Writes, LosesLease
<1>. QED  BY <1>1, <1>2

\* A recovery that goes out now was held back until its firing message was sent.
LEMMA RecoveredBefore ==
  ASSUME BaseInv, Kinds, NEW d \in Delivery, ~IsFiring(d), Recovered(d)'
  PROVE  Recovered(d) \/ (~Purged /\ received[Firing(d)] > 0 /\ delivery[Firing(d)].status = "sent")
<1>1. CASE \E w \in Worker : Sends(w) /\ job[w].d = d
  BY <1>1 DEF Sends, From, Recovered, At
<1>2. CASE \E w \in Worker : Thinks(w) /\ job[w].d = d /\ delivery[Firing(d)].status = "sent"
  <2>1. Firing(d) \in Delivery /\ OTypeOK /\ RowInv  BY DeliveryParts DEF BaseInv
  <2>2. ~Purged /\ received[Firing(d)] > 0  BY <1>2, <2>1 DEF RowInv, RowSound
  <2>. QED  BY <1>2, <2>2
<1>3. ASSUME ~\E w \in Worker : Sends(w) /\ job[w].d = d
      PROVE  received'[d] = received[d]
  BY <1>3 DEF Kinds, Quiet, PurgeCluster, Claimed, Thinks, Sends, Writes, LosesLease
<1>4. ASSUME NEW v \in Worker, job'[v].pc = "send", job'[v].d = d
      PROVE  \/ job[v].pc = "send" /\ job[v].d = d
             \/ Thinks(v) /\ job[v].d = d /\ delivery[Firing(d)].status = "sent"
  <2>1. CASE job'[v] = job[v]  BY <1>4, <2>1
  <2>2. CASE Quiet \/ PurgeCluster
    <3>1. job'[v] = job[v]  BY <2>2 DEF Quiet, PurgeCluster
    <3>. QED  BY <2>1, <3>1
  <2>3. ASSUME NEW e \in Delivery, LosesLease(e)
        PROVE  job[v].pc = "send" /\ job[v].d = d
    BY <1>4, <2>3 DEF LosesLease
  <2>4. ASSUME NEW w \in Worker, (\E e \in Delivery : Claimed(w, e)) \/ Thinks(w) \/ Sends(w) \/ Writes(w),
               job'[v] # job[v]
        PROVE  Thinks(v) /\ job[v].d = d /\ delivery[Firing(d)].status = "sent"
    <3>1. v = w  BY <2>4 DEF Claimed, Thinks, Sends, Writes, Alone
    <3>2. ~\E e \in Delivery : Claimed(w, e)  BY <1>4, <2>4, <3>1 DEF Claimed
    <3>3. ~Sends(w)  BY <1>4, <3>1 DEF Sends, From
    <3>4. ~Writes(w)  BY <1>4, <3>1 DEF Writes, Ends, Fails, From
    <3>5. Thinks(v)  BY <2>4, <3>1, <3>2, <3>3, <3>4
    <3>6. job[v].d = d  BY <1>4, <3>5 DEF Thinks, Ends, Fails, From
    <3>. QED  BY <1>4, <3>5, <3>6 DEF Thinks, Ends, Fails, From
  <2>. QED  BY <2>1, <2>2, <2>3, <2>4 DEF Kinds
<1>. QED  BY <1>1, <1>2, <1>3, <1>4 DEF Recovered, At

LEMMA RecoveryKept ==
  ASSUME BaseInv, RecoveryInv, Kinds
  PROVE  RecoveryInv'
<1>. SUFFICES ASSUME NEW d \in Delivery, ~IsFiring(d), Recovered(d)'
              PROVE  received'[Firing(d)] > 0 /\ (~Purged' => delivery'[Firing(d)].status = "sent")
  BY DEF RecoveryInv, IsFiring, Firing
<1>1. Firing(d) \in Delivery  BY DeliveryParts
<1>2. received[Firing(d)] > 0 /\ (~Purged => delivery[Firing(d)].status = "sent")
  BY RecoveredBefore DEF RecoveryInv
<1>3. received'[Firing(d)] > 0  BY <1>1, <1>2, ReceivedGrows
<1>4. ~Purged' => ~Purged
  BY DEF Kinds, Quiet, PurgeCluster, Claimed, Thinks, Sends, Writes, LosesLease, Purged, sourceVars
<1>. QED  BY <1>1, <1>2, <1>3, <1>4, SentIsFinal

\* "Do not send recovery ahead of an unresolved firing delivery": whoever got the
\* recovery got the firing message before.
THEOREM RecoveryIsLast == OSpec => []RecoveryAfterFiring
<1>1. OInit => BaseInv /\ RecoveryInv
  <2>1. OInit => RecoveryInv  BY DEF OInit, RecoveryInv, Recovered, At, Idle
  <2>. QED  BY <2>1, BaseInit
<1>2. BaseInv /\ RecoveryInv /\ [ONext]_outboxVars => (BaseInv /\ RecoveryInv)'
  <2>1. RecoveryInv /\ UNCHANGED outboxVars => RecoveryInv'
    BY DEF outboxVars, RecoveryInv, Recovered, At, Purged
  <2>. QED  BY <2>1, BaseNext, RecoveryKept
<1>3. BaseInv /\ RecoveryInv => RecoveryAfterFiring
  <2>. SUFFICES ASSUME RecoveryInv, NEW a \in Alert, NEW c \in Channel,
                       received[<<a, c, "resolved">>] > 0
                PROVE  /\ received[<<a, c, "firing">>] > 0
                       /\ cluster # "purged" => delivery[<<a, c, "firing">>].status = "sent"
    BY DEF RecoveryAfterFiring
  <2>. DEFINE d == <<a, c, "resolved">>
  <2>1. d \in Delivery /\ ~IsFiring(d) /\ Firing(d) = <<a, c, "firing">>  BY Triples
  <2>2. Recovered(d)  BY DEF Recovered
  <2>. HIDE DEF d
  <2>. QED  BY <2>1, <2>2 DEF RecoveryInv, Purged
<1>. QED  BY <1>1, <1>2, <1>3, PTL DEF OSpec

------------------------------------------------------------------------------
(***************************************************************************)
(* The claim of a firing message: its number is never given back, so that  *)
(* it names one worker, which has the row until its lease ends.            *)
(***************************************************************************)
LEMMA HolderKept ==
  ASSUME BaseInv, HolderInv, Kinds
  PROVE  HolderInv'
<1>. SUFFICES ASSUME NEW v \in Worker, Busy(v)', IsFiring(job'[v].d)
              PROVE  HolderSound(v)'
  BY DEF HolderInv, HolderSound, IsFiring
<1>0. OTypeOK /\ RowInv /\ JobInv /\ UniqueInv /\ HolderSound(v) /\ JobSound(v)
      /\ job[v].attempts \in Nat /\ \A e \in Delivery : delivery[e].attempts \in Nat
  BY Numbers DEF BaseInv, HolderInv, JobInv
<1>1. ASSUME GoesOn(v)
      PROVE  Busy(v) /\ job'[v].d = job[v].d /\ job'[v].attempts = job[v].attempts
             /\ IsFiring(job[v].d) /\ job[v].d \in Delivery
  <2>1. Busy(v) /\ job'[v].d = job[v].d /\ job'[v].attempts = job[v].attempts
    BY <1>1 DEF GoesOn, Busy, At
  <2>. QED  BY <1>0, <2>1, Numbers
<1>2. CASE Quiet \/ PurgeCluster
  <2>1. job' = job  BY <1>2 DEF Quiet, PurgeCluster
  <2>2. GoesOn(v)  BY <2>1 DEF GoesOn, Busy, At, Unsent
  <2>3. CASE Quiet
    <3>1. (Purged' <=> Purged) /\ (Kept(job[v].d) \/ Born(job[v].d))  BY <1>1, <2>2, <2>3 DEF Quiet
    <3>2. ~Born(job[v].d)  BY <1>0, <1>1, <2>2 DEF Born, JobSound
    <3>. QED  BY <1>0, <1>1, <2>1, <2>2, <3>1, <3>2 DEF Kept, HolderSound
  <2>4. CASE PurgeCluster
    <3>1. Purged' /\ delivery'[job[v].d].status = "absent"
      BY <1>1, <2>2, <2>4 DEF PurgeCluster, Purged, NoRow
    <3>. QED  BY <2>1, <3>1 DEF HolderSound
  <2>. QED  BY <1>2, <2>3, <2>4
<1>3. ASSUME NEW w \in Worker, NEW e \in Delivery, Claimed(w, e)
      PROVE  HolderSound(v)'
  <2>1. (Purged' <=> Purged) /\ ~Purged
    BY <1>0, <1>3, NotPurged DEF Claimed, sourceVars, Purged
  <2>2. CASE job'[v] # job[v]
    BY <1>3, <2>2 DEF Claimed, HolderSound
  <2>3. CASE job'[v] = job[v]
    <3>1. Busy(v) /\ IsFiring(job[v].d) /\ job[v].d \in Delivery
      <4>1. GoesOn(v)  BY <2>3 DEF GoesOn, Busy, At, Unsent
      <4>. QED  BY <1>1, <4>1
    <3>2. CASE job[v].d = e
      <4>1. job[v].lost
        BY <1>0, <1>3, <2>1, <3>1, <3>2 DEF Claimed, Due, Pending, LeaseEnded, HolderSound
      <4>2. job[v].attempts <= delivery[e].attempts  BY <1>0, <2>1, <3>1, <3>2 DEF JobSound
      <4>3. delivery'[e].attempts = delivery[e].attempts + 1  BY <1>3 DEF Claimed
      <4>4. delivery'[e].attempts # job[v].attempts  BY <1>0, <4>2, <4>3
      <4>. QED  BY <2>3, <3>2, <4>1, <4>4 DEF HolderSound
    <3>3. CASE job[v].d # e
      <4>1. delivery'[job[v].d] = delivery[job[v].d]  BY <1>3, <3>1, <3>3 DEF Claimed
      <4>. QED  BY <1>0, <2>1, <2>3, <3>1, <4>1 DEF HolderSound
    <3>. QED  BY <3>2, <3>3
  <2>. QED  BY <2>2, <2>3
<1>4. ASSUME NEW w \in Worker, Thinks(w) \/ Sends(w)
      PROVE  HolderSound(v)'
  <2>1. GoesOn(v)  BY <1>4, WorkerGoesOn
  <2>2. delivery' = delivery /\ (Purged' <=> Purged)  BY <1>4 DEF Thinks, Sends, sourceVars, Purged
  <2>3. job'[v].lost = job[v].lost
    <3>1. ~(v = w /\ Ends(w))  BY DEF Busy, At, Ends
    <3>. QED  BY <1>4, <3>1 DEF Thinks, Sends, Alone
  <2>. QED  BY <1>0, <1>1, <2>1, <2>2, <2>3 DEF HolderSound
<1>5. ASSUME NEW w \in Worker, Writes(w)
      PROVE  HolderSound(v)'
  <2>. DEFINE d == job[v].d
  <2>1. GoesOn(v)  BY <1>5, WorkerGoesOn
  <2>2. (Purged' <=> Purged) /\ Busy(w) /\ Alone(w)  BY <1>5 DEF Writes, Alone, sourceVars, Purged
  <2>3. CASE v = w
    <3>1. ~Ends(w)  BY <2>3 DEF Busy, At, Ends
    <3>2. CASE delivery' = delivery /\ job'[w].lost = job[w].lost
      BY <1>0, <1>1, <2>1, <2>2, <2>3, <3>2 DEF HolderSound
    <3>3. CASE job'[w].lost /\ Wrote(w)
      BY <1>1, <2>1, <2>3, <3>3 DEF HolderSound, Wrote
    <3>4. CASE job'[w].lost /\ delivery' = delivery /\ ~StillMine(w)
      BY <1>1, <2>1, <2>3, <3>4 DEF HolderSound, StillMine
    <3>. QED  BY <1>5, <3>1, <3>2, <3>3, <3>4 DEF Writes
  <2>4. CASE v # w
    <3>1. job'[v] = job[v]  BY <2>2, <2>4 DEF Alone
    <3>2. CASE delivery'[d] = delivery[d]
      BY <1>0, <1>1, <2>1, <2>2, <3>1, <3>2 DEF HolderSound
    <3>3. CASE delivery'[d] # delivery[d]
      <4>1. Wrote(w) /\ job[w].d = d /\ StillMine(w)
        BY <1>1, <1>5, <2>1, <3>3 DEF Writes, Wrote
      <4>2. ~delivery'[d].lease  BY <4>1 DEF Wrote
      <4>3. ~Purged /\ delivery[d].attempts = job[w].attempts
        BY <1>0, <1>1, <2>1, <4>1, NotPurged DEF StillMine
      <4>4. job[v].attempts # job[w].attempts
        BY <1>0, <1>1, <2>1, <2>2, <2>4, <4>1 DEF UniqueInv
      <4>5. job[v].lost  BY <1>0, <1>1, <2>1, <4>3, <4>4 DEF HolderSound
      <4>. QED  BY <3>1, <4>2, <4>5 DEF HolderSound
    <3>. QED  BY <3>2, <3>3
  <2>. QED  BY <2>3, <2>4
<1>6. ASSUME NEW e \in Delivery, LosesLease(e)
      PROVE  HolderSound(v)'
  <2>1. (Purged' <=> Purged)  BY <1>6 DEF LosesLease, sourceVars, Purged
  <2>2. /\ job'[v].pc = job[v].pc /\ job'[v].d = job[v].d /\ job'[v].attempts = job[v].attempts
        /\ job[v].lost => job'[v].lost
    BY <1>6 DEF LosesLease
  <2>3. Busy(v) /\ IsFiring(job[v].d) /\ job[v].d \in Delivery
    <3>1. GoesOn(v)  BY <2>2 DEF GoesOn, Busy, At, Unsent
    <3>. QED  BY <1>1, <3>1
  <2>4. CASE job[v].d = e
    <3>1. ~delivery'[e].lease /\ (job[v].attempts = delivery[e].attempts => job'[v].lost)
      BY <1>6, <2>4 DEF LosesLease
    <3>2. job'[v].lost \/ Purged
      BY <1>0, <2>2, <2>3, <2>4, <3>1 DEF HolderSound
    <3>. QED  BY <2>1, <2>2, <2>4, <3>1, <3>2 DEF HolderSound
  <2>5. CASE job[v].d # e
    <3>1. delivery'[job[v].d] = delivery[job[v].d] /\ job'[v].lost = job[v].lost
      BY <1>6, <2>3, <2>5 DEF LosesLease
    <3>. QED  BY <1>0, <2>1, <2>2, <2>3, <3>1 DEF HolderSound
  <2>. QED  BY <2>4, <2>5
<1>. QED  BY <1>2, <1>3, <1>4, <1>5, <1>6 DEF Kinds

------------------------------------------------------------------------------
(***************************************************************************)
(* A firing message that goes out after its recovery comes from a worker   *)
(* whose lease has ended.                                                  *)
(***************************************************************************)
LEMMA StillSending ==
  ASSUME BaseInv, Kinds, NEW v \in Worker, job'[v].pc \in {"claimed", "send"}, IsFiring(job'[v].d)
  PROVE  \/ \E w \in Worker, e \in Delivery : Claimed(w, e) /\ v = w /\ e = job'[v].d
         \/ /\ job[v].pc \in {"claimed", "send"} /\ job[v].d = job'[v].d
            /\ job[v].lost => job'[v].lost
<1>1. CASE job'[v] = job[v]  BY <1>1
<1>2. CASE Quiet \/ PurgeCluster
  <2>1. job'[v] = job[v]  BY <1>2 DEF Quiet, PurgeCluster
  <2>. QED  BY <1>1, <2>1
<1>3. ASSUME NEW e \in Delivery, LosesLease(e)
      PROVE  job[v].pc \in {"claimed", "send"} /\ job[v].d = job'[v].d /\ (job[v].lost => job'[v].lost)
  BY <1>3 DEF LosesLease
<1>4. ASSUME NEW w \in Worker, NEW e \in Delivery, Claimed(w, e), job'[v] # job[v]
      PROVE  v = w /\ e = job'[v].d
  BY <1>4 DEF Claimed
<1>5. ASSUME NEW w \in Worker, Thinks(w) \/ Sends(w) \/ Writes(w), job'[v] # job[v]
      PROVE  job[v].pc \in {"claimed", "send"} /\ job[v].d = job'[v].d /\ (job[v].lost => job'[v].lost)
  <2>1. v = w  BY <1>5 DEF Thinks, Sends, Writes, Alone
  <2>2. ~Sends(w) /\ ~Writes(w)  BY <2>1 DEF Sends, Writes, Ends, Fails, From
  <2>3. Thinks(v) /\ ~Ends(v)  BY <1>5, <2>1, <2>2 DEF Ends
  <2>4. job[v].d = job'[v].d /\ job'[v].lost = job[v].lost /\ job[v].pc \in {"claimed", "prior"}
    BY <2>3 DEF Thinks, Fails, From
  <2>5. job[v].pc # "prior"  BY <2>3, <2>4 DEF BaseInv, JobInv, JobSound, Thinks, Alone
  <2>. QED  BY <2>4, <2>5
<1>. QED  BY <1>1, <1>2, <1>3, <1>4, <1>5 DEF Kinds

LEMMA LateKept ==
  ASSUME BaseInv, RecoveryInv, HolderInv, LateInv, Kinds
  PROVE  LateInv'
<1>. SUFFICES ASSUME NEW d \in Delivery, NEW v \in Worker, ~IsFiring(d), Recovered(d)',
                     job'[v].pc \in {"claimed", "send"}, job'[v].d = Firing(d)
              PROVE  job'[v].lost
  BY DEF LateInv, IsFiring, Firing
<1>1. Firing(d) \in Delivery /\ IsFiring(Firing(d)) /\ OTypeOK /\ RowInv  BY DeliveryParts DEF BaseInv
<1>2. Purged \/ delivery[Firing(d)].status = "sent"
  BY RecoveredBefore DEF RecoveryInv
<1>3. ~Due(Firing(d))
  BY <1>1, <1>2, NotPurged DEF Due, Pending, LeaseEnded
<1>4. ~\E w \in Worker, e \in Delivery : Claimed(w, e) /\ v = w /\ e = job'[v].d
  BY <1>3 DEF Claimed
<1>5. job[v].pc \in {"claimed", "send"} /\ job[v].d = Firing(d) /\ (job[v].lost => job'[v].lost)
  BY <1>1, <1>4, StillSending
<1>6. job[v].lost
  <2>1. CASE Recovered(d)  BY <1>5, <2>1 DEF LateInv
  <2>2. CASE ~Recovered(d)
    <3>1. ~Purged /\ delivery[Firing(d)].status = "sent"  BY <2>2, RecoveredBefore
    <3>2. Busy(v)  BY <1>5 DEF Busy, At
    <3>. QED  BY <1>1, <1>5, <3>1, <3>2 DEF HolderInv, HolderSound
  <2>. QED  BY <2>1, <2>2
<1>. QED  BY <1>5, <1>6

ClaimInv == BaseInv /\ RecoveryInv /\ HolderInv /\ LateInv

LEMMA ClaimInit == OInit => ClaimInv
<1>. SUFFICES ASSUME OInit PROVE ClaimInv
  OBVIOUS
<1>1. BaseInv  BY BaseInit
<1>2. \A w \in Worker : job[w].pc = "idle"  BY DEF OInit, Idle
<1>3. RecoveryInv  BY DEF OInit, RecoveryInv, Recovered, At, Idle
<1>. QED  BY <1>1, <1>2, <1>3 DEF ClaimInv, HolderInv, HolderSound, LateInv, Busy, At

LEMMA ClaimNext == ClaimInv /\ [ONext]_outboxVars => ClaimInv'
<1>. SUFFICES ASSUME ClaimInv, [ONext]_outboxVars PROVE ClaimInv'
  OBVIOUS
<1>1. BaseInv' /\ (Kinds \/ UNCHANGED outboxVars)  BY BaseNext DEF ClaimInv
<1>2. CASE Kinds  BY <1>1, <1>2, RecoveryKept, HolderKept, LateKept DEF ClaimInv
<1>3. CASE UNCHANGED outboxVars
  <2>. USE <1>3 DEF outboxVars
  <2>1. RecoveryInv'  BY DEF ClaimInv, RecoveryInv, Recovered, At, Purged
  <2>2. HolderInv'  BY DEF ClaimInv, HolderInv, HolderSound, Busy, At, Purged
  <2>3. LateInv'  BY DEF ClaimInv, LateInv, Recovered, At
  <2>. QED  BY <1>1, <2>1, <2>2, <2>3 DEF ClaimInv
<1>. QED  BY <1>1, <1>2, <1>3

\* A firing message reaches its channel after its recovery only from a worker that
\* outlived its lease between its checks and its send.
THEOREM LateFiringOutlived == OSpec => NoLateFiring
<1>. DEFINE Late == \A a \in Alert, c \in Channel :
       received'[<<a, c, "firing">>] > received[<<a, c, "firing">>] /\ received[<<a, c, "resolved">>] > 0
       => \E w \in Worker : At(w, "send") /\ job[w].d = <<a, c, "firing">> /\ job[w].lost
<1>1. ClaimInv /\ [ONext]_outboxVars => [Late]_outboxVars
  <2>. SUFFICES ASSUME ClaimInv, [ONext]_outboxVars, NEW a \in Alert, NEW c \in Channel,
                       received'[<<a, c, "firing">>] > received[<<a, c, "firing">>],
                       received[<<a, c, "resolved">>] > 0,
                       ~UNCHANGED outboxVars
                PROVE  \E w \in Worker : At(w, "send") /\ job[w].d = <<a, c, "firing">> /\ job[w].lost
    OBVIOUS
  <2>. DEFINE f == <<a, c, "firing">>
              r == <<a, c, "resolved">>
  <2>1. f \in Delivery /\ r \in Delivery /\ ~IsFiring(r) /\ Firing(r) = f  BY Triples
  <2>2. received'[f] > received[f] /\ received[r] > 0  OBVIOUS
  <2>. HIDE DEF f, r
  <2>3. received[f] \in Nat /\ Kinds  BY <2>1, Numbers, BaseNext DEF ClaimInv, BaseInv
  <2>4. received'[f] # received[f]  BY <2>2, <2>3
  <2>5. PICK w \in Worker : Sends(w)
    BY <2>3, <2>4 DEF Kinds, Quiet, PurgeCluster, Claimed, Thinks, Writes, LosesLease
  <2>6. job[w].d = f /\ At(w, "send")  BY <2>1, <2>4, <2>5 DEF Sends, From, At
  <2>7. job[w].lost  BY <2>1, <2>2, <2>6 DEF ClaimInv, LateInv, Recovered, At
  <2>8. \E x \in Worker : At(x, "send") /\ job[x].d = f /\ job[x].lost  BY <2>6, <2>7
  <2>. QED  BY <2>8 DEF f
<1>. QED  BY <1>1, ClaimInit, ClaimNext, PTL DEF OSpec, NoLateFiring

\* "Fences completion by attempt number": while the lease of a firing message lives,
\* only the worker that has its claim ends it, or puts it back.
THEOREM FencedByNumber == OSpec => FiringFenced
<1>. DEFINE AllFenced == \A a \in Alert, c \in Channel : Fenced(<<a, c, "firing">>)
<1>1. ClaimInv /\ [ONext]_outboxVars => [AllFenced]_outboxVars
  <2>. SUFFICES ASSUME ClaimInv, [ONext]_outboxVars, NEW a \in Alert, NEW c \in Channel,
                       ~UNCHANGED outboxVars
                PROVE  Fenced(<<a, c, "firing">>)
    OBVIOUS
  <2>. DEFINE f == <<a, c, "firing">>
  <2>1. f \in Delivery /\ IsFiring(f)  BY Triples
  <2>2. Kinds /\ OTypeOK /\ RowInv /\ JobInv /\ HolderInv  BY BaseNext DEF ClaimInv, BaseInv
  <2>. SUFFICES ASSUME delivery[f].status = "sending", delivery[f].lease,
                       delivery'[f].status \notin {"sending", "absent"}
                PROVE  \E w \in Worker : /\ job[w].d = f /\ ~job[w].lost
                                         /\ job[w].attempts = delivery[f].attempts
                                         /\ job'[w] # job[w]
    BY DEF Fenced
  <2>. HIDE DEF f
  <2>3. ~Quiet  BY <2>1 DEF Quiet, Kept, Born
  <2>4. ~PurgeCluster  BY <2>1 DEF PurgeCluster, NoRow
  <2>5. PICK w \in Worker : Writes(w)
    BY <2>1, <2>2, <2>3, <2>4 DEF Kinds, Claimed, Thinks, Sends, LosesLease
  <2>6. Wrote(w) /\ job[w].d = f  BY <2>1, <2>5 DEF Writes, Wrote
  <2>7. Busy(w) /\ job[w].attempts = delivery[f].attempts  BY <2>5, <2>6 DEF Writes, Alone, Wrote, StillMine
  <2>8. ~job[w].lost  BY <2>1, <2>2, <2>6, <2>7 DEF HolderInv, HolderSound
  <2>9. job'[w].pc # job[w].pc  BY <2>5, <2>7 DEF Writes, Ends, Fails, From, Busy, At
  <2>. QED  BY <2>6, <2>7, <2>8, <2>9
<1>. QED  BY <1>1, ClaimInit, ClaimNext, PTL DEF OSpec, FiringFenced

------------------------------------------------------------------------------
(***************************************************************************)
(* On a channel nobody touched, a firing message is cancelled only by the  *)
(* first claim of its row, which has not sent it.                          *)
(***************************************************************************)
CancelledRow(d) == delivery[d].status = "cancelled" =>
  /\ delivery[d].attempts = 1 /\ received[d] = 0
  /\ \A w \in Worker : job[w].d = d => ~Unsent(w)

Cancels(w, d) == job[w].d = d /\ At(w, "finish") /\ job[w].verdict = "cancelled"

CancellingJob(w, d) == Cancels(w, d) =>
  /\ job[w].attempts = 1
  /\ delivery[d].attempts = 1 => received[d] = 0

LEMMA CancelParts ==
  CancelInv <=> (cluster = "live" => \A d \in Delivery : IsFiring(d) /\ d[2] \notin touched =>
                   CancelledRow(d) /\ \A w \in Worker : CancellingJob(w, d))
BY DEF CancelInv, CancelledRow, CancellingJob, Cancels

\* Nobody has sent a message of a row whose only attempt is still claimed.
LEMMA FirstClaimSentNothing ==
  ASSUME BaseInv, CountInv, NEW d \in Delivery, NEW w \in Worker, ~Purged,
         delivery[d].attempts = 1, Unsent(w), job[w].d = d, job[w].attempts = 1
  PROVE  received[d] = 0
<1>1. OTypeOK /\ MaxAttempts \in Nat /\ received[d] \in Nat  BY Numbers DEF BaseInv
<1>2. Spent(d) = {}
  <2>. SUFFICES ASSUME NEW n \in Spent(d) PROVE FALSE
    OBVIOUS
  <2>1. n \in 1..MaxAttempts /\ n <= 1 /\ n # 1  BY DEF Spent
  <2>. QED  BY <1>1, <2>1
<1>3. Cardinality(Spent(d)) = 0  BY <1>2, FS_EmptySet
<1>. QED  BY <1>1, <1>3 DEF CountInv

LEMMA CancelKept ==
  ASSUME BaseInv, BaseInv', CountInv, CancelInv, Kinds
  PROVE  CancelInv'
<1>. SUFFICES ASSUME cluster' = "live", NEW d \in Delivery, IsFiring(d), d[2] \notin touched'
              PROVE  CancelledRow(d)' /\ \A v \in Worker : CancellingJob(v, d)'
  BY CancelParts DEF CancelInv, CancelledRow, CancellingJob, Cancels, IsFiring
<1>0. /\ OTypeOK /\ RowInv /\ JobInv /\ UniqueInv /\ ChannelInv
      /\ delivery[d].attempts \in Nat /\ received[d] \in Nat
      /\ \A w \in Worker : job[w].attempts \in Nat
  BY Numbers DEF BaseInv
<1>1. cluster = "live" /\ d[2] \notin touched /\ ~Purged
  <2>1. cluster = "live" /\ touched \subseteq touched'
    BY DEF Kinds, Quiet, PurgeCluster, Claimed, Thinks, Sends, Writes, LosesLease, sourceVars
  <2>. QED  BY <2>1 DEF Purged
<1>2. CancelledRow(d) /\ \A v \in Worker : CancellingJob(v, d)  BY <1>1, CancelParts
<1>3. ~PurgeCluster  BY DEF PurgeCluster
<1>4. ASSUME NEW v \in Worker, Busy(v), job[v].d = d
      PROVE  job[v].attempts >= 1 /\ job[v].attempts <= delivery[d].attempts
  BY <1>0, <1>1, <1>4 DEF JobInv, JobSound
<1>5. ASSUME NEW u \in Worker, NEW v \in Worker, u # v, Busy(u), Busy(v), job[u].d = d, job[v].d = d
      PROVE  job[u].attempts # job[v].attempts
  BY <1>0, <1>5 DEF UniqueInv
<1>6. CASE Quiet
  <2>1. job' = job /\ received' = received /\ (Kept(d) \/ Born(d))  BY <1>6 DEF Quiet
  <2>2. CASE Kept(d)
    BY <1>2, <2>1, <2>2 DEF Kept, CancelledRow, CancellingJob, Cancels, Unsent, At
  <2>3. CASE Born(d)
    BY <1>2, <2>1, <2>3 DEF Born, CancelledRow, CancellingJob, Cancels, Unsent, At
  <2>. QED  BY <2>1, <2>2, <2>3
<1>7. ASSUME NEW w \in Worker, NEW e \in Delivery, Claimed(w, e)
      PROVE  CancelledRow(d)' /\ \A v \in Worker : CancellingJob(v, d)'
  <2>1. received' = received  BY <1>7 DEF Claimed
  <2>2. \A v \in Worker : job'[v] = job[v] \/ (job'[v].pc = "claimed" /\ job'[v].d = e)
    BY <1>7 DEF Claimed
  <2>3. CASE d = e
    <3>1. delivery'[d].status = "sending" /\ delivery'[d].attempts = delivery[d].attempts + 1
      BY <1>7, <2>3 DEF Claimed
    <3>2. CancelledRow(d)'  BY <3>1 DEF CancelledRow
    <3>3. ASSUME NEW v \in Worker, Cancels(v, d)'
          PROVE  job'[v].attempts = 1 /\ delivery'[d].attempts # 1
      <4>1. job'[v] = job[v] /\ Cancels(v, d) /\ Busy(v) /\ job[v].d = d
        BY <2>2, <3>3 DEF Cancels, At, Busy
      <4>2. job[v].attempts = 1 /\ delivery[d].attempts >= 1
        BY <1>0, <1>2, <1>4, <4>1 DEF CancellingJob
      <4>. QED  BY <1>0, <3>1, <4>1, <4>2
    <3>. QED  BY <3>2, <3>3 DEF CancellingJob
  <2>4. CASE d # e
    <3>1. delivery'[d] = delivery[d]  BY <1>7, <2>4 DEF Claimed
    <3>2. \A v \in Worker : job'[v].d = d => job'[v] = job[v]  BY <2>2, <2>4
    <3>. QED  BY <1>2, <2>1, <3>1, <3>2 DEF CancelledRow, CancellingJob, Cancels, Unsent, At
  <2>. QED  BY <2>3, <2>4
<1>8. ASSUME NEW w \in Worker, Thinks(w)
      PROVE  CancelledRow(d)' /\ \A v \in Worker : CancellingJob(v, d)'
  <2>1. delivery' = delivery /\ received' = received /\ Alone(w) /\ Busy(w)  BY <1>8 DEF Thinks, Alone
  <2>2. \A v \in Worker : Unsent(v)' => Unsent(v) /\ job'[v].d = job[v].d
    BY <1>8, WorkerGoesOn, UnsentGoesOn
  <2>3. CancelledRow(d)'  BY <1>2, <2>1, <2>2 DEF CancelledRow
  <2>4. ASSUME NEW v \in Worker, Cancels(v, d)', job'[v] # job[v]
        PROVE  job'[v].attempts = 1 /\ (delivery'[d].attempts = 1 => received'[d] = 0)
    <3>1. v = w /\ job'[w].pc = "finish" /\ job'[w].d = d /\ job'[w].verdict = "cancelled"
      BY <2>1, <2>4 DEF Alone, Cancels, At
    <3>2. job[w].d = d /\ job'[w].attempts = job[w].attempts /\ job[w].pc \in {"claimed", "prior"}
      BY <1>8, <3>1 DEF Thinks, Ends, Fails, From
    <3>3. job[w].pc = "claimed"  BY <1>0, <2>1, <3>2 DEF JobInv, JobSound
    <3>4. ~Usable(d) \/ Obsolete(d, job[w].attempts)
      BY <1>8, <3>1, <3>2, <3>3 DEF Thinks, Ends, Fails, From
    <3>5. Usable(d)
      <4>1. d[1] \in Alert /\ d[2] \in Channel  BY DeliveryParts
      <4>2. delivery[d].status # "absent"  BY <1>0, <1>1, <2>1, <3>2 DEF JobInv, JobSound
      <4>3. alert[d[1]] # "absent"  BY <1>0, <4>2 DEF RowInv, RowSound
      <4>4. channel[d[2]] = "enabled"  BY <1>0, <1>1, <4>1 DEF ChannelInv
      <4>. QED  BY <1>1, <4>3, <4>4 DEF Usable
    <3>6. job[w].attempts = 1  BY <3>4, <3>5 DEF Obsolete
    <3>7. delivery[d].attempts = 1 => received[d] = 0
      BY <1>1, <3>2, <3>3, <3>6, FirstClaimSentNothing DEF Unsent
    <3>. QED  BY <2>1, <3>1, <3>2, <3>6, <3>7
  <2>5. ASSUME NEW v \in Worker
        PROVE  CancellingJob(v, d)'
    <3>1. CASE job'[v] = job[v]
      BY <1>2, <2>1, <3>1 DEF CancellingJob, Cancels, At
    <3>. QED  BY <2>4, <3>1 DEF CancellingJob
  <2>. QED  BY <2>3, <2>5
<1>9. ASSUME NEW w \in Worker, Sends(w)
      PROVE  CancelledRow(d)' /\ \A v \in Worker : CancellingJob(v, d)'
  <2>1. /\ delivery' = delivery /\ Alone(w) /\ Busy(w) /\ At(w, "send") /\ Unsent(w)
        /\ job'[w].pc = "finish" /\ job'[w].verdict # "cancelled"
        /\ job[w].d # d => received'[d] = received[d]
    BY <1>9 DEF Sends, Alone, From, At, Unsent
  <2>2. \A v \in Worker : Unsent(v)' => Unsent(v) /\ job'[v].d = job[v].d
    BY <1>9, WorkerGoesOn, UnsentGoesOn
  <2>3. CancelledRow(d)'  BY <1>2, <2>1, <2>2 DEF CancelledRow
  <2>4. ASSUME NEW v \in Worker, Cancels(v, d)'
        PROVE  job'[v].attempts = 1 /\ (delivery'[d].attempts = 1 => received'[d] = 0)
    <3>1. v # w  BY <2>1, <2>4 DEF Cancels
    <3>2. job'[v] = job[v] /\ Cancels(v, d) /\ Busy(v) /\ job[v].d = d
      BY <2>1, <2>4, <3>1 DEF Alone, Cancels, At, Busy
    <3>3. job[v].attempts = 1 /\ (delivery[d].attempts = 1 => received[d] = 0)
      BY <1>2, <3>2 DEF CancellingJob
    <3>4. CASE job[w].d = d
      <4>1. job[w].attempts # 1  BY <1>5, <2>1, <3>1, <3>2, <3>3, <3>4
      <4>2. delivery[d].attempts # 1  BY <1>0, <1>4, <2>1, <3>4, <4>1
      <4>. QED  BY <2>1, <3>2, <3>3, <4>2
    <3>5. CASE job[w].d # d  BY <2>1, <3>2, <3>3, <3>5
    <3>. QED  BY <3>4, <3>5
  <2>. QED  BY <2>3, <2>4 DEF CancellingJob
<1>10. ASSUME NEW w \in Worker, Writes(w)
       PROVE  CancelledRow(d)' /\ \A v \in Worker : CancellingJob(v, d)'
  <2>1. received' = received /\ Alone(w) /\ Busy(w) /\ job[w].pc \in {"release", "finish", "catch"}
    BY <1>10 DEF Writes, Alone
  <2>2. \A v \in Worker : Unsent(v)' => Unsent(v) /\ job'[v].d = job[v].d
    BY <1>10, WorkerGoesOn, UnsentGoesOn
  <2>3. Wrote(w) /\ job[w].d = d => job[w].pc # "release"
    BY <1>0, <2>1 DEF JobInv, JobSound
  <2>4. delivery'[d].attempts = delivery[d].attempts
    <3>1. CASE delivery'[d] = delivery[d]  BY <3>1
    <3>2. CASE delivery'[d] # delivery[d]
      <4>1. Wrote(w) /\ job[w].d = d  BY <1>10, <3>2 DEF Writes, Wrote
      <4>. QED  BY <2>3, <4>1 DEF Wrote
    <3>. QED  BY <3>1, <3>2
  <2>5. CancelledRow(d)'
    <3>1. CASE delivery'[d] = delivery[d]  BY <1>2, <2>1, <2>2, <3>1 DEF CancelledRow
    <3>2. CASE delivery'[d] # delivery[d] /\ delivery'[d].status = "cancelled"
      <4>1. Wrote(w) /\ job[w].d = d  BY <1>10, <3>2 DEF Writes, Wrote
      <4>2. job[w].verdict = "cancelled"  BY <2>3, <3>2, <4>1 DEF Wrote
      <4>3. job[w].pc = "finish"  BY <1>0, <2>1, <2>3, <4>1, <4>2 DEF JobInv, JobSound
      <4>4. Cancels(w, d)  BY <4>1, <4>2, <4>3 DEF Cancels, At
      <4>5. job[w].attempts = 1 /\ delivery[d].attempts = 1 /\ received[d] = 0
        BY <1>2, <4>1, <4>4 DEF CancellingJob, Wrote, StillMine
      <4>6. ASSUME NEW v \in Worker, Unsent(v)', job'[v].d = d
            PROVE  FALSE
        <5>1. Unsent(v) /\ job[v].d = d /\ Busy(v)  BY <2>2, <4>6 DEF Unsent, Busy, At
        <5>2. v # w  BY <4>3, <5>1 DEF Unsent
        <5>3. job[v].attempts # 1  BY <1>5, <2>1, <4>1, <4>5, <5>1, <5>2
        <5>. QED  BY <1>0, <1>4, <4>5, <5>1, <5>3
      <4>. QED  BY <2>1, <2>4, <4>5, <4>6 DEF CancelledRow
    <3>3. CASE delivery'[d].status # "cancelled"  BY <3>3 DEF CancelledRow
    <3>. QED  BY <3>1, <3>2, <3>3
  <2>6. ASSUME NEW v \in Worker
        PROVE  CancellingJob(v, d)'
    <3>1. CASE job'[v] = job[v]
      BY <1>2, <2>1, <2>4, <3>1 DEF CancellingJob, Cancels, At
    <3>2. CASE job'[v] # job[v]
      <4>1. job'[v].pc \in {"idle", "catch"}  BY <1>10, <2>1, <3>2 DEF Writes, Ends, Fails, From, Alone
      <4>. QED  BY <4>1 DEF CancellingJob, Cancels, At
    <3>. QED  BY <3>1, <3>2
  <2>. QED  BY <2>5, <2>6
<1>11. ASSUME NEW e \in Delivery, LosesLease(e)
       PROVE  CancelledRow(d)' /\ \A v \in Worker : CancellingJob(v, d)'
  <2>1. /\ received' = received /\ delivery'[d].status = delivery[d].status
        /\ delivery'[d].attempts = delivery[d].attempts
    BY <1>11 DEF LosesLease
  <2>2. \A v \in Worker : /\ job'[v].pc = job[v].pc /\ job'[v].d = job[v].d
                          /\ job'[v].attempts = job[v].attempts /\ job'[v].verdict = job[v].verdict
    BY <1>11 DEF LosesLease
  <2>. QED  BY <1>2, <2>1, <2>2 DEF CancelledRow, CancellingJob, Cancels, Unsent, At
<1>. QED  BY <1>3, <1>6, <1>7, <1>8, <1>9, <1>10, <1>11 DEF Kinds

\* "Never-sent obsolete firing is cancelled": on a channel nobody touched, a cancelled
\* firing message is one that never went out.
THEOREM CancelledUnsent == OSpec => []CancelledNeverSent
<1>. DEFINE Inv == BaseInv /\ CountInv /\ CancelInv
<1>1. OInit => Inv
  <2>1. OInit => CancelInv  BY DEF OInit, CancelInv, NoRow, Idle, At
  <2>. QED  BY <2>1, BaseInit, CountInit
<1>2. Inv /\ [ONext]_outboxVars => Inv'
  <2>1. CancelInv /\ UNCHANGED outboxVars => CancelInv'
    BY DEF outboxVars, CancelInv, Unsent, At
  <2>. QED  BY <2>1, BaseNext, CountKept, CountStutter, CancelKept
<1>3. Inv => CancelledNeverSent
  <2>. SUFFICES ASSUME CancelInv, NEW a \in Alert, NEW c \in Channel \ touched,
                       cluster = "live", delivery[<<a, c, "firing">>].status = "cancelled"
                PROVE  received[<<a, c, "firing">>] = 0
    BY DEF CancelledNeverSent
  <2>. DEFINE f == <<a, c, "firing">>
  <2>1. f \in Delivery /\ IsFiring(f) /\ f[2] \notin touched  BY Triples
  <2>. HIDE DEF f
  <2>2. delivery[f].status = "cancelled"  BY DEF f
  <2>3. received[f] = 0  BY <2>1, <2>2 DEF CancelInv
  <2>. QED  BY <2>3 DEF f
<1>. QED  BY <1>1, <1>2, <1>3, PTL DEF OSpec
===============================================================================
