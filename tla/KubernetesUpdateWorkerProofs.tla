--------------------- MODULE KubernetesUpdateWorkerProofs ---------------------
(***************************************************************************)
(* Theorems about the update controller and its rollout, for any number of *)
(* workers, Deployments, tasks and faults.                                 *)
(***************************************************************************)
EXTENDS KubernetesUpdateWorker, KubernetesUpdateTasksProofs

EnvTypes ==
  /\ image \in Images
  /\ ready \in [Deployment -> BOOLEAN]
  /\ faults \in 0..MaxFaults
  /\ base \in [Task -> Images \union {Null}]
  /\ disturbed \subseteq Deployment

\* The shape of a worker's local state at each place of its program.
Opening == {"start", "backup", "progress"}

Shape(p) ==
  /\ p \in Proc
  /\ p.pc # "idle" => p.task \in Task
  /\ p.pc \in Opening => p.i = 1 /\ p.changed = {}
  /\ p.pc = "read" => p.i \in Deployment /\ p.changed = {} /\ \A e \in 1 .. p.i - 1 : p.prev[e] \in Image
  /\ p.pc \in Rollout \union Undo \union {"finish"} => p.prev \in Images
  /\ p.pc = "advance" => p.changed \subseteq 1 .. p.i - 1
  /\ p.pc \in {"patch", "health", "wait"} => p.i \in p.changed /\ p.changed \subseteq 1 .. p.i
  /\ p.pc \in Undo => p.i \in p.changed
  /\ p.pc = "restored" => p.changed = {} /\ ~p.undoFailed
  /\ p.pc \notin Undo \union Failing => ~p.undoFailed
  /\ p.strays <= 1

ShapeInv ==
  /\ proc \in [Worker -> Proc]
  /\ \A w \in Worker : Shape(proc[w])

\* Worker w holds the task that p is about; its attempt is then the one p began.
Holds(w, p) == row[p.task].status = "running" /\ row[p.task].claimedBy = w

Backed == {"progress", "rehearse", "rehearsed", "read", "finish"} \union Rollout \union Undo

\* What a worker at work knows of its task.
AtWork(w, p) ==
  /\ claim[w].step = "none"
  /\ Exists(p.task)
  /\ Holds(w, p) => row[p.task].attempt = p.attempt /\ p.strays = 0
  /\ p.pc \in {"patch", "unpatch"} => p.strays = 0
  /\ p.pc \in {"rehearse", "rehearsed"} => row[p.task].action = "preflight"
  /\ p.pc \in Backed => row[p.task].backup # Null

WorkInv == \A w \in Worker : ~At(w, "idle") => AtWork(w, proc[w])

\* What the rows say, and the history of first claims.
UpdateRow(t) ==
  /\ Exists(t) => row[t].payload \in Images
  /\ row[t].status = "succeeded" /\ row[t].action # "preflight" => row[t].result \in Images
  /\ row[t].status \in {"absent", "queued"} => row[t].attempt = 0
  /\ row[t].attempt = 0 => base[t] = Null

UpdateInv == \A t \in Task : UpdateRow(t)

\* No claim in progress is no claim at all.
NoneInv == \A w \in Worker : claim[w].step = "none" => claim[w] = NoClaim

WInv == TypeInv /\ SlotInv /\ NoGaps /\ NoneInv /\ EnvTypes /\ ShapeInv /\ WorkInv /\ UpdateInv

\* What the Deployments run, while the worker that patches them holds its task: those it
\* has read or has still to patch run what it read, those it has patched the target.
ImageSound(p) == \A d \in Deployment \ disturbed :
  /\ p.pc = "read" /\ d < p.i => image[d] = p.prev[d]
  /\ p.pc \in Rollout /\ d < p.i => /\ image[d] = row[p.task].payload[d]
                                    /\ d \notin p.changed => image[d] = p.prev[d]
  /\ p.pc \in Rollout /\ d > p.i => image[d] = p.prev[d]
  /\ p.pc = "advance" /\ d = p.i => image[d] = p.prev[d]
  /\ p.pc = "finish" => image[d] = row[p.task].payload[d]
  /\ p.pc \in Undo \union {"restored"} /\ ~p.undoFailed /\ d \notin p.changed => image[d] = p.prev[d]

ImageInv == \A w \in Worker : ~At(w, "idle") /\ Holds(w, proc[w]) => ImageSound(proc[w])

\* If nobody else touched the Deployments, the first attempt of a task reads the images
\* of its first claim.
BaseSound(p) == row[p.task].attempt = 1 =>
  /\ p.pc \in Opening \union {"read"} => image = base[p.task]
  /\ p.pc = "read" => \A d \in 1 .. p.i - 1 : p.prev[d] = base[p.task][d]
  /\ p.pc \in Rollout \union {"finish"} => p.prev = base[p.task]

SavedRow(t) ==
  /\ row[t].status = "succeeded" /\ row[t].action # "preflight" /\ row[t].attempt = 1 => row[t].result = base[t]

BaseInv == disturbed = {} =>
  /\ \A w \in Worker : ~At(w, "idle") /\ Holds(w, proc[w]) => BaseSound(proc[w])
  /\ \A t \in Task : SavedRow(t)

\* A rollback is bound to what the update before it saved.
UpdateBefore(t, u) == \A v \in u .. t - 1 : row[v].action = "preflight" <=> v # u

UndoesRow(t) == row[t].action = "rollback" =>
  /\ Exists(t)
  /\ \A u \in 1 .. t - 1 : UpdateBefore(t, u) =>
       row[u].status = "succeeded" /\ row[t].payload = row[u].result

UndoesInv == \A t \in Task : UndoesRow(t)

------------------------------------------------------------------------------
(***************************************************************************)
(* The controller is a client of the queue: every step it takes is an      *)
(* operation of it, or leaves it alone.                                    *)
(***************************************************************************)

\* The task of a worker at work.
LEMMA WorkersTask ==
  ASSUME ShapeInv, NEW w \in Worker, ~At(w, "idle")
  PROVE  MyTask(w) \in Task
BY DEF ShapeInv, Shape, At, MyTask

LEMMA ReportOfQueue ==
  ASSUME ShapeInv, NEW w \in Worker, ~At(w, "idle"), NEW p, NEW q, Report(w, p, q)
  PROVE  [Next]_queueVars
<1>1. MyTask(w) \in Task  BY WorkersTask
<1>. QED  BY <1>1 DEF Report, Reported, Throws, Next

\* The combinations of status and phase the controller ends a task with.
LEMMA FinishOfQueue ==
  ASSUME NEW t \in Task, NEW w \in Worker, NEW status \in {"succeeded", "failed"},
         NEW phase \in {"completed", "failed", "rollback-incomplete"}, NEW result \in Result \union {Null},
         Finish(t, w, status, phase, result)
  PROVE  Next
<1>1. phase \in Phase  BY DEF Phase
<1>. QED  BY <1>1 DEF Next

LEMMA SubmitOfQueue ==
  ASSUME UpdateInv, SubmitTask
  PROVE  Next
<1>1. Ttl \in 0..Ttl /\ TRUE \in BOOLEAN /\ {"install", "preflight", "rollback"} \subseteq Action
  BY BoundAssumption DEF Action
<1>2. ASSUME NEW action \in {"install", "preflight"}, Submit(action, [d \in Deployment |-> New], Ttl, TRUE)
      PROVE  Next
  <2>1. [d \in Deployment |-> New] \in Payload  BY PayloadAssumption DEF Images, Image
  <2>. QED  BY <1>1, <1>2, <2>1 DEF Next
<1>3. ASSUME NEW t \in Task, IsLatest(t, {"install", "rollback"}), row[t].status = "succeeded",
             Submit("rollback", row[t].result, Ttl, TRUE)
      PROVE  Next
  <2>1. row[t].result \in Payload
    BY <1>3, PayloadAssumption DEF IsLatest, UpdateInv, UpdateRow
  <2>. QED  BY <1>1, <1>3, <2>1 DEF Next
<1>. QED  BY <1>2, <1>3 DEF SubmitTask

LEMMA ClaimOfQueue ==
  ASSUME NEW w \in Worker, Poll(w) \/ BeginTask(w)
  PROVE  Next
BY DEF Poll, BeginTask, ClaimStep, Next

LEMMA CrashOfQueue ==
  ASSUME TypeInv, NoneInv, NEW w \in Worker, Crash(w)
  PROVE  [Next]_queueVars
<1>1. CASE claim[w].step # "none"
  BY <1>1 DEF Crash, ClaimAbandoned, Next
<1>2. CASE claim[w].step = "none"
  BY <1>2 DEF Crash, NoneInv, TypeInv, ClaimTypes, queueVars
<1>. QED  BY <1>1, <1>2

LEMMA WorkerOfQueue ==
  ASSUME TypeInv, ShapeInv, NEW w \in Worker, WorkerStep(w) \/ Renew(w)
  PROVE  [Next]_queueVars
<1>1. ASSUME ~At(w, "idle") PROVE MyTask(w) \in Task  BY <1>1, WorkersTask
<1>2. ASSUME NEW p, NEW q, Report(w, p, q), ~At(w, "idle") PROVE [Next]_queueVars
  BY <1>2, ReportOfQueue
<1>3. CASE Poll(w) \/ BeginTask(w)  BY <1>3, ClaimOfQueue
<1>4. CASE Renew(w) \/ Start(w) \/ BackedUp(w) \/ Rehearse(w) \/ Patched(w) \/ UndoReport(w)
  BY <1>2, <1>4 DEF Renew, Start, BackedUp, Rehearse, Patched, UndoReport, At
<1>5. CASE Advance(w)
  BY <1>2, <1>5 DEF Advance, At
<1>6. CASE BackUp(w)
  BY <1>1, <1>6 DEF BackUp, Throws, At, Next
<1>7. CASE Rehearsed(w)
  <2>1. MyTask(w) \in Task  BY <1>1, <1>7 DEF Rehearsed, At
  <2>. QED  BY <1>7, <2>1, FinishOfQueue DEF Rehearsed, Throws
<1>8. CASE ReadDeployment(w)
  BY <1>8 DEF ReadDeployment
<1>9. CASE Patch(w) \/ UndoPatch(w)
  BY <1>9 DEF Patch, UndoPatch, PatchImage
<1>10. CASE Wait(w) \/ UndoWait(w)
  BY <1>10 DEF Wait, UndoWait, WaitReady, Throws
<1>11. CASE Complete(w)
  <2>1. MyTask(w) \in Task /\ SavedImages(w) \in Result
    BY <1>1, <1>11, PayloadAssumption DEF Complete, At, ShapeInv, Shape, SavedImages
  <2>. QED  BY <1>11, <2>1, FinishOfQueue DEF Complete, Throws
<1>12. CASE Fail(w)
  <2>. DEFINE phase == IF At(w, "incomplete") THEN "rollback-incomplete" ELSE "failed"
  <2>1. MyTask(w) \in Task  BY <1>1, <1>12 DEF Fail, Failing, At
  <2>2. phase \in {"completed", "failed", "rollback-incomplete"}  OBVIOUS
  <2>3. Finish(MyTask(w), w, "failed", phase, Null) \/ UNCHANGED queueVars  BY <1>12 DEF Fail
  <2>. HIDE DEF phase
  <2>. QED  BY <2>1, <2>2, <2>3, FinishOfQueue
<1>. QED
  BY <1>3, <1>4, <1>5, <1>6, <1>7, <1>8, <1>9, <1>10, <1>11, <1>12 DEF WorkerStep

LEMMA StepOfQueue ==
  ASSUME WInv, [WNext]_workerVars
  PROVE  [Next]_queueVars
BY SubmitOfQueue, CrashOfQueue, WorkerOfQueue
DEF WInv, WNext, RolloutDone, Edit, TimePasses, Next, workerVars, queueVars

------------------------------------------------------------------------------
(***************************************************************************)
(* The steps of the system, as the invariants see them.  A worker at work  *)
(* goes on with other local variables (Turns), puts its backup on record,  *)
(* patches a Deployment, or leaves its task; an idle one begins a task;    *)
(* and everything else leaves the workers alone.                           *)
(***************************************************************************)
Opens(w, q) ==
  LET p == proc[w] IN
  \/ q = p
  \/ q = [p EXCEPT !.leaseError = TRUE]
  \/ p.pc \in Opening \union {"rehearse", "rehearsed", "read", "finish"} /\ q = Failed(p)
  \/ p.pc = "start" /\ q = [p EXCEPT !.pc = "backup"]
  \/ p.pc = "progress" /\ row[p.task].action = "preflight" /\ q = [p EXCEPT !.pc = "rehearse"]
  \/ p.pc = "rehearse" /\ q = [p EXCEPT !.pc = "rehearsed"]
  \/ p.pc = "progress" /\ row[p.task].action # "preflight" /\ q = [p EXCEPT !.pc = "read"]

Reads(w, q) ==
  LET p == proc[w] IN
  /\ p.pc = "read"
  /\ \/ p.i < N /\ q = [p EXCEPT !.prev[p.i] = image[p.i], !.i = p.i + 1]
     \/ p.i = N /\ q = [p EXCEPT !.prev[p.i] = image[p.i], !.i = 1, !.pc = "advance"]

Notes(p, d) == [p EXCEPT !.i = d, !.changed = @ \union {d}]

Forwards(w, q) ==
  LET p == proc[w] IN
  \/ p.pc = "advance" /\ Todo(w) = {} /\ q = [p EXCEPT !.pc = "finish"]
  \/ /\ p.pc = "advance"
     /\ \E d \in Todo(w) : /\ \A e \in Todo(w) : d <= e
                           /\ \/ LeaseHeld(p.task, w) /\ q = [Notes(p, d) EXCEPT !.pc = "patch"]
                              \/ q = UndoNext(Notes(p, d))
  \/ p.pc = "patch" /\ image[p.i] = Target(w)[p.i] /\ q = [p EXCEPT !.pc = "health"]
  \/ p.pc = "health" /\ q = [p EXCEPT !.pc = "wait"]
  \/ p.pc = "wait" /\ image[p.i] = Target(w)[p.i] /\ q = [p EXCEPT !.pc = "advance", !.i = @ + 1]
  \/ p.pc \in {"patch", "health", "wait"} /\ q = UndoNext(p)

Backs(w, q) ==
  LET p == proc[w] IN
  \/ p.pc = "undo" /\ LeaseHeld(p.task, w) /\ q = [p EXCEPT !.pc = "unpatch"]
  \/ p.pc = "unpatch" /\ image[p.i] = p.prev[p.i] /\ q = [p EXCEPT !.pc = "unwait"]
  \/ p.pc = "unwait" /\ image[p.i] = p.prev[p.i] /\ q = Undone(p)
  \/ p.pc \in Undo /\ q = NotUndone(p)

Turns(w, q) == Opens(w, q) \/ Reads(w, q) \/ Forwards(w, q) \/ Backs(w, q)

\* What is patched, and what it is patched from and to.
PatchedTo(w, p) == IF p.pc = "patch" THEN Target(w)[p.i] ELSE p.prev[p.i]
PatchedFrom(w, p) == IF p.pc = "patch" THEN p.prev[p.i] ELSE Target(w)[p.i]

\* What a worker goes on with after a patch, answered or not.
AfterPatch(p) == IF p.pc = "patch" THEN {[p EXCEPT !.pc = "health"], UndoNext(p)}
                 ELSE {[p EXCEPT !.pc = "unwait"], NotUndone(p)}

Quiet == UNCHANGED <<image, base, disturbed>>

TurnStep(w) ==
  /\ ~At(w, "idle") /\ (\E q : Turns(w, q) /\ Goto(w, q))
  /\ Quiet /\ UNCHANGED claim

BackupStep(w) ==
  /\ At(w, "backup") /\ (\E backup \in Backup : RecordBackup(MyTask(w), w, backup))
  /\ Goto(w, [proc[w] EXCEPT !.pc = "progress"])
  /\ Quiet

LeaveStepOf(w) ==
  /\ Goto(w, Idle) /\ Quiet
  /\ \A v \in Worker \ {w} : claim'[v] = claim[v]

PatchStep(w) ==
  /\ proc[w].pc \in {"patch", "unpatch"}
  /\ AsExpected(proc[w].i, PatchedFrom(w, proc[w]))
  /\ SetImage(w, proc[w].i, PatchedTo(w, proc[w]))
  /\ \E q \in AfterPatch(proc[w]) : Goto(w, Counted(w, q))
  /\ UNCHANGED <<queueVars, base>>

BeginStep(w) ==
  LET t == claim[w].task IN
  /\ At(w, "idle") /\ ClaimWon(w)
  /\ base' = [base EXCEPT ![t] = IF @ = Null THEN image ELSE @]
  /\ \/ Goto(w, [Idle EXCEPT !.pc = "start", !.task = t, !.attempt = row'[t].attempt])
     \/ UNCHANGED proc
  /\ UNCHANGED <<image, disturbed>>

OtherStep ==
  /\ UNCHANGED <<proc, base>>
  /\ \/ UNCHANGED <<image, disturbed>>
     \/ \E d \in Deployment : image' = [image EXCEPT ![d] = Foreign] /\ disturbed' = disturbed \union {d}
  /\ \A v \in Worker : ~At(v, "idle") => claim'[v] = claim[v]

LEMMA ReportTurns ==
  ASSUME NEW w \in Worker, NEW p, NEW q, Report(w, p, q), Turns(w, p) \/ ~LeaseHeld(MyTask(w), w), Turns(w, q)
  PROVE  UNCHANGED claim /\ \E x : Turns(w, x) /\ Goto(w, x)
BY DEF Report, Reported, Throws, Heartbeat, queueVars

LEMMA KindsOfTurn ==
  ASSUME ShapeInv, NEW w \in Worker,
         \/ Renew(w) \/ Start(w) \/ BackedUp(w) \/ Rehearse(w) \/ ReadDeployment(w)
         \/ Patched(w) \/ UndoReport(w)
  PROVE  TurnStep(w)
<1>. USE DEF TurnStep, Quiet, historyVars, clusterVars, At, MyTask
<1>0. proc[w] \in Proc  BY DEF ShapeInv, Shape
<1>1. CASE Renew(w)
  BY <1>1, ReportTurns DEF Renew, Turns, Opens
<1>2. CASE Start(w)
  BY <1>2, ReportTurns DEF Start, Turns, Opens, Opening
<1>3. CASE BackedUp(w)
  <2>. DEFINE p == [proc[w] EXCEPT !.pc = IF row[MyTask(w)].action = "preflight" THEN "rehearse" ELSE "read"]
  <2>1. Turns(w, p) /\ Turns(w, Failed(proc[w]))  BY <1>3 DEF BackedUp, Turns, Opens, Opening
  <2>2. Report(w, p, Failed(proc[w]))  BY <1>3 DEF BackedUp
  <2>. HIDE DEF p
  <2>. QED  BY <1>3, <2>1, <2>2, ReportTurns DEF BackedUp
<1>4. CASE Rehearse(w)
  BY <1>4, ReportTurns DEF Rehearse, Turns, Opens
<1>5. CASE ReadDeployment(w)
  <2>1. proc[w].i \in Deployment  BY <1>5 DEF ReadDeployment, ShapeInv, Shape
  <2>2. proc[w].i < N \/ proc[w].i = N  BY <2>1, DeploymentAssumption DEF Deployment
  <2>3. CASE Goto(w, Failed(proc[w]))
    BY <1>5, <2>3 DEF ReadDeployment, Turns, Opens, queueVars
  <2>4. CASE proc[w].i < N /\ ~Goto(w, Failed(proc[w]))
    <3>. DEFINE q == [proc[w] EXCEPT !.prev[proc[w].i] = image[proc[w].i], !.i = proc[w].i + 1]
    <3>1. proc[w].i # N  BY <2>1, <2>4, DeploymentAssumption DEF Deployment
    <3>2. Goto(w, [proc[w] EXCEPT !.prev[proc[w].i] = image[proc[w].i], !.i = proc[w].i + 1, !.pc = "read"])
      BY <1>5, <2>4, <3>1 DEF ReadDeployment
    <3>3. q = [proc[w] EXCEPT !.prev[proc[w].i] = image[proc[w].i], !.i = proc[w].i + 1, !.pc = "read"]
      BY <1>0, <1>5 DEF ReadDeployment, Proc
    <3>4. Turns(w, q)  BY <1>5, <2>4 DEF ReadDeployment, Turns, Reads
    <3>. HIDE DEF q
    <3>. QED  BY <1>5, <3>2, <3>3, <3>4 DEF ReadDeployment, queueVars
  <2>5. CASE proc[w].i = N /\ ~Goto(w, Failed(proc[w]))
    <3>. DEFINE q == [proc[w] EXCEPT !.prev[proc[w].i] = image[proc[w].i], !.i = 1, !.pc = "advance"]
    <3>1. Goto(w, q)  BY <1>5, <2>5 DEF ReadDeployment
    <3>2. Turns(w, q)  BY <1>5, <2>5 DEF ReadDeployment, Turns, Reads
    <3>. HIDE DEF q
    <3>. QED  BY <1>5, <3>1, <3>2 DEF ReadDeployment, queueVars
  <2>. QED  BY <2>2, <2>3, <2>4, <2>5
<1>6. CASE Patched(w)
  BY <1>6, ReportTurns DEF Patched, Turns, Forwards
<1>7. CASE UndoReport(w)
  <2>. DEFINE p == [proc[w] EXCEPT !.pc = "unpatch"]
  <2>1. Report(w, p, NotUndone(proc[w])) /\ proc[w].pc = "undo"  BY <1>7 DEF UndoReport
  <2>2. Turns(w, NotUndone(proc[w])) /\ (LeaseHeld(MyTask(w), w) => Turns(w, p))
    BY <2>1 DEF Turns, Backs, Undo
  <2>. HIDE DEF p
  <2>. QED  BY <1>7, <2>1, <2>2, ReportTurns DEF UndoReport
<1>. QED  BY <1>1, <1>2, <1>3, <1>4, <1>5, <1>6, <1>7

\* The Deployment an update goes on with, and the one a restore begins with.
LEMMA LeastOf ==
  ASSUME NEW S \in SUBSET Deployment, S # {}
  PROVE  \E m \in S : (\A n \in S : m <= n) /\ (CHOOSE d \in S : \A e \in S : d <= e) = m
<1>1. S \subseteq Nat  BY DeploymentAssumption DEF Deployment
<1>2. \E m \in S : \A n \in S : m <= n  BY <1>1, LeastElement
<1>. QED  BY <1>2

LEMMA GreatestOf ==
  ASSUME NEW S \in SUBSET Deployment, S # {}
  PROVE  (CHOOSE d \in S : \A e \in S : e <= d) \in S
<1>. DEFINE R == {n \in Nat : \E d \in S : n = N - d}
<1>0. \A d \in S : N - d \in R  BY DeploymentAssumption DEF Deployment
<1>1. R \subseteq Nat /\ R # {}  BY <1>0
<1>2. PICK m \in R : \A n \in R : m <= n
  <2> HIDE DEF R
  <2>. QED  BY <1>1, LeastElement
<1>3. PICK d \in S : m = N - d  BY <1>2
<1>4. \A e \in S : e <= d
  <2>1. ASSUME NEW e \in S PROVE e <= d
    <3>1. N - e \in R  BY <1>0
    <3>2. N - d <= N - e  BY <1>2, <1>3, <3>1
    <3>3. N \in Int /\ d \in Int /\ e \in Int  BY DeploymentAssumption DEF Deployment
    <3>. QED  BY <3>2, <3>3
  <2>. QED  BY <2>1
<1>. QED  BY <1>4

LEMMA KindsOfAdvance ==
  ASSUME ShapeInv, NEW w \in Worker, Advance(w)
  PROVE  TurnStep(w)
<1>. USE DEF TurnStep, Quiet, historyVars, clusterVars, At, MyTask
<1>0. proc[w] \in Proc /\ proc[w].pc = "advance"  BY DEF ShapeInv, Shape, Advance
<1>1. CASE Todo(w) = {}
  <2>. DEFINE q == [proc[w] EXCEPT !.pc = "finish"]
  <2>1. Goto(w, q) \/ (Todo(w) # {})  BY DEF Advance
  <2>2. Turns(w, q)  BY <1>0, <1>1 DEF Turns, Forwards
  <2>. HIDE DEF q
  <2>. QED  BY <1>0, <1>1, <2>1, <2>2 DEF Advance, queueVars
<1>2. CASE Todo(w) # {}
  <2>. DEFINE c == CHOOSE d \in Todo(w) : \A e \in Todo(w) : d <= e
              p == [proc[w] EXCEPT !.i = c, !.changed = @ \union {c}]
  <2>1. Report(w, [p EXCEPT !.pc = "patch"], UndoNext(p))  BY <1>2 DEF Advance
  <2>2. Todo(w) \in SUBSET Deployment
    BY <1>0, DeploymentAssumption DEF Todo, Deployment, Proc
  <2>3. PICK m \in Todo(w) : (\A n \in Todo(w) : m <= n) /\ c = m  BY <1>2, <2>2, LeastOf
  <2>4. p = Notes(proc[w], m)  BY <2>3 DEF Notes
  <2>. HIDE DEF p, c
  <2>5. Turns(w, UndoNext(p)) /\ (LeaseHeld(proc[w].task, w) => Turns(w, [p EXCEPT !.pc = "patch"]))
    BY <1>0, <2>3, <2>4 DEF Turns, Forwards
  <2>. QED  BY <1>0, <2>1, <2>5, ReportTurns DEF Advance
<1>. QED  BY <1>1, <1>2

LEMMA KindsOfWait ==
  ASSUME ShapeInv, NEW w \in Worker, Wait(w) \/ UndoWait(w)
  PROVE  TurnStep(w)
<1>. USE DEF TurnStep, Quiet, historyVars, clusterVars, queueVars, At
<1>1. CASE Wait(w)
  <2>. DEFINE p == proc[w]  q == [p EXCEPT !.pc = "advance", !.i = @ + 1]
  <2>1. p.pc = "wait" /\ WaitReady(w, p.i, Target(w)[p.i], q, UndoNext(p))  BY <1>1 DEF Wait
  <2>2. Turns(w, UndoNext(p)) /\ (image[p.i] = Target(w)[p.i] => Turns(w, q))
    BY <2>1 DEF Turns, Forwards
  <2>. HIDE DEF q
  <2>. QED  BY <2>1, <2>2 DEF WaitReady, Throws
<1>2. CASE UndoWait(w)
  <2>. DEFINE p == proc[w]
  <2>1. p.pc = "unwait" /\ WaitReady(w, p.i, p.prev[p.i], Undone(p), NotUndone(p))  BY <1>2 DEF UndoWait
  <2>2. Turns(w, NotUndone(p)) /\ (image[p.i] = p.prev[p.i] => Turns(w, Undone(p)))
    BY <2>1 DEF Turns, Backs, Undo
  <2>. QED  BY <2>1, <2>2 DEF WaitReady, Throws
<1>. QED  BY <1>1, <1>2

LEMMA KindsOfPatch ==
  ASSUME ShapeInv, NEW w \in Worker, Patch(w) \/ UndoPatch(w)
  PROVE  TurnStep(w) \/ PatchStep(w)
<1>. USE DEF TurnStep, PatchStep, Quiet, historyVars, clusterVars, queueVars, At
<1>. DEFINE p == proc[w]
<1>1. CASE Patch(w)
  <2>. DEFINE q == [p EXCEPT !.pc = "health"]
  <2>1. p.pc = "patch" /\ PatchImage(w, p.i, Target(w)[p.i], p.prev[p.i], q, UndoNext(p))  BY <1>1 DEF Patch
  <2>2. Turns(w, UndoNext(p)) /\ (image[p.i] = Target(w)[p.i] => Turns(w, q))
    BY <2>1 DEF Turns, Forwards
  <2>3. AfterPatch(p) = {q, UndoNext(p)} /\ PatchedTo(w, p) = Target(w)[p.i] /\ PatchedFrom(w, p) = p.prev[p.i]
    BY <2>1 DEF AfterPatch, PatchedTo, PatchedFrom
  <2>. HIDE DEF q
  <2>. QED  BY <2>1, <2>2, <2>3 DEF PatchImage
<1>2. CASE UndoPatch(w)
  <2>. DEFINE q == [p EXCEPT !.pc = "unwait"]
  <2>1. p.pc = "unpatch" /\ PatchImage(w, p.i, p.prev[p.i], Target(w)[p.i], q, NotUndone(p))
    BY <1>2 DEF UndoPatch
  <2>2. Turns(w, NotUndone(p)) /\ (image[p.i] = p.prev[p.i] => Turns(w, q))
    BY <2>1 DEF Turns, Backs, Undo
  <2>3. AfterPatch(p) = {q, NotUndone(p)} /\ PatchedTo(w, p) = p.prev[p.i] /\ PatchedFrom(w, p) = Target(w)[p.i]
    BY <2>1 DEF AfterPatch, PatchedTo, PatchedFrom
  <2>. HIDE DEF q
  <2>. QED  BY <2>1, <2>2, <2>3 DEF PatchImage
<1>. QED  BY <1>1, <1>2

LEMMA Kinds ==
  ASSUME WInv, [WNext]_workerVars
  PROVE  \/ OtherStep
         \/ \E w \in Worker : TurnStep(w) \/ BackupStep(w) \/ LeaveStepOf(w) \/ PatchStep(w) \/ BeginStep(w)
<1>. USE DEF historyVars, clusterVars, queueVars
<1>1. ASSUME NEW w \in Worker, BackUp(w) PROVE TurnStep(w) \/ BackupStep(w)
  <2>1. Turns(w, Failed(proc[w]))  BY <1>1 DEF BackUp, At, Turns, Opens, Opening
  <2>. QED  BY <1>1, <2>1 DEF BackUp, Throws, TurnStep, BackupStep, Quiet, At
<1>2. ASSUME NEW w \in Worker, Rehearsed(w) PROVE TurnStep(w) \/ LeaveStepOf(w)
  <2>1. Turns(w, Failed(proc[w]))  BY <1>2 DEF Rehearsed, At, Turns, Opens
  <2>. QED  BY <1>2, <2>1 DEF Rehearsed, Throws, Finish, TurnStep, LeaveStepOf, Quiet, At
<1>3. ASSUME NEW w \in Worker, Complete(w) PROVE TurnStep(w) \/ LeaveStepOf(w)
  <2>1. Turns(w, Failed(proc[w]))  BY <1>3 DEF Complete, At, Turns, Opens
  <2>. QED  BY <1>3, <2>1 DEF Complete, Throws, Finish, TurnStep, LeaveStepOf, Quiet, At
<1>4. ASSUME NEW w \in Worker, Fail(w) PROVE LeaveStepOf(w)
  <2>1. UNCHANGED claim  BY <1>4 DEF Fail, Finish
  <2>. QED  BY <1>4, <2>1 DEF Fail, LeaveStepOf, Quiet
<1>5. ASSUME NEW w \in Worker, Crash(w) PROVE LeaveStepOf(w)
  BY <1>5 DEF Crash, LeaveStepOf, Quiet, WInv, TypeInv, ClaimTypes
<1>6. ASSUME NEW w \in Worker, BeginTask(w) PROVE BeginStep(w)
  BY <1>6 DEF BeginTask, BeginStep
<1>7. ASSUME NEW w \in Worker, Poll(w) PROVE OtherStep
  <2>1. \A v \in Worker : v # w => claim'[v] = claim[v]
    BY <1>7 DEF Poll, ClaimRead, ClaimNone, ClaimReject, ClaimLost, WInv, TypeInv, ClaimTypes
  <2>. QED  BY <1>7, <2>1 DEF Poll, OtherStep
<1>8. CASE SubmitTask \/ TimePasses
  BY <1>8 DEF SubmitTask, Submit, TimePasses, Tick, OtherStep
<1>9. ASSUME NEW d \in Deployment, RolloutDone(d) \/ Edit(d) PROVE OtherStep
  BY <1>9 DEF RolloutDone, Edit, OtherStep
<1>10. ASSUME NEW w \in Worker, WorkerStep(w) \/ Renew(w)
       PROVE  \/ OtherStep
              \/ TurnStep(w) \/ BackupStep(w) \/ LeaveStepOf(w) \/ PatchStep(w) \/ BeginStep(w)
  BY <1>1, <1>2, <1>3, <1>4, <1>6, <1>7, <1>10, KindsOfTurn, KindsOfAdvance, KindsOfWait, KindsOfPatch
  DEF WorkerStep, WInv
<1>11. CASE UNCHANGED workerVars
  BY <1>11 DEF workerVars, OtherStep
<1>. QED  BY <1>5, <1>8, <1>9, <1>10, <1>11 DEF WNext

------------------------------------------------------------------------------
(***************************************************************************)
(* The shape of the workers' local state.                                  *)
(***************************************************************************)
LEMMA DeploymentsCounted ==
  /\ N \in Nat \ {0} /\ Deployment \subseteq 1 .. N + 1 /\ 1 \in Deployment
  /\ \A i \in Deployment : i \in Int /\ 1 <= i /\ i <= N /\ i + 1 \in 1 .. N + 1
BY DeploymentAssumption DEF Deployment

\* Where the restore loop goes on: nothing but the place and the counter changes.
LEMMA UndoNextIs ==
  ASSUME NEW p \in Proc
  PROVE  LET q == UndoNext(p) IN
         /\ q \in Proc
         /\ q.task = p.task /\ q.attempt = p.attempt /\ q.prev = p.prev /\ q.changed = p.changed
         /\ q.undoFailed = p.undoFailed /\ q.strays = p.strays
         /\ \/ p.changed = {} /\ p.undoFailed /\ q.pc = "incomplete"
            \/ p.changed = {} /\ ~p.undoFailed /\ q.pc = "restored"
            \/ p.changed # {} /\ q.pc = "undo" /\ q.i \in p.changed
<1>1. CASE p.changed = {}
  <2>. DEFINE pc == IF p.undoFailed THEN "incomplete" ELSE "restored"
  <2>1. UndoNext(p) = [p EXCEPT !.pc = pc] /\ pc \in Pc  BY <1>1 DEF UndoNext, Pc, Failing
  <2>2. (p.undoFailed /\ pc = "incomplete") \/ (~p.undoFailed /\ pc = "restored")  OBVIOUS
  <2>. HIDE DEF pc
  <2>. QED  BY <1>1, <2>1, <2>2 DEF Proc
<1>2. CASE p.changed # {}
  <2>. DEFINE m == CHOOSE d \in p.changed : \A e \in p.changed : e <= d
  <2>1. p.changed \in SUBSET Deployment  BY DEF Proc
  <2>2. m \in p.changed  BY <1>2, <2>1, GreatestOf
  <2>3. UndoNext(p) = [p EXCEPT !.pc = "undo", !.i = m] /\ "undo" \in Pc  BY <1>2 DEF UndoNext, Pc, Undo
  <2>. HIDE DEF m
  <2>4. m \in 1 .. N + 1  BY <2>1, <2>2, DeploymentsCounted
  <2>. QED  BY <1>2, <2>2, <2>3, <2>4 DEF Proc
<1>. QED  BY <1>1, <1>2

LEMMA UndoNextShape ==
  ASSUME NEW p \in Proc, p.task \in Task, p.prev \in Images, p.strays <= 1
  PROVE  Shape(UndoNext(p))
<1>. DEFINE q == UndoNext(p)
<1>1. /\ q \in Proc /\ q.task = p.task /\ q.prev = p.prev /\ q.changed = p.changed
      /\ q.undoFailed = p.undoFailed /\ q.strays = p.strays
      /\ \/ p.changed = {} /\ p.undoFailed /\ q.pc = "incomplete"
         \/ p.changed = {} /\ ~p.undoFailed /\ q.pc = "restored"
         \/ p.changed # {} /\ q.pc = "undo" /\ q.i \in p.changed
  BY UndoNextIs
<1> HIDE DEF q
<1>2. Shape(q)  BY <1>1 DEF Shape, Opening, Rollout, Undo, Failing
<1>. QED  BY <1>2 DEF q

\* An entry done with, or given up.
LEMMA DropIs ==
  ASSUME NEW p \in Proc
  PROVE  /\ [p EXCEPT !.changed = @ \ {p.i}] \in Proc
         /\ [p EXCEPT !.changed = @ \ {p.i}, !.undoFailed = TRUE] \in Proc
BY DEF Proc

LEMMA IdleShape == Shape(Idle)
<1>1. Idle \in Proc
  BY DeploymentsCounted DEF Idle, Proc, Pc
<1>. QED
  BY <1>1 DEF Shape, Idle, Opening, Rollout, Undo, Failing

LEMMA OpensShape ==
  ASSUME NEW w \in Worker, Shape(proc[w]), ~At(w, "idle"), NEW q, Opens(w, q)
  PROVE  Shape(q)
<1>. DEFINE p == proc[w]
<1>0. Shape(p) /\ p \in Proc /\ p.task \in Task /\ p.pc # "idle"  BY DEF Shape, At
<1>. HIDE DEF p
<1>1. CASE q = p  BY <1>0, <1>1
<1>2. CASE q = [p EXCEPT !.leaseError = TRUE]
  <2>1. /\ q \in Proc /\ q.pc = p.pc /\ q.task = p.task /\ q.i = p.i /\ q.changed = p.changed
        /\ q.prev = p.prev /\ q.undoFailed = p.undoFailed /\ q.strays = p.strays
    BY <1>0, <1>2 DEF Proc
  <2>. QED  BY <1>0, <2>1 DEF Shape
<1>3. ASSUME NEW pc \in {"failing", "backup", "rehearse", "rehearsed"}, q = [p EXCEPT !.pc = pc],
             pc = "backup" => p.pc = "start",
             p.pc \notin Undo \union Failing
      PROVE  Shape(q)
  <2>1. /\ q \in Proc /\ q.pc = pc /\ q.task = p.task /\ q.i = p.i /\ q.changed = p.changed
        /\ q.prev = p.prev /\ q.undoFailed = p.undoFailed /\ q.strays = p.strays
    BY <1>0, <1>3 DEF Proc, Pc, Failing
  <2>. QED  BY <1>0, <1>3, <2>1 DEF Shape, Opening, Rollout, Undo, Failing
<1>4. CASE p.pc = "progress" /\ q = [p EXCEPT !.pc = "read"]
  <2>1. /\ q \in Proc /\ q.pc = "read" /\ q.task = p.task /\ q.i = p.i /\ q.changed = p.changed
        /\ q.prev = p.prev /\ q.undoFailed = p.undoFailed /\ q.strays = p.strays
    BY <1>0, <1>4 DEF Proc, Pc
  <2>2. p.i = 1 /\ 1 .. p.i - 1 = {}  BY <1>0, <1>4 DEF Shape, Opening
  <2>. QED  BY <1>0, <1>4, <2>1, <2>2, DeploymentsCounted DEF Shape, Opening, Rollout, Undo, Failing
<1>. QED
  BY <1>1, <1>2, <1>3, <1>4 DEF Opens, Opening, Failed, Undo, Failing, p

LEMMA ReadsShape ==
  ASSUME EnvTypes, NEW w \in Worker, Shape(proc[w]), NEW q, Reads(w, q)
  PROVE  Shape(q)
<1>. DEFINE p == proc[w]
<1>0. /\ Shape(p) /\ p \in Proc /\ p.task \in Task /\ p.pc = "read" /\ p.i \in Deployment
      /\ p.changed = {} /\ p.strays <= 1 /\ ~p.undoFailed
      /\ image[p.i] \in Image /\ \A e \in 1 .. p.i - 1 : p.prev[e] \in Image
  BY DEF Shape, Reads, EnvTypes, Images, Undo, Failing
<1>. DEFINE x == [p.prev EXCEPT ![p.i] = image[p.i]]
<1>1. /\ x \in [Deployment -> Image \union {Null}]
      /\ \A e \in Deployment : e <= p.i => x[e] \in Image
  BY <1>0, DeploymentsCounted DEF Proc, Deployment
<1>2. CASE p.i < N /\ q = [p EXCEPT !.prev[p.i] = image[p.i], !.i = p.i + 1]
  <2>1. /\ q.pc = "read" /\ q.task = p.task /\ q.i = p.i + 1 /\ q.changed = {} /\ q.prev = x
        /\ q.undoFailed = p.undoFailed /\ q.strays = p.strays
    BY <1>0, <1>2 DEF Proc
  <2>2. p.i + 1 \in Deployment /\ \A e \in 1 .. q.i - 1 : e \in Deployment /\ e <= p.i
    BY <1>0, <1>2, <2>1, DeploymentsCounted DEF Deployment
  <2>3. q \in Proc
    <3>1. p.i + 1 \in 1 .. N + 1  BY <1>0, DeploymentsCounted
    <3>. HIDE DEF x
    <3>2. q = [p EXCEPT !.prev = x, !.i = p.i + 1]  BY <1>0, <1>2 DEF Proc, x
    <3>. QED  BY <1>0, <1>1, <3>1, <3>2 DEF Proc
  <2>. HIDE DEF x, p
  <2>. QED  BY <1>0, <1>1, <2>1, <2>2, <2>3 DEF Shape, Opening, Rollout, Undo, Failing
<1>3. CASE p.i = N /\ q = [p EXCEPT !.prev[p.i] = image[p.i], !.i = 1, !.pc = "advance"]
  <2>1. /\ q.pc = "advance" /\ q.task = p.task /\ q.i = 1 /\ q.changed = {} /\ q.prev = x
        /\ q.undoFailed = p.undoFailed /\ q.strays = p.strays
    BY <1>0, <1>3 DEF Proc
  <2>2. x \in Images
    <3>1. \A e \in Deployment : e <= p.i  BY <1>3, DeploymentsCounted
    <3>. HIDE DEF x, p
    <3>. QED  BY <1>1, <3>1 DEF Images
  <2>3. q \in Proc
    <3>1. 1 \in 1 .. N + 1 /\ "advance" \in Pc  BY DeploymentsCounted DEF Pc, Rollout
    <3>. HIDE DEF x
    <3>2. q = [p EXCEPT !.prev = x, !.i = 1, !.pc = "advance"]  BY <1>0, <1>3 DEF Proc, x
    <3>. QED  BY <1>0, <1>1, <3>1, <3>2 DEF Proc
  <2>. HIDE DEF x, p
  <2>. QED  BY <1>0, <1>1, <2>1, <2>2, <2>3 DEF Shape, Opening, Rollout, Undo, Failing
<1>. QED  BY <1>2, <1>3 DEF Reads

LEMMA ForwardsShape ==
  ASSUME NEW w \in Worker, Shape(proc[w]), NEW q, Forwards(w, q)
  PROVE  Shape(q)
<1>. DEFINE p == proc[w]
<1>0. /\ p.pc \in Rollout /\ p.task \in Task /\ p.prev \in Images /\ p.strays <= 1 /\ ~p.undoFailed
      /\ Shape(p) /\ p \in Proc
  BY DEF Shape, Forwards, Rollout, Undo, Failing
<1>1. /\ p.i \in 1 .. N + 1 /\ p.i \in Int /\ p.changed \subseteq Deployment
      /\ p.pc = "advance" => p.changed \subseteq 1 .. p.i - 1
      /\ p.pc \in {"patch", "health", "wait"} =>
           p.i \in p.changed /\ p.i \in Deployment /\ p.changed \subseteq 1 .. p.i
  BY <1>0, DeploymentsCounted DEF Shape, Proc
<1>2. CASE p.pc = "advance" /\ q = [p EXCEPT !.pc = "finish"]
  <2>1. /\ q \in Proc /\ q.pc = "finish" /\ q.task = p.task /\ q.prev = p.prev
        /\ q.undoFailed = p.undoFailed /\ q.strays = p.strays
    BY <1>0, <1>2 DEF Proc, Pc
  <2>. HIDE DEF p
  <2>. QED  BY <1>0, <2>1 DEF Shape, Opening, Rollout, Undo, Failing
<1>3. ASSUME p.pc = "advance", NEW d \in Todo(w)
      PROVE  /\ d \in Deployment /\ p.i <= d /\ Notes(p, d) \in Proc
             /\ Notes(p, d).task = p.task /\ Notes(p, d).prev = p.prev /\ Notes(p, d).strays = p.strays
             /\ Notes(p, d).undoFailed = p.undoFailed /\ Notes(p, d).i = d
             /\ Notes(p, d).changed = p.changed \union {d}
  <2>1. d \in Deployment /\ p.i <= d /\ d \in 1 .. N + 1
    BY <1>1, <1>3, DeploymentsCounted DEF Todo, Deployment
  <2>. HIDE DEF p
  <2>. QED  BY <1>0, <2>1 DEF Notes, Proc
<1>4. CASE p.pc = "advance" /\ \E d \in Todo(w) : q = [Notes(p, d) EXCEPT !.pc = "patch"]
  <2>1. PICK d \in Todo(w) : q = [Notes(p, d) EXCEPT !.pc = "patch"]  BY <1>4
  <2>. DEFINE x == Notes(p, d)
  <2>2. /\ d \in Deployment /\ p.i <= d /\ x \in Proc
        /\ x.task = p.task /\ x.prev = p.prev /\ x.strays = p.strays /\ x.undoFailed = p.undoFailed
        /\ x.i = d /\ x.changed = p.changed \union {d}
    BY <1>3, <1>4
  <2>3. p.changed \union {d} \subseteq 1 .. d
    BY <1>1, <1>4, <2>2, DeploymentsCounted
  <2>. HIDE DEF x, p
  <2>4. /\ q \in Proc /\ q.pc = "patch" /\ q.task = p.task /\ q.prev = p.prev /\ q.i = d
        /\ q.changed = p.changed \union {d} /\ q.undoFailed = p.undoFailed /\ q.strays = p.strays
    BY <2>1, <2>2 DEF Proc, Pc, Rollout, x
  <2>. QED  BY <1>0, <2>3, <2>4 DEF Shape, Opening, Rollout, Undo, Failing
<1>5. CASE p.pc = "advance" /\ \E d \in Todo(w) : q = UndoNext(Notes(p, d))
  BY <1>0, <1>3, <1>5, UndoNextShape
<1>6. ASSUME NEW pc \in {"health", "wait"}, p.pc \in {"patch", "health"}, q = [p EXCEPT !.pc = pc]
      PROVE  Shape(q)
  <2>1. /\ q \in Proc /\ q.pc = pc /\ q.task = p.task /\ q.prev = p.prev /\ q.i = p.i
        /\ q.changed = p.changed /\ q.undoFailed = p.undoFailed /\ q.strays = p.strays
    BY <1>0, <1>6 DEF Proc, Pc, Rollout
  <2>. HIDE DEF p
  <2>. QED  BY <1>0, <1>1, <1>6, <2>1 DEF Shape, Opening, Rollout, Undo, Failing
<1>7. CASE p.pc = "wait" /\ q = [p EXCEPT !.pc = "advance", !.i = @ + 1]
  <2>1. p.i + 1 \in 1 .. N + 1 /\ "advance" \in Pc /\ p.i + 1 - 1 = p.i
    BY <1>1, <1>7, DeploymentsCounted DEF Pc, Rollout
  <2>2. /\ q \in Proc /\ q.pc = "advance" /\ q.task = p.task /\ q.prev = p.prev /\ q.i = p.i + 1
        /\ q.changed = p.changed /\ q.undoFailed = p.undoFailed /\ q.strays = p.strays
    BY <1>0, <1>7, <2>1 DEF Proc
  <2>. HIDE DEF p
  <2>. QED  BY <1>0, <1>1, <1>7, <2>1, <2>2 DEF Shape, Opening, Rollout, Undo, Failing
<1>8. CASE q = UndoNext(p)
  BY <1>0, <1>8, UndoNextShape
<1>. QED  BY <1>2, <1>4, <1>5, <1>6, <1>7, <1>8 DEF Forwards

LEMMA BacksShape ==
  ASSUME NEW w \in Worker, Shape(proc[w]), NEW q, Backs(w, q)
  PROVE  Shape(q)
<1>. DEFINE p == proc[w]
<1>0. p.pc \in Undo /\ p.task \in Task /\ p.prev \in Images /\ p.strays <= 1 /\ p.i \in p.changed /\ p \in Proc
  BY DEF Shape, Backs, Undo
<1>1. ASSUME NEW pc \in {"unpatch", "unwait"}, q = [p EXCEPT !.pc = pc]
      PROVE  Shape(q)
  <2>1. /\ q \in Proc /\ q.pc = pc /\ q.task = p.task /\ q.prev = p.prev /\ q.i = p.i
        /\ q.changed = p.changed /\ q.strays = p.strays
    BY <1>0, <1>1 DEF Proc, Pc, Undo
  <2>. HIDE DEF p
  <2>. QED  BY <1>0, <1>1, <2>1 DEF Shape, Opening, Rollout, Undo, Failing
<1>2. CASE q = Undone(p)
  <2>. DEFINE x == [p EXCEPT !.changed = @ \ {p.i}]
  <2>1. x \in Proc /\ x.task = p.task /\ x.prev = p.prev /\ x.strays = p.strays  BY <1>0, DropIs DEF Proc
  <2>2. q = UndoNext(x)  BY <1>2 DEF Undone
  <2>. HIDE DEF x, p
  <2>. QED  BY <1>0, <2>1, <2>2, UndoNextShape
<1>3. CASE q = NotUndone(p)
  <2>. DEFINE x == [p EXCEPT !.changed = @ \ {p.i}, !.undoFailed = TRUE]
  <2>1. x \in Proc /\ x.task = p.task /\ x.prev = p.prev /\ x.strays = p.strays  BY <1>0, DropIs DEF Proc
  <2>2. q = UndoNext(x)  BY <1>3 DEF NotUndone
  <2>. HIDE DEF x, p
  <2>. QED  BY <1>0, <2>1, <2>2, UndoNextShape
<1>. QED  BY <1>1, <1>2, <1>3 DEF Backs

LEMMA TurnsShape ==
  ASSUME EnvTypes, NEW w \in Worker, Shape(proc[w]), ~At(w, "idle"), NEW q, Turns(w, q)
  PROVE  Shape(q)
BY OpensShape, ReadsShape, ForwardsShape, BacksShape DEF Turns

\* One more patch is counted at most once.
LEMMA CountedShape ==
  ASSUME NEW w \in Worker, NEW q, Shape(q), q.strays = 0
  PROVE  Shape(Counted(w, q))
<1>. DEFINE x == [q EXCEPT !.strays = @ + 1]
<1>1. /\ x \in Proc /\ x.pc = q.pc /\ x.task = q.task /\ x.i = q.i /\ x.changed = q.changed
      /\ x.prev = q.prev /\ x.undoFailed = q.undoFailed /\ x.strays = 1
  BY DEF Shape, Proc
<1>. HIDE DEF x
<1>2. Shape(x)  BY <1>1 DEF Shape
<1>. QED  BY <1>2 DEF Counted, x

\* What a patch goes on with is what a turn would go on with, the Deployment as patched.
LEMMA AfterPatchIs ==
  ASSUME NEW p, Shape(p), p.pc \in {"patch", "unpatch"}, NEW q \in AfterPatch(p)
  PROVE  Shape(q) /\ q.task = p.task /\ q.attempt = p.attempt /\ q.strays = p.strays /\ q.prev = p.prev
<1>0. p.pc \in Rollout \union Undo /\ p \in Proc /\ p.task \in Task /\ p.prev \in Images /\ p.strays <= 1
      /\ p.i \in p.changed
  BY DEF Shape, Rollout, Undo
<1>1. CASE q = UndoNext(p)
  BY <1>0, <1>1, UndoNextShape, UndoNextIs
<1>2. CASE q = NotUndone(p)
  <2>. DEFINE x == [p EXCEPT !.changed = @ \ {p.i}, !.undoFailed = TRUE]
  <2>1. /\ x \in Proc /\ x.task = p.task /\ x.prev = p.prev /\ x.strays = p.strays
        /\ x.attempt = p.attempt
    BY <1>0, DropIs DEF Proc
  <2>2. q = UndoNext(x)  BY <1>2 DEF NotUndone
  <2>. HIDE DEF x
  <2>. QED  BY <1>0, <2>1, <2>2, UndoNextShape, UndoNextIs
<1>3. ASSUME NEW pc \in {"health", "unwait"}, q = [p EXCEPT !.pc = pc], pc = "health" <=> p.pc = "patch"
      PROVE  Shape(q) /\ q.task = p.task /\ q.attempt = p.attempt /\ q.strays = p.strays /\ q.prev = p.prev
  <2>1. /\ q \in Proc /\ q.pc = pc /\ q.task = p.task /\ q.prev = p.prev /\ q.i = p.i
        /\ q.changed = p.changed /\ q.undoFailed = p.undoFailed /\ q.strays = p.strays /\ q.attempt = p.attempt
    BY <1>0, <1>3 DEF Proc, Pc, Rollout, Undo
  <2>2. p.pc = "patch" => ~p.undoFailed /\ p.changed \subseteq 1 .. p.i  BY DEF Shape, Undo, Failing
  <2>. QED  BY <1>0, <1>3, <2>1, <2>2 DEF Shape, Opening, Rollout, Undo, Failing
<1>. QED  BY <1>1, <1>2, <1>3 DEF AfterPatch

------------------------------------------------------------------------------
(***************************************************************************)
(* What a worker at work knows of its task: it has been claimed once by    *)
(* this attempt, so that the worker holds it only as long as nobody else   *)
(* has claimed it, and a lease that is held clears one patch.              *)
(***************************************************************************)
LEMMA TurnsIs ==
  ASSUME NEW w \in Worker, Shape(proc[w]), ~At(w, "idle"), NEW q, Turns(w, q)
  PROVE  LET p == proc[w] IN
         /\ q.task = p.task /\ q.attempt = p.attempt /\ q.strays = p.strays
         /\ q.pc \in {"patch", "unpatch"} => q.pc = p.pc \/ LeaseHeld(p.task, w)
         /\ q.pc \in {"rehearse", "rehearsed"} =>
              p.pc \in {"rehearse", "rehearsed"} \/ row[p.task].action = "preflight"
         /\ q.pc \in Backed => p.pc \in Backed
<1>. DEFINE p == proc[w]
<1>0. p \in Proc  BY DEF Shape
<1>. USE DEF Backed, Rollout, Undo
<1>1. CASE Opens(w, q)
  <2>. DEFINE same == q.task = p.task /\ q.attempt = p.attempt /\ q.strays = p.strays
  <2>1. CASE q = p  BY <2>1
  <2>2. CASE q = [p EXCEPT !.leaseError = TRUE]  BY <1>0, <2>2 DEF Proc
  <2>3. ASSUME NEW pc \in {"failing", "backup", "rehearse", "rehearsed", "read"}, q = [p EXCEPT !.pc = pc]
        PROVE  same /\ q.pc = pc
    BY <1>0, <2>3 DEF Proc
  <2>. QED  BY <1>1, <2>1, <2>2, <2>3 DEF Opens, Failed
<1>2. CASE Reads(w, q)
  BY <1>0, <1>2 DEF Reads, Proc
<1>3. ASSUME NEW x \in Proc, x.task = p.task, x.attempt = p.attempt, x.strays = p.strays, q = UndoNext(x)
      PROVE  q.task = p.task /\ q.attempt = p.attempt /\ q.strays = p.strays
             /\ q.pc \in {"undo", "restored", "incomplete"}
  BY <1>3, UndoNextIs
<1>4. CASE Forwards(w, q)
  <2>1. ASSUME NEW d \in Todo(w), p.pc = "advance"
        PROVE  /\ Notes(p, d) \in Proc /\ Notes(p, d).task = p.task
               /\ Notes(p, d).attempt = p.attempt /\ Notes(p, d).strays = p.strays
    <3>1. d \in Deployment /\ d \in 1 .. N + 1
      <4>1. p.i \in 1 .. N + 1 /\ d \in p.i .. N  BY <1>0, <2>1 DEF Todo, Proc
      <4>. QED  BY <4>1, DeploymentsCounted DEF Deployment
    <3>. QED  BY <1>0, <3>1 DEF Notes, Proc
  <2>2. CASE \E d \in Todo(w) : p.pc = "advance" /\ LeaseHeld(p.task, w) /\ q = [Notes(p, d) EXCEPT !.pc = "patch"]
    <3>1. PICK d \in Todo(w) : p.pc = "advance" /\ LeaseHeld(p.task, w) /\ q = [Notes(p, d) EXCEPT !.pc = "patch"]
      BY <2>2
    <3>. DEFINE x == Notes(p, d)
    <3>2. x \in Proc /\ x.task = p.task /\ x.attempt = p.attempt /\ x.strays = p.strays
      BY <2>1, <3>1
    <3>. HIDE DEF x
    <3>3. q.task = p.task /\ q.attempt = p.attempt /\ q.strays = p.strays /\ q.pc = "patch"
      BY <3>1, <3>2 DEF Proc, x
    <3>. QED  BY <3>1, <3>3
  <2>3. CASE \E d \in Todo(w) : p.pc = "advance" /\ q = UndoNext(Notes(p, d))
    BY <1>3, <2>1, <2>3
  <2>4. CASE p.pc \in Rollout /\ q = UndoNext(p)
    BY <1>0, <1>3, <2>4
  <2>5. ASSUME p.pc \in Rollout, NEW pc \in {"finish", "health", "wait", "advance"},
               q = [p EXCEPT !.pc = pc] \/ q = [p EXCEPT !.pc = pc, !.i = @ + 1]
        PROVE  q.task = p.task /\ q.attempt = p.attempt /\ q.strays = p.strays /\ q.pc = pc
    BY <1>0, <2>5 DEF Proc
  <2>. QED  BY <1>4, <2>2, <2>3, <2>4, <2>5 DEF Forwards
<1>5. CASE Backs(w, q)
  <2>1. CASE q = Undone(p)
    <3>1. [p EXCEPT !.changed = @ \ {p.i}] \in Proc  BY <1>0, DropIs
    <3>. QED  BY <1>0, <1>3, <1>5, <2>1, <3>1 DEF Undone, Backs, Proc
  <2>2. CASE q = NotUndone(p)
    <3>1. [p EXCEPT !.changed = @ \ {p.i}, !.undoFailed = TRUE] \in Proc  BY <1>0, DropIs
    <3>. QED  BY <1>0, <1>3, <1>5, <2>2, <3>1 DEF NotUndone, Backs, Proc
  <2>3. CASE q # Undone(p) /\ q # NotUndone(p)
    BY <1>0, <1>5, <2>3 DEF Backs, Proc
  <2>. QED  BY <2>1, <2>2, <2>3
<1>. QED  BY <1>1, <1>2, <1>4, <1>5 DEF Turns

LEMMA TurnsWork ==
  ASSUME NEW w \in Worker, Shape(proc[w]), ~At(w, "idle"), AtWork(w, proc[w]), NEW q, Turns(w, q)
  PROVE  AtWork(w, q)
BY TurnsIs DEF AtWork, Holds, LeaseHeld

\* A running task was running before, held by the same attempt, or has just been claimed.
LEMMA RunningKept ==
  ASSUME TypeInv, [Next]_queueVars, NEW t \in Task, row'[t].status = "running"
  PROVE  \/ /\ row[t].status = "running" /\ row'[t].claimedBy = row[t].claimedBy
            /\ row'[t].attempt = row[t].attempt
         \/ \E v \in Worker : /\ claim[v].step = "claim"
                              /\ row'[t].claimedBy = v /\ row'[t].attempt = row[t].attempt + 1
<1>0. row[t] \in Row  BY DEF TypeInv, RowTypes
<1>1. CASE row'[t] = row[t]
  BY <1>1
<1>2. CASE row'[t] # row[t]
  <2>1. RowStep(t)  BY <1>2, StepsOnRows DEF queueVars
  <2>2. CASE \E action \in Action, payload \in Payload, ttl \in 0..Ttl, valid \in BOOLEAN :
               row'[t] = QueuedRow(action, payload, ttl, valid)
    BY <2>2 DEF QueuedRow, NoRow
  <2>3. CASE row'[t] = RejectedRow(row[t])
    BY <1>0, <2>3 DEF RejectedRow, Row
  <2>4. CASE \E v \in Worker : claim[v].step = "claim" /\ row'[t] = ClaimedRow(row[t], v)
    BY <1>0, <2>4 DEF ClaimedRow, Row
  <2>5. CASE row'[t] = [row[t] EXCEPT !.lease = Lease]
    BY <1>0, <2>5 DEF Row
  <2>6. CASE \E backup \in Backup : row'[t] = [row[t] EXCEPT !.backup = backup]
    BY <1>0, <2>6 DEF Row
  <2>7. CASE \E status \in {"succeeded", "failed"}, result \in Result \union {Null} :
               \E phase \in TerminalPhase(status) : row'[t] = FinishedRow(row[t], status, phase, result)
    BY <1>0, <2>7 DEF FinishedRow, Row
  <2>8. CASE \E result \in Result :
               row'[t] = [row[t] EXCEPT !.status = "failed", !.phase = "failed", !.slot = FALSE,
                                        !.result = result]
    BY <1>0, <2>8 DEF Row
  <2>9. CASE row'[t] = [row[t] EXCEPT !.lease = LeaseAfterTick(@), !.ttl = TtlAfterTick(@)]
    BY <1>0, <2>9 DEF Row
  <2>. QED  BY <2>1, <2>2, <2>3, <2>4, <2>5, <2>6, <2>7, <2>8, <2>9 DEF RowStep
<1>. QED  BY <1>1, <1>2

\* A worker at work does not come to hold a task it had lost.
LEMMA HeldBefore ==
  ASSUME TypeInv, [Next]_queueVars, NEW w \in Worker, claim[w].step = "none", NEW q, q.task \in Task,
         Holds(w, q)'
  PROVE  Holds(w, q) /\ row'[q.task].attempt = row[q.task].attempt
BY RunningKept DEF Holds

LEMMA WorkKept ==
  ASSUME TypeInv, [Next]_queueVars, NEW w \in Worker, NEW q, q.task \in Task, AtWork(w, q), claim'[w] = claim[w]
  PROVE  AtWork(w, q)'
<1>1. Holds(w, q)' => Holds(w, q) /\ row'[q.task].attempt = row[q.task].attempt
  BY HeldBefore DEF AtWork
<1>2. Exists(q.task)' /\ row'[q.task].action = row[q.task].action
  BY RowKept DEF AtWork, KeptRow
<1>3. row[q.task].backup # Null => row'[q.task].backup # Null
  BY RowKept, BackupAssumption DEF AtWork, KeptRow
<1>. QED  BY <1>1, <1>2, <1>3 DEF AtWork

\* The attempt a worker begins.
LEMMA BeginsWork ==
  ASSUME TypeInv, [Next]_queueVars, NEW w \in Worker, BeginStep(w),
         proc'[w] = [Idle EXCEPT !.pc = "start", !.task = claim[w].task, !.attempt = row'[claim[w].task].attempt]
  PROVE  Shape(proc'[w]) /\ AtWork(w, proc[w])'
<1>. DEFINE q == [Idle EXCEPT !.pc = "start", !.task = claim[w].task, !.attempt = row'[claim[w].task].attempt]
<1>1. PICK t \in Task : t = claim[w].task /\ row' = [row EXCEPT ![t] = ClaimedRow(row[t], w)] /\ claim' = [claim EXCEPT ![w] = NoClaim]
  BY DEF BeginStep, ClaimWon, TypeInv, ClaimTypes
<1>2. row'[t].status = "running" /\ row'[t].attempt \in Nat /\ claim'[w].step = "none"
  <2>1. row[t] \in Row  BY DEF TypeInv, RowTypes
  <2>. QED  BY <1>1, <2>1 DEF ClaimedRow, Row, NoClaim, TypeInv, RowTypes, ClaimTypes
<1>3. /\ q.pc = "start" /\ q.task = t /\ q.attempt = row'[t].attempt /\ q.strays = 0
      /\ q.i = 1 /\ q.changed = {} /\ q.undoFailed = FALSE
  BY <1>1 DEF Idle
<1>4. q \in Proc
  <2>1. Idle \in Proc /\ "start" \in Pc  BY IdleShape DEF Shape, Pc
  <2>2. \A x \in Proc, a \in Nat : [x EXCEPT !.pc = "start", !.task = t, !.attempt = a] \in Proc
    BY <2>1 DEF Proc
  <2>. QED  BY <1>1, <1>2, <2>1, <2>2
<1> HIDE DEF q
<1>5. Shape(q)  BY <1>3, <1>4 DEF Shape, Opening, Rollout, Undo, Failing
<1>6. proc'[w] = q  BY DEF q
<1>. QED
  BY <1>2, <1>3, <1>5, <1>6 DEF AtWork, Exists, Holds, Backed, Rollout, Undo

LEMMA PatchesWork ==
  ASSUME TypeInv, NEW w \in Worker, ShapeInv, AtWork(w, proc[w]), PatchStep(w)
  PROVE  Shape(proc'[w]) /\ AtWork(w, proc[w])'
<1>1. PICK p : p = proc[w]  OBVIOUS
<1>2. PICK q \in AfterPatch(p) : Goto(w, Counted(w, q))  BY <1>1 DEF PatchStep
<1>3. p.pc \in {"patch", "unpatch"} /\ p.strays = 0 /\ Shape(p)
  BY <1>1 DEF PatchStep, AtWork, ShapeInv
<1>4. Shape(q) /\ q.task = p.task /\ q.attempt = p.attempt /\ q.strays = 0
  BY <1>3, AfterPatchIs
<1>5. q.pc \in {"health", "unwait", "undo", "restored", "incomplete"}
  <2>1. p \in Proc  BY <1>3 DEF Shape
  <2>2. UndoNext(p).pc \in {"undo", "restored", "incomplete"}  BY <2>1, UndoNextIs
  <2>3. NotUndone(p).pc \in {"undo", "restored", "incomplete"}
    <3>1. [p EXCEPT !.changed = @ \ {p.i}, !.undoFailed = TRUE] \in Proc  BY <2>1, DropIs
    <3>. QED  BY <3>1, UndoNextIs DEF NotUndone
  <2>. QED  BY <2>1, <2>2, <2>3 DEF AfterPatch, Proc
<1>6. PICK x : x = Counted(w, q)  OBVIOUS
<1>7. Shape(x)  BY <1>4, <1>6, CountedShape
<1>8. x.task = p.task /\ x.pc = q.pc /\ x.attempt = p.attempt /\ (Owns(w) => x.strays = 0)
  BY <1>4, <1>6 DEF Counted, Shape, Proc
<1>9. Holds(w, p) => Owns(w)  BY <1>1 DEF AtWork, Holds, Owns, MyTask
<1>10. AtWork(w, p)  BY <1>1
<1>11. Holds(w, x) <=> Holds(w, p)  BY <1>8 DEF Holds
<1>12. AtWork(w, x)
  <2>1. p.pc \in Backed /\ x.pc \notin {"patch", "unpatch", "rehearse", "rehearsed"}
    BY <1>3, <1>5, <1>8 DEF Backed, Rollout, Undo
  <2>. QED  BY <1>8, <1>9, <1>10, <1>11, <2>1 DEF AtWork
<1>13. UNCHANGED <<row, claim>>  BY DEF PatchStep, queueVars
<1>14. proc'[w] = x  BY <1>2, <1>6 DEF Goto, ShapeInv
<1>. QED  BY <1>7, <1>12, <1>13, <1>14 DEF AtWork, Holds, Exists

\* One worker moves, the others stay where they are.
LEMMA OneMoves ==
  ASSUME WInv, [Next]_queueVars, NEW w \in Worker, NEW q, Goto(w, q), Shape(q),
         q.pc # "idle" => AtWork(w, q)',
         \A v \in Worker \ {w} : ~At(v, "idle") => claim'[v] = claim[v]
  PROVE  ShapeInv' /\ WorkInv'
<1>1. q \in Proc  BY DEF Shape
<1>2. /\ proc' \in [Worker -> Proc] /\ proc'[w] = q
      /\ \A v \in Worker \ {w} : proc'[v] = proc[v]
  BY <1>1 DEF Goto, WInv, ShapeInv
<1>3. ShapeInv'
  BY <1>2 DEF WInv, ShapeInv
<1>4. ASSUME NEW v \in Worker \ {w}, ~At(v, "idle")
      PROVE  AtWork(v, proc[v])'
  <2>1. PICK p : p = proc[v]  OBVIOUS
  <2>2. p.task \in Task /\ AtWork(v, p)  BY <1>4, <2>1 DEF WInv, ShapeInv, WorkInv, Shape, At
  <2>3. AtWork(v, p)'  BY <1>4, <2>2, WorkKept DEF WInv
  <2>. QED  BY <1>2, <2>1, <2>3 DEF AtWork, Holds, Exists
<1>5. AtWork(w, proc[w])' \/ At(w, "idle")'
  BY <1>2 DEF AtWork, Holds, Exists, At
<1>. QED  BY <1>2, <1>3, <1>4, <1>5 DEF WorkInv, At

LEMMA NobodyMoves ==
  ASSUME WInv, [Next]_queueVars, UNCHANGED proc,
         \A v \in Worker : ~At(v, "idle") => claim'[v] = claim[v]
  PROVE  ShapeInv' /\ WorkInv'
<1>1. ShapeInv'  BY DEF WInv, ShapeInv
<1>2. ASSUME NEW v \in Worker, ~At(v, "idle")
      PROVE  AtWork(v, proc[v])'
  <2>1. PICK p : p = proc[v]  OBVIOUS
  <2>2. p.task \in Task /\ AtWork(v, p)  BY <1>2, <2>1 DEF WInv, ShapeInv, WorkInv, Shape, At
  <2>3. AtWork(v, p)'  BY <1>2, <2>2, WorkKept DEF WInv
  <2>. QED  BY <2>1, <2>3 DEF AtWork, Holds, Exists
<1>. QED  BY <1>1, <1>2 DEF WorkInv, At

LEMMA WorkersKept ==
  ASSUME WInv, [WNext]_workerVars
  PROVE  ShapeInv' /\ WorkInv'
<1>0. [Next]_queueVars  BY StepOfQueue
<1>1. CASE OtherStep
  BY <1>0, <1>1, NobodyMoves DEF OtherStep
<1>2. ASSUME NEW w \in Worker, TurnStep(w) PROVE ShapeInv' /\ WorkInv'
  <2>1. PICK q : Turns(w, q) /\ Goto(w, q)  BY <1>2 DEF TurnStep
  <2>2. ~At(w, "idle") /\ UNCHANGED claim  BY <1>2 DEF TurnStep
  <2>3. Shape(q)  BY <2>1, <2>2, TurnsShape DEF WInv, ShapeInv
  <2>4. AtWork(w, q) /\ q.task \in Task
    <3>1. Shape(proc[w]) /\ AtWork(w, proc[w])  BY <2>2 DEF WInv, ShapeInv, WorkInv
    <3>2. proc[w].task \in Task  BY <2>2, <3>1 DEF Shape, At
    <3>. QED  BY <2>1, <2>2, <3>1, <3>2, TurnsWork, TurnsIs
  <2>5. AtWork(w, q)'  BY <1>0, <2>2, <2>4, WorkKept DEF WInv
  <2>. QED  BY <1>0, <2>1, <2>2, <2>3, <2>5, OneMoves
<1>3. ASSUME NEW w \in Worker, BackupStep(w) PROVE ShapeInv' /\ WorkInv'
  <2>. DEFINE p == proc[w]
  <2>1. PICK q : q = [p EXCEPT !.pc = "progress"]  OBVIOUS
  <2>2. Shape(p) /\ AtWork(w, p) /\ p.pc = "backup" /\ p \in Proc /\ p.task \in Task
    BY <1>3 DEF BackupStep, At, WInv, ShapeInv, WorkInv, Shape
  <2>3. /\ q \in Proc /\ q.pc = "progress" /\ q.task = p.task /\ q.i = p.i /\ q.changed = p.changed
        /\ q.prev = p.prev /\ q.undoFailed = p.undoFailed /\ q.strays = p.strays /\ q.attempt = p.attempt
    BY <2>1, <2>2 DEF Proc, Pc
  <2>4. Shape(q)  BY <2>2, <2>3 DEF Shape, Opening, Rollout, Undo, Failing
  <2>5. Goto(w, q) /\ UNCHANGED claim /\ row'[q.task].backup # Null
    <3>1. PICK backup \in Backup : RecordBackup(p.task, w, backup)  BY <1>3 DEF BackupStep, MyTask
    <3>2. row[p.task] \in Row  BY <2>2 DEF WInv, TypeInv, RowTypes
    <3>3. row'[p.task].backup = backup
      BY <2>2, <3>1, <3>2 DEF RecordBackup, WInv, TypeInv, RowTypes, Row
    <3>. QED  BY <1>3, <2>1, <2>3, <3>1, <3>3, BackupAssumption DEF BackupStep, RecordBackup
  <2>6. AtWork(w, q)'
    <3>1. PICK x : x = p  OBVIOUS
    <3>2. AtWork(w, x)' /\ x.task = q.task /\ x.strays = q.strays /\ x.attempt = q.attempt
      BY <1>0, <2>2, <2>3, <2>5, <3>1, WorkKept DEF WInv
    <3>. QED  BY <2>3, <2>5, <3>2 DEF AtWork, Holds, Exists
  <2>. QED  BY <1>0, <2>4, <2>5, <2>6, OneMoves
<1>4. ASSUME NEW w \in Worker, LeaveStepOf(w) PROVE ShapeInv' /\ WorkInv'
  <2>1. PICK q : q = Idle  OBVIOUS
  <2>2. Shape(q) /\ q.pc = "idle"  BY <2>1, IdleShape DEF Idle
  <2>3. Goto(w, q) /\ \A v \in Worker \ {w} : claim'[v] = claim[v]  BY <1>4, <2>1 DEF LeaveStepOf
  <2>. QED  BY <1>0, <2>2, <2>3, OneMoves
<1>5. ASSUME NEW w \in Worker, PatchStep(w) PROVE ShapeInv' /\ WorkInv'
  <2>1. PICK q : q = proc'[w]  OBVIOUS
  <2>2. AtWork(w, proc[w])  BY <1>5 DEF PatchStep, WInv, WorkInv, At
  <2>3. Shape(q) /\ AtWork(w, proc[w])'  BY <1>5, <2>1, <2>2, PatchesWork DEF WInv
  <2>4. AtWork(w, q)'  BY <2>1, <2>3 DEF AtWork, Holds, Exists
  <2>5. Goto(w, q) /\ UNCHANGED claim
    BY <1>5, <2>1 DEF PatchStep, Goto, queueVars, WInv, ShapeInv
  <2>. QED  BY <1>0, <2>3, <2>4, <2>5, OneMoves
<1>6. ASSUME NEW w \in Worker, BeginStep(w) PROVE ShapeInv' /\ WorkInv'
  <2>. DEFINE t == claim[w].task
  <2>1. \A v \in Worker \ {w} : claim'[v] = claim[v]
    BY <1>6 DEF BeginStep, ClaimWon, WInv, TypeInv, ClaimTypes
  <2>2. CASE UNCHANGED proc
    BY <1>0, <1>6, <2>1, <2>2, NobodyMoves DEF BeginStep
  <2>3. CASE Goto(w, [Idle EXCEPT !.pc = "start", !.task = t, !.attempt = row'[t].attempt])
    <3>1. PICK q : q = [Idle EXCEPT !.pc = "start", !.task = t, !.attempt = row'[t].attempt]  OBVIOUS
    <3>2. Goto(w, q) /\ proc'[w] = q  BY <2>3, <3>1 DEF Goto, WInv, ShapeInv
    <3>3. Shape(q) /\ AtWork(w, proc[w])'  BY <1>0, <1>6, <3>1, <3>2, BeginsWork DEF WInv
    <3>4. AtWork(w, q)'  BY <3>2, <3>3 DEF AtWork, Holds, Exists
    <3>. QED  BY <1>0, <2>1, <3>2, <3>3, <3>4, OneMoves
  <2>. QED  BY <1>6, <2>2, <2>3 DEF BeginStep
<1>. QED  BY <1>1, <1>2, <1>3, <1>4, <1>5, <1>6, Kinds

------------------------------------------------------------------------------
(***************************************************************************)
(* The other parts of the invariant: claims, the environment, and the rows *)
(* as the controller fills them.                                           *)
(***************************************************************************)
LEMMA NoneKept ==
  ASSUME TypeInv, NoneInv, [Next]_queueVars
  PROVE  NoneInv'
<1>. USE DEF NoneInv, TypeInv, ClaimTypes
<1>1. CASE UNCHANGED claim  BY <1>1
<1>2. ASSUME NEW w \in Worker, ClaimRead(w) PROVE NoneInv'
  BY <1>2 DEF ClaimRead
<1>3. ASSUME NEW w \in Worker, ClaimReject(w) PROVE NoneInv'
  BY <1>3 DEF ClaimReject, NoClaim
<1>4. ASSUME NEW w \in Worker, ClaimNone(w) \/ ClaimWon(w) \/ ClaimLost(w) \/ ClaimAbandoned(w) PROVE NoneInv'
  BY <1>4 DEF ClaimNone, ClaimWon, ClaimLost, ClaimAbandoned
<1>5. CASE Next
  BY <1>1, <1>2, <1>3, <1>4, <1>5
  DEF Next, ClaimStep, Submit, Heartbeat, RecordBackup, Finish, InvalidatePreflight, Tick
<1>. QED  BY <1>1, <1>5 DEF queueVars

\* Ready Deployments and faults are the surroundings' business.
LEMMA ReadyKept ==
  ASSUME EnvTypes, [WNext]_workerVars
  PROVE  ready' \in [Deployment -> BOOLEAN] /\ faults' \in 0..MaxFaults
<1>. DEFINE Mild == /\ UNCHANGED ready \/ \E d : \E b \in BOOLEAN : ready' = [ready EXCEPT ![d] = b]
                    /\ UNCHANGED faults \/ Fault
<1>. USE DEF historyVars, clusterVars, queueVars
<1>1. ASSUME NEW w \in Worker, NEW p, NEW q, Report(w, p, q) PROVE UNCHANGED faults \/ Fault
  BY <1>1 DEF Report, Reported, Throws
<1>2. ASSUME NEW w \in Worker, Renew(w) \/ Start(w) \/ BackedUp(w) \/ Rehearse(w) \/ Patched(w) \/ UndoReport(w)
      PROVE  Mild
  BY <1>1, <1>2 DEF Renew, Start, BackedUp, Rehearse, Patched, UndoReport
<1>3. ASSUME NEW w \in Worker, Advance(w) PROVE Mild
  BY <1>1, <1>3 DEF Advance
<1>4. ASSUME NEW w \in Worker, Poll(w) \/ BeginTask(w) \/ ReadDeployment(w) \/ Fail(w) \/ Crash(w) PROVE Mild
  BY <1>4 DEF Poll, BeginTask, ReadDeployment, Fail, Crash
<1>5. ASSUME NEW w \in Worker, BackUp(w) \/ Rehearsed(w) \/ Complete(w) PROVE Mild
  BY <1>5 DEF BackUp, Rehearsed, Complete, Throws
<1>6. ASSUME NEW w \in Worker, Wait(w) \/ UndoWait(w) PROVE Mild
  BY <1>6 DEF Wait, UndoWait, WaitReady, Throws
<1>7. ASSUME NEW w \in Worker, Patch(w) \/ UndoPatch(w) PROVE Mild
  <2>1. ASSUME NEW d, NEW new, NEW expected, NEW p, NEW q, PatchImage(w, d, new, expected, p, q) PROVE Mild
    BY <2>1 DEF PatchImage, SetImage
  <2>. QED  BY <1>7, <2>1 DEF Patch, UndoPatch
<1>8. ASSUME NEW d \in Deployment, RolloutDone(d) \/ Edit(d) PROVE Mild
  BY <1>8 DEF RolloutDone, Edit
<1>9. ASSUME SubmitTask \/ TimePasses \/ UNCHANGED workerVars PROVE Mild
  <2>1. UNCHANGED <<ready, faults>>  BY <1>9 DEF SubmitTask, TimePasses, workerVars
  <2>. QED  BY <2>1
<1>10. Mild
  <2>. HIDE DEF Mild
  <2>. QED  BY <1>2, <1>3, <1>4, <1>5, <1>6, <1>7, <1>8, <1>9 DEF WNext, WorkerStep
<1>11. ready' \in [Deployment -> BOOLEAN]  BY <1>10 DEF EnvTypes
<1>12. faults' \in 0..MaxFaults  BY <1>10, DeploymentAssumption DEF Fault, EnvTypes
<1>. QED  BY <1>11, <1>12

LEMMA EnvKept ==
  ASSUME WInv, [WNext]_workerVars
  PROVE  EnvTypes'
<1>. USE DEF WInv, EnvTypes
<1>1. ready' \in [Deployment -> BOOLEAN] /\ faults' \in 0..MaxFaults  BY ReadyKept
<1>2. CASE OtherStep
  BY <1>1, <1>2 DEF OtherStep, Images, Image
<1>3. ASSUME NEW w \in Worker, TurnStep(w) \/ BackupStep(w) \/ LeaveStepOf(w) PROVE EnvTypes'
  BY <1>1, <1>3 DEF TurnStep, BackupStep, LeaveStepOf, Quiet
<1>4. ASSUME NEW w \in Worker, PatchStep(w) PROVE EnvTypes'
  <2>. DEFINE p == proc[w]
  <2>1. Shape(p) /\ AtWork(w, p) /\ p.pc \in {"patch", "unpatch"}
    BY <1>4 DEF PatchStep, ShapeInv, WorkInv, At
  <2>2. p.prev \in Images /\ p.task \in Task /\ p.i \in Deployment
    BY <2>1 DEF Shape, Rollout, Undo, Proc
  <2>3. row[p.task].payload \in Images  BY <2>1, <2>2 DEF AtWork, UpdateInv, UpdateRow
  <2>4. PatchedTo(w, p) \in Image  BY <2>2, <2>3 DEF PatchedTo, Target, MyTask, Images
  <2>5. base' = base /\ image' = [image EXCEPT ![p.i] = PatchedTo(w, p)]
        /\ disturbed' \in {disturbed, disturbed \union {p.i}}
    BY <1>4 DEF PatchStep, SetImage
  <2>. QED  BY <1>1, <2>2, <2>4, <2>5 DEF Images
<1>5. ASSUME NEW w \in Worker, BeginStep(w) PROVE EnvTypes'
  BY <1>1, <1>5 DEF BeginStep
<1>. QED  BY <1>2, <1>3, <1>4, <1>5, Kinds

\* A task succeeds because the worker that holds it says so, at the end of a rehearsal
\* or of a rollout.
SucceedsBy(t, w) ==
  /\ MyTask(w) = t /\ LeaseHeld(t, w)
  /\ At(w, "rehearsed") \/ (At(w, "finish") /\ row'[t].result = proc[w].prev)

LEMMA SuccessIs ==
  ASSUME WInv, [WNext]_workerVars, NEW t \in Task,
         row[t].status # "succeeded", row'[t].status = "succeeded"
  PROVE  \E w \in Worker : SucceedsBy(t, w)
<1>. DEFINE Good == \E w \in Worker : SucceedsBy(t, w)
<1>. USE DEF queueVars
<1>0. \A u \in Task : row[u] \in Row /\ row \in [Task -> Row]  BY DEF WInv, TypeInv, RowTypes
<1>1. ASSUME NEW u \in Task, NEW r, r.status # "succeeded", row' = [row EXCEPT ![u] = r] PROVE FALSE
  BY <1>0, <1>1
<1>2. row' # row  OBVIOUS
<1>3. ASSUME NEW u \in Task, NEW w \in Worker, Heartbeat(u, w) PROVE FALSE
  BY <1>0, <1>3 DEF Heartbeat, Row
<1>4. ASSUME NEW u \in Task, NEW w \in Worker, NEW b \in Backup, RecordBackup(u, w, b) PROVE FALSE
  BY <1>0, <1>4 DEF RecordBackup, Row
<1>5. ASSUME NEW w \in Worker, ~At(w, "idle") PROVE MyTask(w) \in Task
  BY <1>5, WorkersTask DEF WInv
<1>6. ASSUME NEW w \in Worker, NEW p, NEW q, Report(w, p, q), ~At(w, "idle") PROVE FALSE
  <2>1. MyTask(w) \in Task  BY <1>5, <1>6
  <2>. QED  BY <1>2, <1>3, <1>6, <2>1 DEF Report, Reported, Throws
<1>7. ASSUME NEW w \in Worker,
             Renew(w) \/ Start(w) \/ BackedUp(w) \/ Rehearse(w) \/ Patched(w) \/ UndoReport(w) \/ Advance(w)
      PROVE  FALSE
  <2>1. ~At(w, "idle")
    BY <1>7 DEF Renew, Start, BackedUp, Rehearse, Patched, UndoReport, Advance, At
  <2>2. ~Advance(w)  BY <1>2, <1>6, <2>1 DEF Advance
  <2>. QED  BY <1>6, <1>7, <2>1, <2>2 DEF Renew, Start, BackedUp, Rehearse, Patched, UndoReport
<1>8. ASSUME NEW w \in Worker, Poll(w) \/ BeginTask(w) PROVE FALSE
  <2>1. ASSUME ClaimReject(w) PROVE FALSE
    <3>1. PICK u \in Task : row' = [row EXCEPT ![u] = RejectedRow(row[u])]
      BY <1>2, <2>1 DEF ClaimReject, WInv, TypeInv, RowTypes, ClaimTypes
    <3>2. RejectedRow(row[u]).status # "succeeded"  BY <1>0 DEF RejectedRow, Row
    <3>. QED  BY <1>1, <3>1, <3>2
  <2>2. ASSUME ClaimWon(w) PROVE FALSE
    <3>1. PICK u \in Task : row' = [row EXCEPT ![u] = ClaimedRow(row[u], w)]
      BY <2>2 DEF ClaimWon, WInv, TypeInv, RowTypes, ClaimTypes
    <3>2. ClaimedRow(row[u], w).status # "succeeded"  BY <1>0 DEF ClaimedRow, Row
    <3>. QED  BY <1>1, <3>1, <3>2
  <2>. QED  BY <1>2, <1>8, <2>1, <2>2 DEF Poll, BeginTask, ClaimRead, ClaimNone, ClaimLost
<1>9. ASSUME NEW w \in Worker, BackUp(w) PROVE FALSE
  BY <1>2, <1>4, <1>5, <1>9 DEF BackUp, Throws, At
<1>10. ASSUME NEW w \in Worker, Patch(w) \/ UndoPatch(w) \/ Wait(w) \/ UndoWait(w) \/ ReadDeployment(w) \/ Crash(w)
       PROVE  FALSE
  BY <1>2, <1>10 DEF Patch, UndoPatch, PatchImage, Wait, UndoWait, WaitReady, Throws, ReadDeployment, Crash
<1>11. ASSUME NEW u \in Task, NEW w \in Worker, NEW status, NEW phase, NEW result, Finish(u, w, status, phase, result)
       PROVE  /\ u = t /\ status = "succeeded" /\ LeaseHeld(t, w)
              /\ result # Null => row'[t].result = result
  <2>1. row' = [row EXCEPT ![u] = FinishedRow(row[u], status, phase, result)] /\ LeaseHeld(u, w)
    BY <1>11 DEF Finish
  <2>2. /\ FinishedRow(row[u], status, phase, result).status = status
        /\ result # Null => FinishedRow(row[u], status, phase, result).result = result
    BY <1>0 DEF FinishedRow, Row
  <2>. QED  BY <1>0, <2>1, <2>2
<1>12. ASSUME NEW w \in Worker, Rehearsed(w) PROVE SucceedsBy(t, w)
  <2>1. MyTask(w) \in Task  BY <1>5, <1>12 DEF Rehearsed, At
  <2>. QED  BY <1>2, <1>11, <1>12, <2>1 DEF Rehearsed, Throws, SucceedsBy
<1>13. ASSUME NEW w \in Worker, Complete(w) PROVE SucceedsBy(t, w)
  <2>1. MyTask(w) \in Task  BY <1>5, <1>13 DEF Complete, At
  <2>2. proc[w].prev # Null
    BY <1>13, PayloadAssumption DEF Complete, At, WInv, ShapeInv, Shape
  <2>. QED  BY <1>2, <1>11, <1>13, <2>1, <2>2 DEF Complete, Throws, SucceedsBy, SavedImages
<1>14. ASSUME NEW w \in Worker, Fail(w) PROVE FALSE
  <2>1. MyTask(w) \in Task  BY <1>5, <1>14 DEF Fail, Failing, At
  <2>. QED  BY <1>2, <1>11, <1>14, <2>1 DEF Fail
<1>15. ASSUME SubmitTask PROVE FALSE
  <2>1. ASSUME NEW action, NEW payload, Submit(action, payload, Ttl, TRUE) PROVE FALSE
    <3>1. PICK u \in Task : row' = [row EXCEPT ![u] = QueuedRow(action, payload, Ttl, TRUE)]
      BY <2>1, NextTaskIsNew DEF Submit
    <3>2. QueuedRow(action, payload, Ttl, TRUE).status # "succeeded"  BY DEF QueuedRow, NoRow
    <3>. QED  BY <1>1, <3>1, <3>2
  <2>2. CASE \E action \in {"install", "preflight"} : Submit(action, [d \in Deployment |-> New], Ttl, TRUE)
    <3>. DEFINE images == [d \in Deployment |-> New]
    <3>1. PICK action : Submit(action, images, Ttl, TRUE)  BY <2>2
    <3>. HIDE DEF images
    <3>. QED  BY <2>1, <3>1
  <2>3. CASE \E u \in Task : Submit("rollback", row[u].result, Ttl, TRUE)
    <3>1. PICK payload : Submit("rollback", payload, Ttl, TRUE)  BY <2>3
    <3>. QED  BY <2>1, <3>1
  <2>. QED  BY <1>15, <2>2, <2>3 DEF SubmitTask
<1>16. ASSUME TimePasses PROVE FALSE
  <2>1. row'[t] = [row[t] EXCEPT !.lease = LeaseAfterTick(@), !.ttl = TtlAfterTick(@)]
    BY <1>16 DEF TimePasses, Tick
  <2>. QED  BY <1>0, <2>1 DEF Row
<1>17. ASSUME NEW d \in Deployment, RolloutDone(d) \/ Edit(d) PROVE FALSE
  BY <1>2, <1>17 DEF RolloutDone, Edit
<1>. QED
  BY <1>2, <1>7, <1>8, <1>9, <1>10, <1>12, <1>13, <1>14, <1>15, <1>16, <1>17 DEF WNext, WorkerStep, workerVars

\* A row that has succeeded keeps its result as long as it stays so.
LEMMA SuccessKept ==
  ASSUME TypeInv, [Next]_queueVars, NEW t \in Task, row[t].status = "succeeded", row'[t].status = "succeeded"
  PROVE  row'[t].result = row[t].result /\ row'[t].attempt = row[t].attempt
<1>0. row[t] \in Row  BY DEF TypeInv, RowTypes
<1>1. ~Claimable(t) /\ Exists(t) /\ \A w \in Worker : ~LeaseHeld(t, w)
  BY DEF Claimable, Exists, LeaseHeld
<1>2. CASE row'[t] = row[t]  BY <1>2
<1>3. CASE row'[t] # row[t]
  <2>1. RowStep(t)  BY <1>3, StepsOnRows DEF queueVars
  <2>2. ~(\E result \in Result :
            row'[t] = [row[t] EXCEPT !.status = "failed", !.phase = "failed", !.slot = FALSE,
                                     !.result = result])
    BY <1>0 DEF Row
  <2>3. row'[t] = [row[t] EXCEPT !.lease = LeaseAfterTick(@), !.ttl = TtlAfterTick(@)]
    BY <1>1, <1>3, <2>1, <2>2 DEF RowStep
  <2>. QED  BY <1>0, <2>3 DEF Row
<1>. QED  BY <1>2, <1>3

\* The attempts of a row: none as long as nobody has claimed it, and never fewer.
LEMMA AttemptsKept ==
  ASSUME TypeInv, [Next]_queueVars, NEW t \in Task,
         row[t].status \in {"absent", "queued"} => row[t].attempt = 0
  PROVE  /\ row'[t].status \in {"absent", "queued"} => row'[t].attempt = 0
         /\ row'[t].attempt = 0 => row[t].attempt = 0
         /\ row'[t].attempt = 1 /\ Active(t)' => row[t].attempt = 1 \/ row[t].attempt = 0
<1>0. row[t] \in Row  BY DEF TypeInv, RowTypes
<1>1. CASE row'[t] = row[t]  BY <1>0, <1>1 DEF Row
<1>2. CASE row'[t] # row[t]
  <2>1. RowStep(t)  BY <1>2, StepsOnRows DEF queueVars
  <2>2. CASE ~Exists(t) /\ \E action \in Action, payload \in Payload, ttl \in 0..Ttl, valid \in BOOLEAN :
                             row'[t] = QueuedRow(action, payload, ttl, valid)
    BY <2>2 DEF QueuedRow, NoRow, Exists
  <2>3. CASE row'[t] = RejectedRow(row[t])
    BY <1>0, <2>3 DEF RejectedRow, Row
  <2>4. CASE \E v \in Worker : row'[t] = ClaimedRow(row[t], v)
    <3>1. row'[t].status = "running" /\ row'[t].attempt = row[t].attempt + 1 /\ row[t].attempt \in Nat
      BY <1>0, <2>4 DEF ClaimedRow, Row
    <3>. QED  BY <3>1
  <2>5. CASE row'[t] = [row[t] EXCEPT !.lease = Lease]
    BY <1>0, <2>5 DEF Row
  <2>6. CASE \E backup \in Backup : row'[t] = [row[t] EXCEPT !.backup = backup]
    BY <1>0, <2>6 DEF Row
  <2>7. CASE \E status \in {"succeeded", "failed"}, result \in Result \union {Null} :
               \E phase \in TerminalPhase(status) : row'[t] = FinishedRow(row[t], status, phase, result)
    BY <1>0, <2>7 DEF FinishedRow, Row
  <2>8. CASE \E result \in Result :
               row'[t] = [row[t] EXCEPT !.status = "failed", !.phase = "failed", !.slot = FALSE,
                                        !.result = result]
    BY <1>0, <2>8 DEF Row, Active
  <2>9. CASE row'[t] = [row[t] EXCEPT !.lease = LeaseAfterTick(@), !.ttl = TtlAfterTick(@)]
    BY <1>0, <2>9 DEF Row
  <2>. QED  BY <2>1, <2>2, <2>3, <2>4, <2>5, <2>6, <2>7, <2>8, <2>9 DEF RowStep
<1>. QED  BY <1>1, <1>2

LEMMA UpdateKept ==
  ASSUME WInv, [WNext]_workerVars
  PROVE  UpdateInv'
<1>. SUFFICES ASSUME NEW t \in Task PROVE UpdateRow(t)'
  BY DEF UpdateInv
<1>. USE DEF WInv
<1>0. [Next]_queueVars /\ UpdateRow(t) /\ row[t] \in Row
  BY StepOfQueue DEF UpdateInv, TypeInv, RowTypes
<1>1. KeptRow(t)  BY <1>0, RowKept
<1>2. Exists(t)' => row'[t].payload \in Images
  <2>1. CASE Exists(t)  BY <1>0, <1>1, <2>1 DEF KeptRow, UpdateRow
  <2>2. CASE ~Exists(t) /\ Exists(t)'
    <3>1. RowStep(t) /\ row'[t] # row[t] /\ row[t].status = "absent"
      BY <1>0, <2>2, StepsOnRows DEF Exists, queueVars
    <3>2. ~Claimable(t) /\ \A w \in Worker : ~LeaseHeld(t, w)  BY <3>1 DEF Claimable, LeaseHeld
    <3>3. row'[t] # [row[t] EXCEPT !.lease = LeaseAfterTick(@), !.ttl = TtlAfterTick(@)]
      BY <1>0, <2>2 DEF Exists, Row
    <3>4. PICK action \in Action, payload \in Payload, ttl \in 0..Ttl, valid \in BOOLEAN :
            row'[t] = QueuedRow(action, payload, ttl, valid)
      BY <3>1, <3>2, <3>3 DEF RowStep
    <3>. QED  BY <3>4, PayloadAssumption DEF QueuedRow, NoRow
  <2>. QED  BY <2>1, <2>2
<1>3. row'[t].status = "succeeded" /\ row'[t].action # "preflight" => row'[t].result \in Images
  <2>1. CASE row[t].status = "succeeded"
    BY <1>0, <1>1, <2>1, SuccessKept DEF KeptRow, Exists, UpdateRow
  <2>2. CASE row[t].status # "succeeded" /\ row'[t].status = "succeeded"
    <3>1. PICK w \in Worker : SucceedsBy(t, w)  BY <2>2, SuccessIs
    <3>2. Exists(t) /\ row'[t].action = row[t].action
      BY <1>1, <3>1 DEF SucceedsBy, LeaseHeld, Exists, KeptRow
    <3>3. CASE At(w, "rehearsed")
      BY <3>1, <3>2, <3>3 DEF SucceedsBy, WorkInv, AtWork, At, MyTask
    <3>4. CASE At(w, "finish") /\ row'[t].result = proc[w].prev
      BY <3>4 DEF At, ShapeInv, Shape
    <3>. QED  BY <3>1, <3>3, <3>4 DEF SucceedsBy
  <2>. QED  BY <2>1, <2>2
<1>4. row'[t].status \in {"absent", "queued"} => row'[t].attempt = 0
  BY <1>0, AttemptsKept DEF UpdateRow
<1>5. row'[t].attempt = 0 => base'[t] = Null
  <2>1. row'[t].attempt = 0 => row[t].attempt = 0  BY <1>0, AttemptsKept DEF UpdateRow
  <2>2. CASE base'[t] = base[t]  BY <1>0, <2>1, <2>2 DEF UpdateRow
  <2>3. CASE base'[t] # base[t]
    <3>1. PICK w \in Worker : BeginStep(w)
      BY <2>3, Kinds DEF OtherStep, TurnStep, BackupStep, LeaveStepOf, PatchStep, Quiet
    <3>2. claim[w].task = t /\ row' = [row EXCEPT ![t] = ClaimedRow(row[t], w)]
      BY <2>3, <3>1 DEF BeginStep, ClaimWon, EnvTypes
    <3>3. row'[t].attempt = row[t].attempt + 1 /\ row[t].attempt \in Nat
      BY <1>0, <3>2 DEF ClaimedRow, Row, TypeInv, RowTypes
    <3>. QED  BY <3>3
  <2>. QED  BY <2>2, <2>3
<1>. QED  BY <1>2, <1>3, <1>4, <1>5 DEF UpdateRow, Exists

LEMMA InitWorkers == WInit => WInv
<1>. SUFFICES ASSUME WInit PROVE WInv  OBVIOUS
<1>1. Init  BY DEF WInit
<1>2. TypeInv  BY <1>1, InitTyped
<1>3. SlotInv /\ NoGaps /\ NoneInv
  BY <1>1 DEF Init, NoRow, NoClaim, SlotInv, SlotMatchesStatus, OneActiveTask, Active, NoGaps, Exists, NoneInv
<1>4. EnvTypes
  BY DeploymentAssumption DEF WInit, EnvTypes, Images, Image
<1>5. ShapeInv
  BY IdleShape DEF WInit, ShapeInv, Shape
<1>6. WorkInv  BY DEF WInit, WorkInv, At, Idle
<1>7. UpdateInv  BY <1>1 DEF WInit, Init, NoRow, UpdateInv, UpdateRow, Exists
<1>. QED  BY <1>2, <1>3, <1>4, <1>5, <1>6, <1>7 DEF WInv

LEMMA WorkersInductive ==
  ASSUME WInv, [WNext]_workerVars
  PROVE  WInv'
<1>0. [Next]_queueVars  BY StepOfQueue
<1>1. TypeInv' /\ SlotInv' /\ NoGaps' /\ NoneInv'
  BY <1>0, TypeInductive, SlotInductive, NoGapsInductive, NoneKept DEF WInv
<1>2. EnvTypes' /\ ShapeInv' /\ WorkInv' /\ UpdateInv'
  BY EnvKept, WorkersKept, UpdateKept
<1>. QED  BY <1>1, <1>2 DEF WInv

LEMMA WorkersInvariant == WSpec => []WInv
BY InitWorkers, WorkersInductive, PTL DEF WSpec

\* The update controller uses the queue only through its operations: every behaviour of
\* the workers, their crashes and the cluster is one of the queue, and what is proved of
\* the queue for arbitrary callers holds of the controller.
THEOREM WorkersUseQueue == WSpec => Spec
<1>1. WInit => Init  BY DEF WInit
<1>2. WInv /\ [WNext]_workerVars => [Next]_queueVars  BY StepOfQueue
<1>. QED  BY <1>1, <1>2, WorkersInvariant, PTL DEF WSpec, Spec

\* Type correctness of the controller, the Deployments and the history.
THEOREM WorkerTypes == WSpec => []WTypeOK
<1>1. WInv => WTypeOK
  <2>. SUFFICES ASSUME WInv PROVE WTypeOK  OBVIOUS
  <2>1. TypeOK  BY DEF WInv, TypeInv, RowTypes, ClaimTypes, RunningRow, TypeOK
  <2>2. \A w \in Worker : ~At(w, "idle") => MyTask(w) \in Task  BY WorkersTask DEF WInv
  <2>. QED  BY <2>1, <2>2 DEF WInv, ShapeInv, EnvTypes, WTypeOK
<1>. QED  BY <1>1, WorkersInvariant, PTL

\* A worker that lost its lease while a patch was under way makes that one patch and no
\* other: the report before the next one throws.
THEOREM OneStrayAtMost == WSpec => []AtMostOneStray
<1>1. WInv => AtMostOneStray  BY DEF WInv, ShapeInv, Shape, AtMostOneStray
<1>. QED  BY <1>1, WorkersInvariant, PTL

\* No Deployment is patched or restored for a task without a backup on record.
THEOREM BackedUpFirst == WSpec => []BackedUpBeforePatch
<1>1. WInv => BackedUpBeforePatch
  BY DEF WInv, WorkInv, AtWork, BackedUpBeforePatch, At, MyTask, Backed, Rollout, Undo
<1>. QED  BY <1>1, WorkersInvariant, PTL

\* An image that somebody else set is replaced only by the patch of a worker that read it
\* there or the restore of one that is bound to it: patchImage refuses any other.
THEOREM ForeignKept == WSpec => ForeignImagesKept
<1>1. ASSUME WInv, [WNext]_workerVars, NEW d \in Deployment, image[d] = Foreign, image'[d] # Foreign
      PROVE  \E w \in Worker :
               /\ proc[w].i = d
               /\ \/ At(w, "patch") /\ proc[w].prev[d] = Foreign
                  \/ At(w, "unpatch") /\ Target(w)[d] = Foreign
  <2>1. PICK w \in Worker : PatchStep(w)
    BY <1>1, Kinds DEF OtherStep, TurnStep, BackupStep, LeaveStepOf, BeginStep, Quiet, WInv, EnvTypes, Images
  <2>2. d = proc[w].i  BY <1>1, <2>1 DEF PatchStep, SetImage, WInv, EnvTypes, Images
  <2>. QED  BY <1>1, <2>1, <2>2 DEF PatchStep, AsExpected, PatchedFrom, At
<1>2. WInv /\ [WNext]_workerVars =>
        [\A d \in Deployment : image[d] = Foreign /\ image'[d] # Foreign =>
           \E w \in Worker :
             /\ proc[w].i = d
             /\ \/ At(w, "patch") /\ proc[w].prev[d] = Foreign
                \/ At(w, "unpatch") /\ Target(w)[d] = Foreign]_workerVars
  BY <1>1
<1>. QED  BY <1>2, WorkersInvariant, PTL DEF WSpec, ForeignImagesKept

------------------------------------------------------------------------------
(***************************************************************************)
(* What the Deployments run.  The worker that holds the task is the only   *)
(* one whose patches are not counted as disturbing, so that what it read   *)
(* and what it patched stay true of the Deployments nobody disturbed.      *)
(***************************************************************************)
LEMMA OpensSound ==
  ASSUME NEW w \in Worker, Shape(proc[w]), ~At(w, "idle"), ImageSound(proc[w]), NEW q, Opens(w, q)
  PROVE  ImageSound(q)
<1>. DEFINE p == proc[w]
<1>0. p \in Proc /\ ImageSound(p)  BY DEF Shape
<1>1. CASE q = p  BY <1>0, <1>1
<1>2. CASE q = [p EXCEPT !.leaseError = TRUE]
  <2>1. /\ q.pc = p.pc /\ q.task = p.task /\ q.i = p.i /\ q.changed = p.changed /\ q.prev = p.prev
        /\ q.undoFailed = p.undoFailed
    BY <1>0, <1>2 DEF Proc
  <2>. HIDE DEF p
  <2>. QED  BY <1>0, <2>1 DEF ImageSound
<1>3. ASSUME NEW pc \in {"failing", "backup", "rehearse", "rehearsed", "read"}, q = [p EXCEPT !.pc = pc],
             pc = "read" => p.i = 1
      PROVE  ImageSound(q)
  <2>1. q.pc = pc /\ q.i = p.i  BY <1>0, <1>3 DEF Proc
  <2>2. pc = "read" => \A d \in Deployment : ~(d < q.i)
    BY <1>3, <2>1, DeploymentsCounted
  <2>. HIDE DEF p
  <2>. QED  BY <2>1, <2>2 DEF ImageSound, Rollout, Undo
<1>4. p.pc = "progress" => p.i = 1  BY DEF Shape, Opening
<1>. QED  BY <1>1, <1>2, <1>3, <1>4 DEF Opens, Failed

LEMMA ReadsSound ==
  ASSUME NEW w \in Worker, Shape(proc[w]), ImageSound(proc[w]), NEW q, Reads(w, q)
  PROVE  ImageSound(q)
<1>. DEFINE p == proc[w]
<1>0. p \in Proc /\ p.pc = "read" /\ p.i \in Deployment /\ p.changed = {}  BY DEF Shape, Reads
<1>. DEFINE x == [p.prev EXCEPT ![p.i] = image[p.i]]
<1>1. \A d \in Deployment \ disturbed : d <= p.i => image[d] = x[d]
  <2>1. \A d \in Deployment : d <= p.i => d < p.i \/ d = p.i
    <3>1. p.i \in Int /\ \A d \in Deployment : d \in Int  BY <1>0, DeploymentsCounted
    <3>. HIDE DEF p
    <3>. QED  BY <3>1
  <2>2. \A d \in Deployment \ disturbed : d < p.i => image[d] = p.prev[d]  BY <1>0 DEF ImageSound
  <2>3. \A d \in Deployment : x[d] = IF d = p.i THEN image[d] ELSE p.prev[d]  BY <1>0 DEF Proc
  <2>. HIDE DEF x, p
  <2>. QED  BY <2>1, <2>2, <2>3
<1>2. CASE p.i < N /\ q = [p EXCEPT !.prev[p.i] = image[p.i], !.i = p.i + 1]
  <2>1. q.pc = "read" /\ q.i = p.i + 1 /\ q.prev = x
    BY <1>0, <1>2 DEF Proc
  <2>2. \A d \in Deployment : d < q.i => d <= p.i  BY <1>0, <2>1, DeploymentsCounted
  <2>. HIDE DEF x, p
  <2>. QED  BY <1>1, <2>1, <2>2 DEF ImageSound, Rollout, Undo
<1>3. CASE p.i = N /\ q = [p EXCEPT !.prev[p.i] = image[p.i], !.i = 1, !.pc = "advance"]
  <2>1. q.pc = "advance" /\ q.i = 1 /\ q.prev = x
    BY <1>0, <1>3 DEF Proc
  <2>2. \A d \in Deployment : d <= p.i /\ ~(d < q.i)  BY <1>3, <2>1, DeploymentsCounted
  <2>. HIDE DEF x, p
  <2>. QED  BY <1>1, <2>1, <2>2 DEF ImageSound, Rollout, Undo
<1>. QED  BY <1>2, <1>3 DEF Reads

\* What a restore begins with: all that is not noted as changed runs what was read.
Untouched(p) == \A d \in Deployment \ disturbed : d \notin p.changed => image[d] = p.prev[d]

LEMMA UndoSound ==
  ASSUME NEW p \in Proc, ~p.undoFailed => Untouched(p)
  PROVE  ImageSound(UndoNext(p))
<1>1. PICK q : q = UndoNext(p)  OBVIOUS
<1>2. /\ q.prev = p.prev /\ q.changed = p.changed /\ q.undoFailed = p.undoFailed
      /\ q.pc \in {"incomplete", "restored", "undo"}
  BY <1>1, UndoNextIs
<1>3. ImageSound(q)  BY <1>2 DEF ImageSound, Untouched, Rollout
<1>. QED  BY <1>1, <1>3

LEMMA ForwardsSound ==
  ASSUME NEW w \in Worker, Shape(proc[w]), ImageSound(proc[w]), NEW q, Forwards(w, q)
  PROVE  ImageSound(q)
<1>1. PICK p : p = proc[w]  OBVIOUS
<1>0. p \in Proc /\ p.pc \in Rollout /\ p.i \in Int /\ Shape(p) /\ ImageSound(p)
  BY <1>1 DEF Shape, Forwards, Rollout, Proc
<1>2. /\ \A d \in Deployment : d \in Int
      /\ \A d \in Deployment \ disturbed :
           /\ d < p.i => image[d] = row[p.task].payload[d] /\ (d \notin p.changed => image[d] = p.prev[d])
           /\ d > p.i => image[d] = p.prev[d]
           /\ p.pc = "advance" /\ d = p.i => image[d] = p.prev[d]
  BY <1>0, DeploymentsCounted DEF ImageSound
<1>3. \A d \in Deployment : d \in Todo(w) <=> ~(d < p.i) /\ row[p.task].payload[d] # p.prev[d]
  BY <1>0, <1>1, DeploymentsCounted DEF Todo, Target, MyTask, Deployment
<1>4. Todo(w) \subseteq Deployment
  BY <1>1, <1>0, DeploymentAssumption DEF Todo, Deployment, Proc
<1>5. CASE p.pc = "advance" /\ Todo(w) = {} /\ q = [p EXCEPT !.pc = "finish"]
  <2>1. q.pc = "finish" /\ q.task = p.task  BY <1>0, <1>5 DEF Proc
  <2>. QED  BY <1>0, <1>2, <1>3, <1>5, <2>1 DEF ImageSound, Rollout, Undo
<1>6. ASSUME p.pc = "advance", NEW d \in Todo(w)
      PROVE  /\ Notes(p, d) \in Proc /\ Notes(p, d).i = d /\ Notes(p, d).changed = p.changed \union {d}
             /\ Notes(p, d).prev = p.prev /\ Notes(p, d).task = p.task
  <2>1. d \in Deployment /\ d \in 1 .. N + 1  BY <1>4, <1>6, DeploymentsCounted
  <2>. QED  BY <1>0, <2>1 DEF Notes, Proc
<1>7. CASE p.pc = "advance" /\ \E d \in Todo(w) : (\A e \in Todo(w) : d <= e) /\ q = [Notes(p, d) EXCEPT !.pc = "patch"]
  <2>1. PICK d \in Todo(w) : (\A e \in Todo(w) : d <= e) /\ q = [Notes(p, d) EXCEPT !.pc = "patch"]  BY <1>7
  <2>2. q.pc = "patch" /\ q.i = d /\ q.changed = p.changed \union {d} /\ q.prev = p.prev /\ q.task = p.task
    BY <1>6, <1>7, <2>1 DEF Proc
  <2>3. d \in Deployment /\ ~(d < p.i)  BY <1>3, <1>4
  <2>4. ASSUME NEW e \in Deployment \ disturbed, e < d
        PROVE  image[e] = row[p.task].payload[e] /\ (e \notin q.changed => image[e] = p.prev[e])
    <3>1. e \notin Todo(w)  BY <1>2, <2>1, <2>3, <2>4
    <3>2. CASE e < p.i  BY <1>2, <2>2, <3>2
    <3>3. CASE ~(e < p.i)
      <4>1. row[p.task].payload[e] = p.prev[e]  BY <1>3, <3>1, <3>3
      <4>2. image[e] = p.prev[e]  BY <1>0, <1>2, <1>7, <3>3
      <4>. QED  BY <4>1, <4>2
    <3>. QED  BY <3>2, <3>3
  <2>5. ASSUME NEW e \in Deployment \ disturbed, e > d
        PROVE  image[e] = p.prev[e]
    <3>1. e > p.i  BY <1>0, <1>2, <2>3, <2>5
    <3>. QED  BY <1>2, <3>1
  <2>. QED  BY <2>2, <2>4, <2>5 DEF ImageSound, Rollout, Undo
<1>8. ASSUME NEW x \in Proc, x.prev = p.prev, p.changed \subseteq x.changed,
             p.pc = "advance" \/ p.i \in x.changed
      PROVE  ImageSound(UndoNext(x))
  <2>1. \A e \in Deployment : e < p.i \/ e > p.i \/ e = p.i  BY <1>0, <1>2
  <2>2. Untouched(x)  BY <1>2, <1>8, <2>1 DEF Untouched
  <2>. QED  BY <2>2, UndoSound
<1>9. CASE p.pc = "advance" /\ \E d \in Todo(w) : q = UndoNext(Notes(p, d))
  BY <1>6, <1>8, <1>9
<1>10. CASE p.pc \in {"patch", "health", "wait"} /\ q = UndoNext(p)
  BY <1>0, <1>8, <1>10 DEF Shape
<1>11. ASSUME NEW pc \in {"health", "wait"}, p.pc \in {"patch", "health"}, q = [p EXCEPT !.pc = pc]
       PROVE  ImageSound(q)
  <2>1. q.pc = pc /\ q.task = p.task /\ q.i = p.i /\ q.changed = p.changed /\ q.prev = p.prev
    BY <1>0, <1>11 DEF Proc
  <2>. QED  BY <1>0, <1>11, <2>1 DEF ImageSound, Rollout, Undo
<1>12. CASE p.pc = "wait" /\ image[p.i] = Target(w)[p.i] /\ q = [p EXCEPT !.pc = "advance", !.i = @ + 1]
  <2>1. q.pc = "advance" /\ q.task = p.task /\ q.i = p.i + 1 /\ q.changed = p.changed /\ q.prev = p.prev
    BY <1>0, <1>12 DEF Proc
  <2>2. p.i \in p.changed /\ image[p.i] = row[p.task].payload[p.i]
    BY <1>0, <1>1, <1>12 DEF Shape, Target, MyTask
  <2>3. \A e \in Deployment : /\ e < q.i => e < p.i \/ e = p.i
                              /\ ~(e < q.i) => e > p.i
    BY <1>0, <1>2, <2>1
  <2>4. \A e \in Deployment : e > q.i \/ e = q.i => ~(e < q.i)  BY <1>0, <1>2, <2>1
  <2>. QED  BY <1>2, <2>1, <2>2, <2>3, <2>4 DEF ImageSound, Rollout, Undo
<1>. QED  BY <1>1, <1>5, <1>7, <1>9, <1>10, <1>11, <1>12 DEF Forwards

LEMMA BacksSound ==
  ASSUME NEW w \in Worker, Shape(proc[w]), ImageSound(proc[w]), NEW q, Backs(w, q)
  PROVE  ImageSound(q)
<1>1. PICK p : p = proc[w]  OBVIOUS
<1>0. p \in Proc /\ p.pc \in Undo /\ ImageSound(p)
  BY <1>1 DEF Shape, Backs, Undo
<1>2. ~p.undoFailed => Untouched(p)  BY <1>0 DEF ImageSound, Untouched
<1>3. ASSUME NEW pc \in {"unpatch", "unwait"}, q = [p EXCEPT !.pc = pc] PROVE ImageSound(q)
  <2>1. q.pc = pc /\ q.changed = p.changed /\ q.prev = p.prev /\ q.undoFailed = p.undoFailed
    BY <1>0, <1>3 DEF Proc
  <2>. QED  BY <1>2, <2>1 DEF ImageSound, Untouched, Rollout, Undo
<1>4. CASE image[p.i] = p.prev[p.i] /\ q = Undone(p)
  <2>. DEFINE x == [p EXCEPT !.changed = @ \ {p.i}]
  <2>1. x \in Proc /\ x.prev = p.prev /\ x.changed = p.changed \ {p.i} /\ x.undoFailed = p.undoFailed
    BY <1>0, DropIs DEF Proc
  <2>2. q = UndoNext(x)  BY <1>4 DEF Undone
  <2>. HIDE DEF x
  <2>3. ~x.undoFailed => Untouched(x)  BY <1>2, <1>4, <2>1 DEF Untouched
  <2>. QED  BY <2>1, <2>2, <2>3, UndoSound
<1>5. CASE q = NotUndone(p)
  <2>. DEFINE x == [p EXCEPT !.changed = @ \ {p.i}, !.undoFailed = TRUE]
  <2>1. x \in Proc /\ x.undoFailed  BY <1>0, DropIs DEF Proc
  <2>2. q = UndoNext(x)  BY <1>5 DEF NotUndone
  <2>. HIDE DEF x
  <2>. QED  BY <2>1, <2>2, UndoSound
<1>. QED  BY <1>1, <1>3, <1>4, <1>5 DEF Backs

LEMMA TurnsSound ==
  ASSUME NEW w \in Worker, Shape(proc[w]), ~At(w, "idle"), ImageSound(proc[w]), NEW q, Turns(w, q)
  PROVE  ImageSound(q)
BY OpensSound, ReadsSound, ForwardsSound, BacksSound DEF Turns

\* The undisturbed Deployments stay as they are.
StillThere == disturbed \subseteq disturbed' /\ \A d \in Deployment \ disturbed' : image'[d] = image[d]

LEMMA SoundKept ==
  ASSUME StillThere, NEW q, row'[q.task].payload = row[q.task].payload, ImageSound(q)
  PROVE  ImageSound(q)'
BY DEF StillThere, ImageSound

\* A worker that comes out of a step holding its task went into it at work and holding
\* it, unless it has just begun it.
LEMMA HolderWas ==
  ASSUME WInv, [Next]_queueVars, NEW w \in Worker, ~At(w, "idle"), NEW q, q.task = MyTask(w), Holds(w, q)'
  PROVE  Holds(w, q) /\ row'[q.task].payload = row[q.task].payload /\ row'[q.task].attempt = row[q.task].attempt
<1>1. q.task \in Task  BY WorkersTask DEF WInv
<1>2. claim[w].step = "none" /\ Exists(q.task)  BY DEF WInv, WorkInv, AtWork, MyTask
<1>3. Holds(w, q) /\ row'[q.task].attempt = row[q.task].attempt  BY <1>1, <1>2, HeldBefore DEF WInv
<1>4. row'[q.task].payload = row[q.task].payload  BY <1>1, <1>2, RowKept DEF WInv, KeptRow
<1>. QED  BY <1>3, <1>4

\* Two workers that hold their tasks are the same worker.
LEMMA OneHolder ==
  ASSUME WInv, NEW w \in Worker, NEW v \in Worker, ~At(w, "idle"), ~At(v, "idle"),
         Holds(w, proc[w]), Holds(v, proc[v])
  PROVE  v = w
<1>1. MyTask(w) \in Task /\ MyTask(v) \in Task  BY WorkersTask DEF WInv
<1>2. Active(MyTask(w)) /\ Active(MyTask(v))  BY DEF Holds, MyTask, Active
<1>. QED  BY <1>1, <1>2 DEF WInv, SlotInv, OneActiveTask, Holds, MyTask

\* A worker that stays as it is still knows what the Deployments run.
LEMMA SoundStays ==
  ASSUME WInv, ImageInv, [Next]_queueVars, StillThere, NEW w \in Worker, proc'[w] = proc[w], ~At(w, "idle"),
         Holds(w, proc[w])'
  PROVE  ImageSound(proc[w])'
<1>1. PICK q : q = proc[w]  OBVIOUS
<1>2. Holds(w, q)'  BY <1>1 DEF Holds
<1>3. Holds(w, q) /\ row'[q.task].payload = row[q.task].payload  BY <1>1, <1>2, HolderWas DEF MyTask
<1>4. ImageSound(q)  BY <1>1, <1>3 DEF ImageInv
<1>5. ImageSound(q)'  BY <1>3, <1>4, SoundKept
<1>. QED  BY <1>1, <1>5 DEF ImageSound

\* The holder's own patch: the Deployment patched is the one it is at, and what it goes
\* on with says so.
LEMMA PatchesSound ==
  ASSUME WInv, NEW w \in Worker, ImageSound(proc[w]), PatchStep(w), Owns(w)
  PROVE  ImageSound(proc[w])'
<1>1. PICK p : p = proc[w]  OBVIOUS
<1>2. PICK q \in AfterPatch(p) : Goto(w, Counted(w, q))  BY <1>1 DEF PatchStep
<1>3. /\ p \in Proc /\ Shape(p) /\ p.pc \in {"patch", "unpatch"} /\ p.i \in Deployment /\ p.i \in p.changed
      /\ p.pc = "patch" => ~p.undoFailed
  BY <1>1 DEF PatchStep, WInv, ShapeInv, Shape, Undo, Failing, Proc
<1>4. /\ proc'[w] = q /\ UNCHANGED row /\ disturbed' = disturbed
      /\ image' = [image EXCEPT ![p.i] = PatchedTo(w, p)]
  BY <1>1, <1>2 DEF PatchStep, SetImage, Counted, Goto, queueVars, WInv, ShapeInv
<1>5. \A d \in Deployment : image'[d] = IF d = p.i THEN PatchedTo(w, p) ELSE image[d]
  BY <1>3, <1>4 DEF WInv, EnvTypes, Images
<1>6. \A d \in Deployment : d \in Int /\ (d < p.i \/ d > p.i \/ d = p.i) /\ ~(p.i < p.i)
  <2>1. p.i \in Int /\ \A d \in Deployment : d \in Int  BY <1>3, DeploymentsCounted
  <2>. QED  BY <2>1
<1>7. ~p.undoFailed => \A d \in Deployment \ disturbed : d \notin p.changed => image'[d] = p.prev[d]
  <2>1. ASSUME NEW d \in Deployment \ disturbed, d \notin p.changed, ~p.undoFailed
        PROVE  image[d] = p.prev[d]
    BY <1>1, <1>3, <1>6, <2>1 DEF ImageSound, Rollout, Undo
  <2>. QED  BY <1>3, <1>5, <2>1
<1>8. ASSUME NEW x \in Proc, x.prev = p.prev, q = UndoNext(x),
             ~x.undoFailed => ~p.undoFailed /\ x.changed = p.changed
      PROVE  ImageSound(q)'
  <2>1. /\ q.prev = p.prev /\ q.changed = x.changed /\ q.undoFailed = x.undoFailed
        /\ q.pc \in {"incomplete", "restored", "undo"}
    BY <1>8, UndoNextIs
  <2>. QED  BY <1>4, <1>7, <1>8, <2>1 DEF ImageSound, Rollout
<1>9. ASSUME q = UndoNext(p) /\ p.pc = "patch" PROVE ImageSound(q)'
  BY <1>3, <1>8, <1>9
<1>10. ASSUME q = NotUndone(p) PROVE ImageSound(q)'
  <2>. DEFINE x == [p EXCEPT !.changed = @ \ {p.i}, !.undoFailed = TRUE]
  <2>1. x \in Proc /\ x.undoFailed /\ x.prev = p.prev  BY <1>3, DropIs DEF Proc
  <2>2. q = UndoNext(x)  BY <1>10 DEF NotUndone
  <2>. HIDE DEF x
  <2>. QED  BY <1>8, <2>1, <2>2
<1>11. ASSUME p.pc = "unpatch" /\ q = [p EXCEPT !.pc = "unwait"] PROVE ImageSound(q)'
  <2>1. q.pc = "unwait" /\ q.changed = p.changed /\ q.prev = p.prev /\ q.undoFailed = p.undoFailed
    BY <1>3, <1>11 DEF Proc
  <2>. QED  BY <1>4, <1>7, <2>1 DEF ImageSound, Rollout
<1>12. ASSUME p.pc = "patch" /\ q = [p EXCEPT !.pc = "health"] PROVE ImageSound(q)'
  <2>1. q.pc = "health" /\ q.changed = p.changed /\ q.prev = p.prev /\ q.task = p.task /\ q.i = p.i
    BY <1>3, <1>12 DEF Proc
  <2>2. \A d \in Deployment \ disturbed :
          /\ d < p.i => image[d] = row[p.task].payload[d] /\ (d \notin p.changed => image[d] = p.prev[d])
          /\ d > p.i => image[d] = p.prev[d]
    BY <1>1, <1>12 DEF ImageSound, Rollout
  <2>3. \A d \in Deployment : d < p.i \/ d > p.i => image'[d] = image[d]  BY <1>3, <1>5, <1>6
  <2>. QED  BY <1>4, <2>1, <2>2, <2>3 DEF ImageSound, Rollout, Undo
<1>13. ImageSound(q)'  BY <1>2, <1>3, <1>9, <1>10, <1>11, <1>12 DEF AfterPatch
<1>. QED  BY <1>4, <1>13 DEF ImageSound

LEMMA ImageInductive ==
  ASSUME WInv, ImageInv, [WNext]_workerVars
  PROVE  ImageInv'
<1>. SUFFICES ASSUME NEW w \in Worker, ~At(w, "idle")', Holds(w, proc[w])'
              PROVE  ImageSound(proc[w])'
  BY DEF ImageInv
<1>0. [Next]_queueVars  BY StepOfQueue
<1>1. ASSUME proc'[w] = proc[w], StillThere PROVE ImageSound(proc[w])'
  <2>1. ~At(w, "idle")  BY <1>1 DEF At
  <2>. QED  BY <1>0, <1>1, <2>1, SoundStays
<1>2. ASSUME NEW v \in Worker, v # w, \E q : Goto(v, q) PROVE proc'[w] = proc[w]
  BY <1>2 DEF Goto, WInv, ShapeInv
<1>3. Quiet => StillThere  BY DEF Quiet, StillThere
<1>4. CASE OtherStep
  <2>1. StillThere
    BY <1>4 DEF OtherStep, StillThere, WInv, EnvTypes, Images
  <2>. QED  BY <1>1, <1>4, <2>1 DEF OtherStep
<1>5. ASSUME NEW v \in Worker, v # w, TurnStep(v) \/ BackupStep(v) \/ LeaveStepOf(v)
      PROVE  ImageSound(proc[w])'
  BY <1>1, <1>2, <1>3, <1>5 DEF TurnStep, BackupStep, LeaveStepOf
<1>6. ASSUME TurnStep(w) PROVE ImageSound(proc[w])'
  <2>1. PICK q : Turns(w, q) /\ Goto(w, q)  BY <1>6 DEF TurnStep
  <2>2. proc'[w] = q /\ ~At(w, "idle") /\ Shape(proc[w])
    BY <1>6, <2>1 DEF Goto, TurnStep, WInv, ShapeInv
  <2>3. q.task = MyTask(w)  BY <2>1, <2>2, TurnsIs DEF MyTask
  <2>4. Holds(w, q)'  BY <2>2 DEF Holds
  <2>5. Holds(w, q) /\ row'[q.task].payload = row[q.task].payload  BY <1>0, <2>2, <2>3, <2>4, HolderWas
  <2>6. ImageSound(proc[w])  BY <2>2, <2>3, <2>5 DEF ImageInv, Holds, MyTask
  <2>7. ImageSound(q)  BY <2>1, <2>2, <2>6, TurnsSound
  <2>8. ImageSound(q)'  BY <1>3, <1>6, <2>5, <2>7, SoundKept DEF TurnStep
  <2>. QED  BY <2>2, <2>8 DEF ImageSound
<1>7. ASSUME BackupStep(w) PROVE ImageSound(proc[w])'
  <2>1. proc'[w] = [proc[w] EXCEPT !.pc = "progress"] /\ proc[w] \in Proc
    BY <1>7 DEF BackupStep, Goto, WInv, ShapeInv
  <2>2. proc'[w].pc = "progress"  BY <2>1 DEF Proc
  <2>. QED  BY <2>2 DEF ImageSound, Rollout, Undo
<1>8. ~LeaveStepOf(w)
  BY DEF LeaveStepOf, Goto, WInv, ShapeInv, At, Idle
<1>9. ASSUME NEW v \in Worker, PatchStep(v) PROVE ImageSound(proc[w])'
  <2>. DEFINE p == proc[v]
  <2>0. ~At(v, "idle") /\ p.i \in Deployment /\ AtWork(v, p)
    BY <1>9 DEF PatchStep, At, WInv, WorkInv, ShapeInv, Shape, Undo, Proc
  <2>1. CASE Owns(v)
    <3>1. ~At(w, "idle")
      <4>1. CASE v = w  BY <2>0, <4>1
      <4>2. CASE v # w  BY <1>2, <1>9, <4>2 DEF PatchStep, At
      <4>. QED  BY <4>1, <4>2
    <3>2. proc'[w].task = proc[w].task
      <4>1. CASE v # w  BY <1>2, <1>9, <4>1 DEF PatchStep
      <4>2. CASE v = w
        <5>1. PICK q \in AfterPatch(proc[w]) : Goto(w, Counted(w, q))  BY <1>9, <4>2 DEF PatchStep
        <5>2. proc'[w] = q  BY <2>1, <4>2, <5>1 DEF Goto, Counted, WInv, ShapeInv
        <5>3. PICK x : x = proc[w]  OBVIOUS
        <5>4. Shape(x) /\ x.pc \in {"patch", "unpatch"} /\ q \in AfterPatch(x)
          BY <1>9, <4>2, <5>1, <5>3 DEF PatchStep, WInv, ShapeInv
        <5>5. q.task = x.task  BY <5>4, AfterPatchIs
        <5>. QED  BY <5>2, <5>3, <5>5
      <4>. QED  BY <4>1, <4>2
    <3>3. Holds(w, proc[w])  BY <1>9, <3>2 DEF Holds, PatchStep, queueVars
    <3>4. v = w  BY <2>0, <2>1, <3>1, <3>3, OneHolder DEF Owns, Holds, MyTask
    <3>5. ImageSound(proc[w])  BY <3>1, <3>3 DEF ImageInv
    <3>. QED  BY <1>9, <2>1, <3>4, <3>5, PatchesSound
  <2>2. CASE ~Owns(v)
    <3>1. StillThere
      BY <1>9, <2>0, <2>2 DEF PatchStep, SetImage, StillThere, WInv, EnvTypes, Images
    <3>2. v # w
      <4>1. ASSUME v = w PROVE FALSE
        <5>1. PICK q \in AfterPatch(proc[w]) : Goto(w, Counted(w, q))  BY <1>9, <4>1 DEF PatchStep
        <5>2. PICK x : x = proc[w]  OBVIOUS
        <5>3. Shape(x) /\ x.pc \in {"patch", "unpatch"} /\ q \in AfterPatch(x)
          BY <1>9, <4>1, <5>1, <5>2 DEF PatchStep, WInv, ShapeInv
        <5>4. q.task = x.task /\ q \in Proc  BY <5>3, AfterPatchIs DEF Shape
        <5>5. proc'[w] = Counted(w, q)  BY <5>1 DEF Goto, WInv, ShapeInv
        <5>6. Counted(w, q).task = q.task  BY <5>4 DEF Counted, Proc
        <5>7. Holds(w, proc[w])  BY <1>9, <5>2, <5>4, <5>5, <5>6 DEF Holds, PatchStep, queueVars
        <5>. QED  BY <2>0, <2>2, <4>1, <5>7 DEF AtWork, Owns, Holds, MyTask
      <4>. QED  BY <4>1
    <3>. QED  BY <1>1, <1>2, <1>9, <3>1, <3>2 DEF PatchStep
  <2>. QED  BY <2>1, <2>2
<1>10. ASSUME NEW v \in Worker, BeginStep(v) PROVE ImageSound(proc[w])'
  <2>1. StillThere  BY <1>10 DEF BeginStep, StillThere
  <2>2. CASE proc'[w] = proc[w]  BY <1>1, <2>1, <2>2
  <2>3. CASE proc'[w] # proc[w]
    <3>1. proc'[w].pc = "start"
      BY <1>10, <2>3 DEF BeginStep, Goto, Idle, WInv, ShapeInv
    <3>. QED  BY <3>1 DEF ImageSound, Rollout, Undo
  <2>. QED  BY <2>2, <2>3
<1>. QED  BY <1>4, <1>5, <1>6, <1>7, <1>8, <1>9, <1>10, Kinds

LEMMA ImageInvariant == WSpec => []ImageInv
<1>1. WInit => ImageInv  BY DEF WInit, ImageInv, At, Idle
<1>. QED  BY <1>1, WorkersInvariant, ImageInductive, PTL DEF WSpec

\* While a worker that still owns its task rolls forward, the Deployments nobody else
\* touched run the target up to where it is and what it read from there on.
THEOREM FrontierHolds == WSpec => []RolloutFrontier
<1>1. WInv /\ ImageInv => RolloutFrontier
  <2>. SUFFICES ASSUME WInv, ImageInv, NEW w \in Worker, proc[w].pc \in Rollout \union {"finish"}, Owns(w),
                       NEW d \in Deployment \ disturbed
                PROVE  /\ d < proc[w].i \/ At(w, "finish") => image[d] = Target(w)[d]
                       /\ d > proc[w].i /\ ~At(w, "finish") => image[d] = proc[w].prev[d]
    BY DEF RolloutFrontier
  <2>1. ImageSound(proc[w])
    BY DEF ImageInv, Owns, Holds, MyTask, At, Rollout
  <2>. QED  BY <2>1 DEF ImageSound, At, Target, MyTask
<1>. QED  BY <1>1, WorkersInvariant, ImageInvariant, PTL

\* A worker that reports the previous images restored has put back every image it read
\* on the Deployments nobody else touched.
THEOREM RestoredHolds == WSpec => []RestoredIsRestored
<1>1. WInv /\ ImageInv => RestoredIsRestored
  <2>. SUFFICES ASSUME WInv, ImageInv, NEW w \in Worker, At(w, "restored"), Owns(w),
                       NEW d \in Deployment \ disturbed
                PROVE  image[d] = proc[w].prev[d]
    BY DEF RestoredIsRestored
  <2>1. ImageSound(proc[w])
    BY DEF ImageInv, Owns, Holds, MyTask, At
  <2>2. proc[w].changed = {} /\ ~proc[w].undoFailed  BY DEF WInv, ShapeInv, Shape, At
  <2>. QED  BY <2>1, <2>2 DEF ImageSound, At
<1>. QED  BY <1>1, WorkersInvariant, ImageInvariant, PTL

\* The images of the Deployments when a task other than a preflight succeeds.
LEMMA SuccessImages ==
  ASSUME WInv, ImageInv, [WNext]_workerVars, NEW t \in Task, row[t].status = "running",
         row'[t].status = "succeeded", row[t].action # "preflight"
  PROVE  \A d \in Deployment \ disturbed : image[d] = row[t].payload[d]
<1>1. PICK w \in Worker : SucceedsBy(t, w)  BY SuccessIs
<1>2. At(w, "finish")
  BY <1>1 DEF SucceedsBy, WInv, WorkInv, AtWork, At, MyTask
<1>3. ImageSound(proc[w])
  BY <1>1, <1>2 DEF SucceedsBy, LeaseHeld, ImageInv, Holds, MyTask, At
<1>. QED  BY <1>1, <1>2, <1>3 DEF ImageSound, SucceedsBy, At, MyTask

\* A task that succeeds leaves every Deployment that nobody else touched on the image it
\* was bound to.
THEOREM SuccessReachesTarget == WSpec => SuccessMeansTarget
<1>1. WInv /\ ImageInv /\ [WNext]_workerVars =>
        [\A t \in Task :
           /\ row[t].status = "running" /\ row'[t].status = "succeeded"
           /\ row[t].action # "preflight"
           => \A d \in Deployment \ disturbed : image[d] = row[t].payload[d]]_workerVars
  BY SuccessImages
<1>. QED  BY <1>1, WorkersInvariant, ImageInvariant, PTL DEF WSpec, SuccessMeansTarget

------------------------------------------------------------------------------
(***************************************************************************)
(* Rollbacks.  A first attempt reads the images of its first claim and     *)
(* saves them; the rollback is bound to what was saved.                    *)
(***************************************************************************)

\* A first claim is recorded by the worker that makes it.
LEMMA BaseIs ==
  ASSUME WInv, [WNext]_workerVars, NEW t \in Task, base'[t] # base[t]
  PROVE  \E w \in Worker : /\ BeginStep(w) /\ claim[w].task = t
                           /\ row'[t].status = "running" /\ row'[t].claimedBy = w
                           /\ base[t] = Null /\ base'[t] = image
<1>1. PICK w \in Worker : BeginStep(w)
  BY Kinds DEF OtherStep, TurnStep, BackupStep, LeaveStepOf, PatchStep, Quiet
<1>2. claim[w].task = t /\ row' = [row EXCEPT ![t] = ClaimedRow(row[t], w)] /\ row[t] \in Row /\ row \in [Task -> Row]
  BY <1>1 DEF BeginStep, ClaimWon, WInv, EnvTypes, TypeInv, RowTypes
<1>3. row'[t].status = "running" /\ row'[t].claimedBy = w
  BY <1>2 DEF ClaimedRow, Row
<1>4. base[t] = Null /\ base'[t] = image
  BY <1>1, <1>2 DEF BeginStep, WInv, EnvTypes
<1>. QED  BY <1>1, <1>2, <1>3, <1>4

\* A task that succeeds has been claimed before.
LEMMA SuccessAttempt ==
  ASSUME TypeInv, [Next]_queueVars, NEW t \in Task, row[t].status = "running", row'[t].status = "succeeded"
  PROVE  row'[t].attempt = row[t].attempt
<1>0. row[t] \in Row  BY DEF TypeInv, RowTypes
<1>1. RowStep(t) /\ Exists(t)  BY StepsOnRows DEF queueVars, Exists
<1>2. row'[t] # RejectedRow(row[t])  BY <1>0 DEF RejectedRow, Row
<1>3. \A w \in Worker : row'[t] # ClaimedRow(row[t], w)  BY <1>0 DEF ClaimedRow, Row
<1>4. row'[t] # [row[t] EXCEPT !.lease = Lease]  BY <1>0 DEF Row
<1>5. \A backup \in Backup : row'[t] # [row[t] EXCEPT !.backup = backup]  BY <1>0 DEF Row
<1>6. row'[t] # [row[t] EXCEPT !.lease = LeaseAfterTick(@), !.ttl = TtlAfterTick(@)]  BY <1>0 DEF Row
<1>7. \E status \in {"succeeded", "failed"}, result \in Result \union {Null} :
        \E phase \in TerminalPhase(status) : row'[t] = FinishedRow(row[t], status, phase, result)
  BY <1>1, <1>2, <1>3, <1>4, <1>5, <1>6 DEF RowStep
<1>. QED  BY <1>0, <1>7 DEF FinishedRow, Row

\* A rollout, and a restore, goes on with the images it read.
LEMMA ForwardsKeep ==
  ASSUME NEW w \in Worker, Shape(proc[w]), NEW q, Forwards(w, q)
  PROVE  q.prev = proc[w].prev /\ q.pc \notin Opening \union {"read"}
<1>1. PICK p : p = proc[w]  OBVIOUS
<1>0. p \in Proc /\ p.pc \in Rollout  BY <1>1 DEF Shape, Forwards, Rollout
<1>2. ASSUME NEW x \in Proc, x.prev = p.prev, q = UndoNext(x)
      PROVE  q.prev = p.prev /\ q.pc \notin Opening \union {"read"}
  BY <1>2, UndoNextIs DEF Opening
<1>3. ASSUME NEW pc \in Rollout \union {"finish"}, q = [p EXCEPT !.pc = pc] \/ q = [p EXCEPT !.pc = pc, !.i = @ + 1]
      PROVE  q.prev = p.prev /\ q.pc \notin Opening \union {"read"}
  <2>1. q.prev = p.prev /\ q.pc = pc  BY <1>0, <1>3 DEF Proc
  <2>. QED  BY <2>1 DEF Opening, Rollout
<1>4. ASSUME p.pc = "advance", NEW d \in Todo(w)
      PROVE  Notes(p, d) \in Proc /\ Notes(p, d).prev = p.prev
  <2>1. d \in Deployment /\ d \in 1 .. N + 1
    <3>1. p.i \in 1 .. N + 1 /\ d \in p.i .. N  BY <1>0, <1>1, <1>4 DEF Todo, Proc
    <3>. QED  BY <3>1, DeploymentsCounted DEF Deployment
  <2>. QED  BY <1>0, <2>1 DEF Notes, Proc
<1>5. ASSUME p.pc = "advance", NEW d \in Todo(w), q = [Notes(p, d) EXCEPT !.pc = "patch"]
      PROVE  q.prev = p.prev /\ q.pc \notin Opening \union {"read"}
  <2>1. q.prev = p.prev /\ q.pc = "patch"  BY <1>4, <1>5 DEF Proc
  <2>. QED  BY <2>1 DEF Opening
<1>6. CASE \E d \in Todo(w) : p.pc = "advance" /\ q = UndoNext(Notes(p, d))
  BY <1>1, <1>2, <1>4, <1>6
<1>7. CASE q = UndoNext(p)  BY <1>0, <1>1, <1>2, <1>7
<1>. QED  BY <1>1, <1>3, <1>5, <1>6, <1>7 DEF Forwards, Rollout

LEMMA BacksKeep ==
  ASSUME NEW w \in Worker, Shape(proc[w]), NEW q, Backs(w, q)
  PROVE  q.pc \in Undo \union {"restored", "incomplete"}
<1>1. PICK p : p = proc[w]  OBVIOUS
<1>0. p \in Proc  BY <1>1 DEF Shape
<1>2. [p EXCEPT !.changed = @ \ {p.i}] \in Proc /\ [p EXCEPT !.changed = @ \ {p.i}, !.undoFailed = TRUE] \in Proc
  BY <1>0, DropIs
<1>3. \A x \in Proc : UndoNext(x).pc \in Undo \union {"restored", "incomplete"}
  BY UndoNextIs DEF Undo
<1>4. Undone(p).pc \in Undo \union {"restored", "incomplete"} /\ NotUndone(p).pc \in Undo \union {"restored", "incomplete"}
  BY <1>2, <1>3 DEF Undone, NotUndone
<1>5. \A pc \in {"unpatch", "unwait"} : [p EXCEPT !.pc = pc].pc \in Undo
  BY <1>0 DEF Proc, Undo
<1>. QED  BY <1>1, <1>4, <1>5 DEF Backs

\* What a worker goes on with, as its first attempt.
LEMMA TurnsBase ==
  ASSUME WInv, NEW w \in Worker, ~At(w, "idle"), BaseSound(proc[w]), NEW q, Turns(w, q)
  PROVE  BaseSound(q)
<1>1. PICK p : p = proc[w]  OBVIOUS
<1>0. p \in Proc /\ Shape(p) /\ BaseSound(p) /\ q.task = p.task /\ image \in Images
  BY <1>1, TurnsIs DEF WInv, ShapeInv, Shape, EnvTypes
<1>. SUFFICES ASSUME row[p.task].attempt = 1
              PROVE  /\ q.pc \in Opening \union {"read"} => image = base[p.task]
                     /\ q.pc = "read" => \A d \in 1 .. q.i - 1 : q.prev[d] = base[p.task][d]
                     /\ q.pc \in Rollout \union {"finish"} => q.prev = base[p.task]
  BY <1>0 DEF BaseSound
<1>2. /\ p.pc \in Opening \union {"read"} => image = base[p.task]
      /\ p.pc = "read" => \A d \in 1 .. p.i - 1 : p.prev[d] = base[p.task][d]
      /\ p.pc \in Rollout \union {"finish"} => p.prev = base[p.task]
  BY <1>0 DEF BaseSound
<1>3. CASE Opens(w, q)
  <2>1. CASE q = p \/ q = [p EXCEPT !.leaseError = TRUE]
    <3>1. q.pc = p.pc /\ q.i = p.i /\ q.prev = p.prev  BY <1>0, <2>1 DEF Proc
    <3>. QED  BY <1>2, <3>1
  <2>2. ASSUME NEW pc \in {"failing", "backup", "rehearse", "rehearsed", "read"}, q = [p EXCEPT !.pc = pc],
               pc \in {"backup", "read"} => p.pc \in Opening,
               pc = "read" => p.i = 1
        PROVE  /\ q.pc \in Opening \union {"read"} => image = base[p.task]
               /\ q.pc = "read" => \A d \in 1 .. q.i - 1 : q.prev[d] = base[p.task][d]
               /\ q.pc \in Rollout \union {"finish"} => q.prev = base[p.task]
    <3>1. q.pc = pc /\ q.i = p.i  BY <1>0, <2>2 DEF Proc
    <3>2. pc = "read" => 1 .. q.i - 1 = {}  BY <2>2, <3>1
    <3>. QED  BY <1>2, <2>2, <3>1, <3>2 DEF Opening, Rollout
  <2>3. p.pc = "progress" => p.i = 1  BY <1>0 DEF Shape, Opening
  <2>. QED  BY <1>1, <1>3, <2>1, <2>2, <2>3 DEF Opens, Failed, Opening
<1>4. CASE Reads(w, q)
  <2>. DEFINE x == [p.prev EXCEPT ![p.i] = image[p.i]]
  <2>1. /\ p.pc = "read" /\ p.i \in Deployment /\ p.i \in Int /\ q.prev = x
        /\ \/ q.pc = "read" /\ q.i = p.i + 1
           \/ p.i = N /\ q.pc = "advance"
    BY <1>0, <1>1, <1>4, DeploymentsCounted DEF Reads, Shape, Proc
  <2>2. \A d \in Deployment : d \in Int /\ (d <= p.i => d = p.i \/ d \in 1 .. p.i - 1)
    BY <2>1, DeploymentsCounted
  <2>3. \A d \in Deployment : d <= p.i => x[d] = image[d]
    <3>1. \A d \in Deployment : x[d] = IF d = p.i THEN image[d] ELSE p.prev[d]  BY <1>0 DEF Proc
    <3>. HIDE DEF x
    <3>. QED  BY <1>2, <2>1, <2>2, <3>1
  <2>4. x \in [Deployment -> Image \union {Null}]
    BY <1>0, <2>1 DEF Proc, Images
  <2>. HIDE DEF x
  <2>5. CASE q.pc = "read" /\ q.i = p.i + 1
    <3>1. \A d \in 1 .. q.i - 1 : d \in Deployment /\ d <= p.i
      BY <2>1, <2>5, DeploymentsCounted DEF Deployment
    <3>. QED  BY <1>2, <2>1, <2>3, <2>5, <3>1 DEF Rollout
  <2>6. CASE p.i = N /\ q.pc = "advance"
    <3>1. \A d \in Deployment : x[d] = image[d]  BY <2>3, <2>6, DeploymentsCounted
    <3>2. x = image  BY <1>0, <2>4, <3>1 DEF Images
    <3>. QED  BY <1>2, <2>1, <2>6, <3>2 DEF Rollout, Opening
  <2>. QED  BY <2>1, <2>5, <2>6
<1>5. CASE Forwards(w, q)
  <2>1. p.pc \in Rollout /\ p.prev = base[p.task]  BY <1>1, <1>2, <1>5 DEF Forwards, Rollout
  <2>2. q.prev = p.prev /\ q.pc \notin Opening \union {"read"}
    BY <1>1, <1>5, ForwardsKeep DEF WInv, ShapeInv
  <2>. QED  BY <2>1, <2>2 DEF Opening
<1>6. CASE Backs(w, q)
  <2>1. q.pc \in Undo \union {"restored", "incomplete"}
    BY <1>1, <1>6, BacksKeep DEF WInv, ShapeInv
  <2>. QED  BY <2>1 DEF Opening, Rollout, Undo
<1>. QED  BY <1>3, <1>4, <1>5, <1>6 DEF Turns

\* Where a patch goes on.
LEMMA AfterPatchGoes ==
  ASSUME NEW p \in Proc, p.pc \in {"patch", "unpatch"}, NEW q \in AfterPatch(p)
  PROVE  q.pc \in {"health", "unwait", "undo", "restored", "incomplete"} /\ (q.pc = "health" => p.pc = "patch")
<1>1. \A x \in Proc : UndoNext(x).pc \in {"undo", "restored", "incomplete"}  BY UndoNextIs
<1>2. NotUndone(p).pc \in {"undo", "restored", "incomplete"}  BY <1>1, DropIs DEF NotUndone
<1>. QED  BY <1>1, <1>2 DEF AfterPatch, Proc

\* Nobody else has touched a Deployment, before the step and after it.
LEMMA BaseSoundKept ==
  ASSUME NEW q, row'[q.task].attempt = row[q.task].attempt, base'[q.task] = base[q.task], image' = image,
         BaseSound(q)
  PROVE  BaseSound(q)'
BY DEF BaseSound

LEMMA BaseWorkers ==
  ASSUME WInv, BaseInv, [WNext]_workerVars, disturbed' = {}, NEW w \in Worker, ~At(w, "idle")', Holds(w, proc[w])'
  PROVE  BaseSound(proc[w])'
<1>0. [Next]_queueVars /\ ShapeInv'  BY StepOfQueue, WorkersKept
<1>1. disturbed = {}
  BY Kinds DEF OtherStep, TurnStep, BackupStep, LeaveStepOf, PatchStep, SetImage, BeginStep, Quiet
<1>2. PICK q : q = proc'[w]  OBVIOUS
<1>3. Holds(w, q)' /\ q.pc # "idle"  BY <1>2 DEF Holds, At
<1>4. SUFFICES BaseSound(q)'  BY <1>2 DEF BaseSound
<1>5. ASSUME ~At(w, "idle"), q.task = MyTask(w), UNCHANGED image, BaseSound(q)
      PROVE  BaseSound(q)'
  <2>1. row'[q.task].attempt = row[q.task].attempt /\ Holds(w, q)  BY <1>0, <1>3, <1>5, HolderWas
  <2>2. q.task \in Task /\ claim[w].step = "none"
    BY <1>5, WorkersTask DEF WInv, WorkInv, AtWork
  <2>3. base'[q.task] = base[q.task]
    <3>1. ASSUME base'[q.task] # base[q.task] PROVE FALSE
      <4>1. PICK v \in Worker : BeginStep(v) /\ row'[q.task].claimedBy = v  BY <2>2, <3>1, BaseIs
      <4>2. v = w  BY <1>3, <4>1 DEF Holds
      <4>. QED  BY <1>5, <4>1, <4>2 DEF BeginStep
    <3>. QED  BY <3>1
  <2>. QED  BY <1>5, <2>1, <2>3, BaseSoundKept
<1>6. ASSUME ~At(w, "idle"), q = proc[w] PROVE BaseSound(q)
  <2>1. Holds(w, q)  BY <1>0, <1>3, <1>6, HolderWas DEF MyTask
  <2>. QED  BY <1>1, <1>6, <2>1 DEF BaseInv
<1>7. CASE proc'[w] = proc[w]
  <2>1. ~At(w, "idle") /\ q = proc[w] /\ q.task = MyTask(w)  BY <1>2, <1>3, <1>7 DEF At, MyTask
  <2>2. BaseSound(q)  BY <1>6, <2>1
  <2>3. UNCHANGED image
    <3>1. ASSUME NEW v \in Worker, PatchStep(v) PROVE FALSE
      <4>1. Owns(v)  BY <3>1 DEF PatchStep, SetImage
      <4>2. ~At(v, "idle") /\ Holds(v, proc[v])  BY <3>1, <4>1 DEF PatchStep, At, Owns, Holds, MyTask
      <4>3. Holds(w, proc[w])  BY <1>3, <2>1, <3>1 DEF PatchStep, queueVars, Holds
      <4>4. v = w  BY <2>1, <4>2, <4>3, OneHolder
      <4>5. PICK x \in AfterPatch(q) : Goto(w, Counted(w, x))  BY <2>1, <3>1, <4>4 DEF PatchStep
      <4>6. proc'[w] = x  BY <4>1, <4>4, <4>5 DEF Goto, Counted, WInv, ShapeInv
      <4>7. q.pc \in {"patch", "unpatch"} /\ Shape(q) /\ q \in Proc
        BY <2>1, <3>1, <4>4 DEF PatchStep, WInv, ShapeInv, Shape
      <4>8. x.pc \notin {"patch", "unpatch"}  BY <4>7, AfterPatchGoes
      <4>. QED  BY <1>2, <4>6, <4>7, <4>8
    <3>. QED
      BY <1>1, <3>1, Kinds DEF OtherStep, TurnStep, BackupStep, LeaveStepOf, BeginStep, Quiet
  <2>. QED  BY <1>5, <2>1, <2>2, <2>3
<1>8. CASE proc'[w] # proc[w]
  <2>0. ASSUME NEW v \in Worker, v # w, \E x : Goto(v, x) PROVE FALSE
    BY <1>8, <2>0 DEF Goto, WInv, ShapeInv
  <2>1. CASE TurnStep(w)
    <3>1. Turns(w, q) /\ ~At(w, "idle") /\ UNCHANGED image
      BY <1>2, <2>1 DEF TurnStep, Quiet, Goto, WInv, ShapeInv
    <3>2. q.task = MyTask(w)  BY <3>1, TurnsIs DEF WInv, ShapeInv, MyTask
    <3>3. Holds(w, proc[w])
      <4>1. Holds(w, q)  BY <1>0, <1>3, <3>1, <3>2, HolderWas
      <4>. QED  BY <3>2, <4>1 DEF Holds, MyTask
    <3>4. BaseSound(proc[w])  BY <1>1, <3>1, <3>3 DEF BaseInv
    <3>5. BaseSound(q)  BY <3>1, <3>4, TurnsBase
    <3>. QED  BY <1>5, <3>1, <3>2, <3>5
  <2>2. CASE BackupStep(w)
    <3>1. PICK p : p = proc[w]  OBVIOUS
    <3>2. p \in Proc /\ p.pc = "backup" /\ q = [p EXCEPT !.pc = "progress"] /\ UNCHANGED image
      BY <1>2, <2>2, <3>1 DEF BackupStep, At, Quiet, Goto, WInv, ShapeInv
    <3>3. q.pc = "progress" /\ q.task = p.task /\ ~At(w, "idle")  BY <3>1, <3>2 DEF Proc, At
    <3>4. Holds(w, q)  BY <1>0, <1>3, <3>1, <3>3, HolderWas DEF MyTask
    <3>5. BaseSound(p)  BY <1>1, <3>1, <3>3, <3>4 DEF BaseInv, Holds
    <3>6. BaseSound(q)  BY <3>2, <3>3, <3>5 DEF BaseSound, Opening, Rollout
    <3>. QED  BY <1>5, <3>1, <3>2, <3>3, <3>6 DEF MyTask
  <2>3. CASE LeaveStepOf(w)
    BY <1>2, <1>3, <2>3 DEF LeaveStepOf, Goto, Idle, WInv, ShapeInv
  <2>4. CASE PatchStep(w)
    <3>1. PICK p : p = proc[w]  OBVIOUS
    <3>2. PICK x \in AfterPatch(p) : Goto(w, Counted(w, x))  BY <2>4, <3>1 DEF PatchStep
    <3>3. Owns(w)  BY <1>1, <2>4 DEF PatchStep, SetImage
    <3>4. q = x  BY <1>2, <3>2, <3>3 DEF Goto, Counted, WInv, ShapeInv
    <3>5. p.pc \in {"patch", "unpatch"} /\ Shape(p) /\ p \in Proc /\ ~At(w, "idle")
      BY <2>4, <3>1 DEF PatchStep, WInv, ShapeInv, Shape, At
    <3>6. q.task = p.task /\ q.prev = p.prev  BY <3>2, <3>4, <3>5, AfterPatchIs
    <3>7. q.pc \in {"health", "unwait", "undo", "restored", "incomplete"} /\ (q.pc = "health" => p.pc = "patch")
      BY <3>2, <3>4, <3>5, AfterPatchGoes
    <3>8. UNCHANGED <<row, base>> /\ Holds(w, p)
      BY <2>4, <3>1, <3>3 DEF PatchStep, queueVars, Owns, Holds, MyTask
    <3>9. BaseSound(p)  BY <1>1, <3>1, <3>5, <3>8 DEF BaseInv
    <3>. QED  BY <3>5, <3>6, <3>7, <3>8, <3>9 DEF BaseSound, Opening, Rollout
  <2>5. CASE BeginStep(w)
    <3>. DEFINE t == claim[w].task
    <3>1. q = [Idle EXCEPT !.pc = "start", !.task = t, !.attempt = row'[t].attempt]
      BY <1>2, <1>8, <2>5 DEF BeginStep, Goto, WInv, ShapeInv
    <3>2. q.pc = "start" /\ q.task = t /\ t \in Task
      BY <2>5, <3>1 DEF Idle, BeginStep, ClaimWon, WInv, TypeInv, ClaimTypes
    <3>3. row'[t].attempt = row[t].attempt + 1 /\ row[t].attempt \in Nat
      <4>1. row[t] \in Row  BY <3>2 DEF WInv, TypeInv, RowTypes
      <4>. QED  BY <2>5, <3>2, <4>1 DEF BeginStep, ClaimWon, ClaimedRow, Row, WInv, TypeInv, RowTypes
    <3>4. row'[t].attempt = 1 => base'[t] = image /\ UNCHANGED image
      <4>1. row'[t].attempt = 1 => base[t] = Null  BY <3>2, <3>3 DEF WInv, UpdateInv, UpdateRow
      <4>. QED  BY <2>5, <3>2, <4>1 DEF BeginStep, WInv, EnvTypes
    <3>. QED  BY <3>2, <3>4 DEF BaseSound, Opening, Rollout
  <2>6. ~OtherStep  BY <1>8 DEF OtherStep
  <2>7. PICK v \in Worker : TurnStep(v) \/ BackupStep(v) \/ LeaveStepOf(v) \/ PatchStep(v) \/ BeginStep(v)
    BY <2>6, Kinds
  <2>8. \E x : Goto(v, x)
    <3>1. CASE BeginStep(v)  BY <1>8, <3>1 DEF BeginStep
    <3>2. CASE ~BeginStep(v)  BY <2>7, <3>2 DEF TurnStep, BackupStep, LeaveStepOf, PatchStep
    <3>. QED  BY <3>1, <3>2
  <2>9. v = w  BY <2>0, <2>8
  <2>. QED  BY <2>1, <2>2, <2>3, <2>4, <2>5, <2>7, <2>9
<1>. QED  BY <1>7, <1>8

LEMMA SavedKept ==
  ASSUME WInv, BaseInv, [WNext]_workerVars, disturbed' = {}, NEW t \in Task
  PROVE  SavedRow(t)'
<1>0. [Next]_queueVars  BY StepOfQueue
<1>1. disturbed = {}
  BY Kinds DEF OtherStep, TurnStep, BackupStep, LeaveStepOf, PatchStep, SetImage, BeginStep, Quiet
<1>. SUFFICES ASSUME row'[t].status = "succeeded", row'[t].action # "preflight", row'[t].attempt = 1
              PROVE  row'[t].result = base'[t]
  BY DEF SavedRow
<1>2. base'[t] = base[t]  BY BaseIs
<1>3. CASE row[t].status = "succeeded"
  <2>1. row'[t].result = row[t].result /\ row'[t].attempt = row[t].attempt
    BY <1>0, <1>3, SuccessKept DEF WInv
  <2>2. row'[t].action = row[t].action  BY <1>0, <1>3, RowKept DEF WInv, KeptRow, Exists
  <2>. QED  BY <1>1, <1>2, <1>3, <2>1, <2>2 DEF BaseInv, SavedRow
<1>4. CASE row[t].status # "succeeded"
  <2>1. PICK w \in Worker : SucceedsBy(t, w)  BY <1>4, SuccessIs
  <2>2. row[t].status = "running" /\ Holds(w, proc[w]) /\ ~At(w, "idle")
    BY <2>1 DEF SucceedsBy, LeaseHeld, Holds, MyTask, At
  <2>3. row'[t].attempt = row[t].attempt  BY <1>0, <2>2, SuccessAttempt DEF WInv
  <2>4. row'[t].action = row[t].action  BY <1>0, <2>2, RowKept DEF WInv, KeptRow, Exists
  <2>5. At(w, "finish") /\ row'[t].result = proc[w].prev
    BY <2>1, <2>4 DEF SucceedsBy, WInv, WorkInv, AtWork, At, MyTask
  <2>6. BaseSound(proc[w])  BY <1>1, <2>2 DEF BaseInv
  <2>7. proc[w].prev = base[t]  BY <2>1, <2>3, <2>5, <2>6 DEF BaseSound, SucceedsBy, MyTask, At
  <2>. QED  BY <1>2, <2>5, <2>7
<1>. QED  BY <1>3, <1>4

LEMMA BaseInvariant == WSpec => []BaseInv
<1>1. WInit => BaseInv
  <2>. SUFFICES ASSUME WInit PROVE BaseInv  OBVIOUS
  <2>1. \A t \in Task : row[t].status = "absent"  BY DEF WInit, Init, NoRow
  <2>. QED  BY <2>1 DEF WInit, BaseInv, SavedRow, At, Idle
<1>2. WInv /\ BaseInv /\ [WNext]_workerVars => BaseInv'
  <2>. SUFFICES ASSUME WInv, BaseInv, [WNext]_workerVars, disturbed' = {}
                PROVE  /\ \A w \in Worker : ~At(w, "idle")' /\ Holds(w, proc[w])' => BaseSound(proc[w])'
                       /\ \A t \in Task : SavedRow(t)'
    BY DEF BaseInv
  <2>. QED  BY BaseWorkers, SavedKept
<1>. QED  BY <1>1, <1>2, WorkersInvariant, PTL DEF WSpec

\* A step of the controller or of its surroundings creates a row only as a submission.
LEMMA NewRowIs ==
  ASSUME WInv, [WNext]_workerVars, NEW t \in Task, ~Exists(t), Exists(t)'
  PROVE  SubmitTask
<1>. SUFFICES ASSUME ~SubmitTask PROVE FALSE  OBVIOUS
<1>. USE DEF queueVars
<1>0. row \in [Task -> Row] /\ row[t] \in Row /\ row[t].status = "absent" /\ row'[t].status # "absent"
  BY DEF WInv, TypeInv, RowTypes, Exists
<1>1. row' # row  BY <1>0
<1>2. ASSUME NEW u \in Task, NEW w \in Worker,
             Heartbeat(u, w) \/ (\E b \in Backup : RecordBackup(u, w, b))
             \/ \E status, phase, result : Finish(u, w, status, phase, result)
      PROVE  FALSE
  <2>1. row[u].status # "absent"  BY <1>2 DEF Heartbeat, RecordBackup, Finish, LeaseHeld
  <2>2. row'[t] = row[t]  BY <1>0, <1>2, <2>1 DEF Heartbeat, RecordBackup, Finish
  <2>. QED  BY <1>0, <2>2
<1>3. ASSUME NEW w \in Worker, ~At(w, "idle") PROVE MyTask(w) \in Task
  BY <1>3, WorkersTask DEF WInv
<1>4. ASSUME NEW w \in Worker, NEW p, NEW q, Report(w, p, q), ~At(w, "idle") PROVE FALSE
  <2>1. MyTask(w) \in Task  BY <1>3, <1>4
  <2>. QED  BY <1>1, <1>2, <1>4, <2>1 DEF Report, Reported, Throws
<1>5. ASSUME NEW w \in Worker,
             Renew(w) \/ Start(w) \/ BackedUp(w) \/ Rehearse(w) \/ Patched(w) \/ UndoReport(w) \/ Advance(w)
      PROVE  FALSE
  <2>1. ~At(w, "idle")
    BY <1>5 DEF Renew, Start, BackedUp, Rehearse, Patched, UndoReport, Advance, At
  <2>2. ~Advance(w)  BY <1>1, <1>4, <2>1 DEF Advance
  <2>. QED  BY <1>4, <1>5, <2>1, <2>2 DEF Renew, Start, BackedUp, Rehearse, Patched, UndoReport
<1>6. ASSUME NEW w \in Worker, Poll(w) \/ BeginTask(w) PROVE FALSE
  <2>1. ASSUME ClaimReject(w) \/ ClaimWon(w) PROVE FALSE
    <3>1. PICK u : u = claim[w].task  OBVIOUS
    <3>2. Claimable(u) /\ row'[t] = row[t]
      BY <1>0, <1>1, <2>1, <3>1 DEF ClaimReject, ClaimWon, Unchanged, Claimable
    <3>. QED  BY <1>0, <3>2
  <2>. QED  BY <1>1, <1>6, <2>1 DEF Poll, BeginTask, ClaimRead, ClaimNone, ClaimLost
<1>7. ASSUME NEW w \in Worker, BackUp(w) \/ Rehearsed(w) \/ Complete(w) \/ Fail(w) PROVE FALSE
  <2>1. MyTask(w) \in Task  BY <1>3, <1>7 DEF BackUp, Rehearsed, Complete, Fail, Failing, At
  <2>. QED  BY <1>1, <1>2, <1>7, <2>1 DEF BackUp, Rehearsed, Complete, Fail, Throws
<1>8. ASSUME NEW w \in Worker, Patch(w) \/ UndoPatch(w) \/ Wait(w) \/ UndoWait(w) \/ ReadDeployment(w) \/ Crash(w)
       PROVE  FALSE
  BY <1>1, <1>8 DEF Patch, UndoPatch, PatchImage, Wait, UndoWait, WaitReady, Throws, ReadDeployment, Crash
<1>9. ASSUME TimePasses PROVE FALSE
  <2>1. row'[t] = [row[t] EXCEPT !.lease = LeaseAfterTick(@), !.ttl = TtlAfterTick(@)]
    BY <1>9 DEF TimePasses, Tick
  <2>. QED  BY <1>0, <2>1 DEF Row
<1>10. ASSUME NEW d \in Deployment, RolloutDone(d) \/ Edit(d) PROVE FALSE
  BY <1>1, <1>10 DEF RolloutDone, Edit
<1>. QED
  BY <1>1, <1>5, <1>6, <1>7, <1>8, <1>9, <1>10 DEF WNext, WorkerStep, workerVars

\* The rows between an update and the row submitted after it keep their actions.
LEMMA RowsBefore ==
  ASSUME WInv, [Next]_queueVars, NEW t \in Task, NEW u \in 1 .. t - 1, Exists(t)',
         \A v \in Task : v < t => Exists(v)
  PROVE  u \in Task /\ (UpdateBefore(t, u)' => UpdateBefore(t, u)) /\ \A v \in u .. t - 1 : v \in Task /\ v < t
<1>1. /\ t \in Int /\ u \in Int /\ u \in Task
      /\ \A v \in u .. t - 1 : v \in Task /\ v < t
  BY BoundAssumption DEF Task
<1>2. \A v \in u .. t - 1 : row'[v].action = row[v].action
  BY <1>1, RowKept DEF WInv, KeptRow
<1>. QED  BY <1>1, <1>2 DEF UpdateBefore

LEMMA UndoesKept ==
  ASSUME WInv, UndoesInv, [WNext]_workerVars, NEW t \in Task
  PROVE  UndoesRow(t)'
<1>0. [Next]_queueVars  BY StepOfQueue
<1>. SUFFICES ASSUME row'[t].action = "rollback"
              PROVE  /\ Exists(t)'
                     /\ \A u \in 1 .. t - 1 : UpdateBefore(t, u)' =>
                          row'[u].status = "succeeded" /\ row'[t].payload = row'[u].result
  BY DEF UndoesRow
<1>1. KeptRow(t) /\ UndoesRow(t)  BY <1>0, RowKept DEF WInv, UndoesInv
<1>2. Exists(t)'  BY <1>1 DEF KeptRow, UndoesRow
<1>3. ASSUME NEW u \in 1 .. t - 1, UpdateBefore(t, u)'
      PROVE  row'[u].status = "succeeded" /\ row'[t].payload = row'[u].result
  <2>1. \A v \in Task : v < t => Exists(v)
    <3>1. CASE Exists(t)  BY <3>1 DEF WInv, NoGaps
    <3>2. CASE ~Exists(t)
      <4>1. t = NextTask  BY <1>1, <1>2, <3>2 DEF KeptRow
      <4>. QED  BY <3>2, <4>1, NextTaskIsNew
    <3>. QED  BY <3>1, <3>2
  <2>2. u \in Task /\ UpdateBefore(t, u) /\ \A v \in u .. t - 1 : v \in Task /\ v < t
    BY <1>0, <1>2, <1>3, <2>1, RowsBefore
  <2>3. u \in u .. t - 1  BY BoundAssumption DEF Task
  <2>4. Exists(u) /\ row[u].action # "preflight"  BY <2>1, <2>2, <2>3 DEF UpdateBefore
  <2>5. CASE Exists(t)
    <3>1. /\ row[u].status = "succeeded" /\ row[t].payload = row[u].result
          /\ row'[t].payload = row[t].payload
      BY <1>1, <2>2, <2>5 DEF KeptRow, UndoesRow
    <3>2. row'[u].status = "succeeded"  BY <1>0, <2>2, <2>4, <3>1, FinalStep DEF WInv
    <3>3. row'[u].result = row[u].result  BY <1>0, <2>2, <3>1, <3>2, SuccessKept DEF WInv
    <3>. QED  BY <3>1, <3>2, <3>3
  <2>6. CASE ~Exists(t)
    <3>1. SubmitTask /\ t = NextTask  BY <1>1, <1>2, <2>6, NewRowIs DEF KeptRow
    <3>2. ASSUME NEW action, NEW payload, Submit(action, payload, Ttl, TRUE)
          PROVE  row'[t].action = action /\ row'[t].payload = payload /\ row'[u] = row[u]
      <4>1. row' = [row EXCEPT ![t] = QueuedRow(action, payload, Ttl, TRUE)]  BY <3>1, <3>2 DEF Submit
      <4>2. u # t  BY <2>4, <2>6
      <4>3. row'[t] = QueuedRow(action, payload, Ttl, TRUE) /\ row'[u] = row[u]
        BY <2>2, <4>1, <4>2 DEF WInv, TypeInv, RowTypes
      <4>. QED  BY <4>3 DEF QueuedRow, NoRow
    <3>3. ASSUME NEW action \in {"install", "preflight"}, Submit(action, [d \in Deployment |-> New], Ttl, TRUE)
          PROVE  FALSE
      <4>. DEFINE images == [d \in Deployment |-> New]
      <4>1. PICK payload : payload = images  OBVIOUS
      <4>2. Submit(action, payload, Ttl, TRUE)  BY <3>3, <4>1
      <4>3. row'[t].action = action  BY <3>2, <4>2
      <4>. QED  BY <4>3
    <3>4. PICK s \in Task : /\ IsLatest(s, {"install", "rollback"}) /\ row[s].status = "succeeded"
                            /\ Submit("rollback", row[s].result, Ttl, TRUE)
      BY <3>1, <3>3 DEF SubmitTask
    <3>5. row'[t].payload = row[s].result /\ row'[u] = row[u]
      <4>1. PICK payload : payload = row[s].result  OBVIOUS
      <4>2. Submit("rollback", payload, Ttl, TRUE)  BY <3>4, <4>1
      <4>. QED  BY <3>2, <4>1, <4>2
    <3>6. s = u
      <4>1. row[u].action \in {"install", "rollback"}
        BY <2>2, <2>4 DEF WInv, TypeInv, RowTypes, Row, Action
      <4>2. u <= s  BY <2>2, <2>4, <3>4, <4>1 DEF IsLatest
      <4>3. s < t
        <5>1. s # t /\ Exists(s)  BY <2>6, <3>4 DEF IsLatest
        <5>2. ~(t < s)  BY <2>6, <5>1 DEF WInv, NoGaps
        <5>. QED  BY <5>1, <5>2, TaskIsNat
      <4>4. s \in u .. t - 1  BY <2>2, <4>2, <4>3, TaskIsNat
      <4>. QED  BY <2>2, <3>4, <4>4 DEF UpdateBefore, IsLatest
    <3>. QED  BY <3>4, <3>5, <3>6
  <2>. QED  BY <2>5, <2>6
<1>. QED  BY <1>2, <1>3

LEMMA UndoesInvariant == WSpec => []UndoesInv
<1>1. WInit => UndoesInv
  <2>. SUFFICES ASSUME WInit PROVE UndoesInv  OBVIOUS
  <2>1. \A t \in Task : row[t].action = "install"  BY DEF WInit, Init, NoRow
  <2>. QED  BY <2>1 DEF UndoesInv, UndoesRow
<1>2. WInv /\ UndoesInv /\ [WNext]_workerVars => UndoesInv'
  <2>. SUFFICES ASSUME WInv, UndoesInv, [WNext]_workerVars PROVE \A t \in Task : UndoesRow(t)'
    BY DEF UndoesInv
  <2>. QED  BY UndoesKept
<1>. QED  BY <1>1, <1>2, WorkersInvariant, PTL DEF WSpec

\* A rollback that succeeds, of a task that needed one attempt, with nobody else touching
\* the Deployments, puts the cluster back to the images it ran when that task was first
\* claimed.
THEOREM RollbackRestores == WSpec => RollbackUndoes
<1>1. ASSUME WInv, ImageInv, BaseInv, UndoesInv, [WNext]_workerVars,
             NEW t \in Task, NEW u \in 1 .. t - 1,
             row[t].action = "rollback", row[t].status = "running", row'[t].status = "succeeded",
             \A v \in u .. t - 1 : row[v].action = "preflight" <=> v # u,
             row[u].attempt = 1, disturbed = {}
      PROVE  image = base[u]
  <2>1. row[u].status = "succeeded" /\ row[t].payload = row[u].result
    BY <1>1 DEF UndoesInv, UndoesRow, UpdateBefore
  <2>2. u \in Task /\ u \in u .. t - 1  BY BoundAssumption DEF Task
  <2>3. row[u].result = base[u]  BY <1>1, <2>1, <2>2 DEF BaseInv, SavedRow
  <2>4. \A d \in Deployment \ disturbed : image[d] = row[t].payload[d]  BY <1>1, SuccessImages
  <2>5. row[t].payload \in Images /\ image \in Images
    BY <1>1 DEF WInv, UpdateInv, UpdateRow, Exists, EnvTypes
  <2>6. image = row[t].payload  BY <1>1, <2>4, <2>5 DEF Images
  <2>. QED  BY <2>1, <2>3, <2>6
<1>2. WInv /\ ImageInv /\ BaseInv /\ UndoesInv /\ [WNext]_workerVars =>
        [\A t \in Task : \A u \in 1 .. t - 1 :
           /\ row[t].action = "rollback" /\ row[t].status = "running" /\ row'[t].status = "succeeded"
           /\ \A v \in u .. t - 1 : row[v].action = "preflight" <=> v # u
           /\ row[u].attempt = 1 /\ disturbed = {}
           => image = base[u]]_workerVars
  BY <1>1
<1>. QED  BY <1>2, WorkersInvariant, ImageInvariant, BaseInvariant, UndoesInvariant, PTL DEF WSpec, RollbackUndoes
===============================================================================
