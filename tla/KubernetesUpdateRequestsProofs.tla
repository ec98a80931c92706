-------------------- MODULE KubernetesUpdateRequestsProofs --------------------
(***************************************************************************)
(* Theorems about the update requests of the control API, for any number   *)
(* of requests, tasks, workers and saves.                                  *)
(***************************************************************************)
EXTENDS KubernetesUpdateRequests, KubernetesUpdateTasksProofs

ApiTypes ==
  /\ settings \in Version
  /\ mem \in [fp : Version \union {Null}, busy : BOOLEAN]
  /\ req \in [Request -> Req]
  /\ seen \in Version \union {Null}
  /\ cleared \in Task \union {Null}
  /\ passed \subseteq Task

\* What the rows say, whoever submitted them.
BoundRow(t) ==
  /\ Exists(t) => row[t].payload \in Binding
  /\ ~Exists(t) => row[t].action = "install"
  /\ row[t].status = "succeeded" => t \in passed

BoundInv == \A t \in Task : BoundRow(t)

InstallPc == {"install-bind", "install-settings", "install-check", "install-target", "install-submit"}

\* A request knows a row that exists; one that found a passed preflight found one that
\* the controller has passed.
ReqSound(r) ==
  /\ req[r].pc \in InstallPc \union {"invalidate-write", "rollback-settings", "rollback-submit"} =>
       req[r].task \in Task /\ Exists(req[r].task)
  /\ req[r].pc \in InstallPc => row[req[r].task].action = "preflight"
  /\ req[r].pc \in InstallPc /\ req[r].flag => req[r].task \in passed
  /\ req[r].pc \in {"install-target", "install-submit"} => req[r].flag

ReqInv == \A r \in Request : ReqSound(r)

\* The row of an install, as InstallWithinPreflight says it.
InstallSound(t) == row[t].action = "install" /\ Exists(t) =>
  LET p == row[t].payload.pre IN
  /\ p \in Task /\ p < t
  /\ row[p].action = "preflight" /\ p \in passed
  /\ row[t].ttl = row[p].ttl

InstallInv == \A t \in Task : InstallSound(t)

RInv == TypeInv /\ NoGaps /\ ApiTypes /\ BoundInv /\ ReqInv /\ InstallInv

------------------------------------------------------------------------------
(***************************************************************************)
(* What holds if the requests come one at a time.                          *)
(***************************************************************************)
OneAtATime == \A r, s \in Request : r = s

KnownFp(fp) == fp \in Version /\ fp <= settings

\* No row is bound to settings that are not saved yet, and the install of one request
\* is bound to those of its preflight.
FpRow(t) == Exists(t) =>
  /\ KnownFp(row[t].payload.fp)
  /\ row[t].action = "install" => row[row[t].payload.pre].payload.fp = row[t].payload.fp
  /\ row[t].status = "running" /\ seen # Null => row[t].payload.fp <= seen

FpReq(r) ==
  /\ req[r].pc \in {"preflight-bind", "preflight-submit", "rollback-submit"} => KnownFp(req[r].fp)
  /\ req[r].pc \in {"install-settings", "install-check", "install-target"} /\ req[r].flag =>
       mem.fp = row[req[r].task].payload.fp
  /\ req[r].pc = "install-submit" => req[r].fp = row[req[r].task].payload.fp

FpInv ==
  /\ seen # Null => seen <= settings
  /\ \A t \in Task : FpRow(t)
  /\ \A r \in Request : FpReq(r)

------------------------------------------------------------------------------
(***************************************************************************)
(* Requests and controller are clients of the queue: every step they take  *)
(* is an operation of it, or leaves it alone.                              *)
(***************************************************************************)

\* A binding composed of what requests hold.
LEMMA BindingComposed ==
  ASSUME NEW fp \in Version \union {Null}, NEW pre \in Task \union {Null}, NEW of \in Task \union {Null}
  PROVE  [fp |-> fp, pre |-> pre, of |-> of] \in Payload
BY BindingAssumption DEF Binding

\* Request r inserts a row.
InsertStep(r, action, payload, ttl) ==
  /\ Submit(action, payload, ttl, TRUE)
  /\ action \in Action /\ payload \in Payload /\ ttl \in 0..Ttl
  /\ \/ At(r, "preflight-submit") /\ action = "preflight" /\ payload = [fp |-> req[r].fp, pre |-> Null, of |-> Null]
     \/ /\ At(r, "install-submit") /\ action = "install"
        /\ payload = [fp |-> req[r].fp, pre |-> req[r].task, of |-> Null] /\ ttl = row[req[r].task].ttl
     \/ At(r, "rollback-submit") /\ action = "rollback" /\ payload = [fp |-> req[r].fp, pre |-> Null, of |-> req[r].task]
  /\ \E p \in {IdleReq, [IdleReq EXCEPT !.pc = "update-set"]} : Continue(r, p)
  /\ UNCHANGED controllerVars

Inserts(r) == \E action, payload, ttl : InsertStep(r, action, payload, ttl)

\* Any other step on the table.
Works ==
  \/ \E w \in Worker : ControllerClaim(w)
  \/ \E t \in Task, w \in Worker, result \in Result \union {Null} :
       Finish(t, w, "failed", "failed", result) /\ seen' = Null
  \/ \E t \in Task, w \in Worker, result \in Result :
       Finish(t, w, "succeeded", "completed", result) /\ seen' = Null /\ passed' = passed \union {t}
  \/ \E t \in Task, result \in Result : InvalidatePreflight(t, result) /\ UNCHANGED controllerVars
  \/ TimePasses

LEMMA QueueKinds ==
  ASSUME TypeInv, ApiTypes, ReqInv, RNext
  PROVE  UNCHANGED queueVars \/ Works \/ \E r \in Request : Inserts(r)
<1>1. ASSUME NEW r \in Request, PreflightSubmit(r)
      PROVE  UNCHANGED queueVars \/ Inserts(r)
  <2>1. CASE UNCHANGED queueVars  BY <2>1
  <2>2. ASSUME NEW ttl \in 1..Ttl,
               Submit("preflight", [fp |-> req[r].fp, pre |-> Null, of |-> Null], ttl, TRUE)
        PROVE  Inserts(r)
    <3>1. [fp |-> req[r].fp, pre |-> Null, of |-> Null] \in Payload
      BY BindingComposed DEF ApiTypes, Req
    <3>2. ttl \in 0..Ttl  BY BoundAssumption
    <3>3. At(r, "preflight-submit") /\ Continue(r, IdleReq) /\ UNCHANGED controllerVars
      BY <1>1 DEF PreflightSubmit, Return
    <3>. QED  BY <2>2, <3>1, <3>2, <3>3 DEF Inserts, InsertStep, Action
  <2>. QED  BY <1>1, <2>1, <2>2 DEF PreflightSubmit
<1>2. ASSUME NEW r \in Request, InstallSubmit(r)
      PROVE  UNCHANGED queueVars \/ Inserts(r)
  <2>. DEFINE payload == [fp |-> req[r].fp, pre |-> req[r].task, of |-> Null]
              ttl == row[req[r].task].ttl
  <2>1. At(r, "install-submit") /\ QueueUpdate(r, "install", payload, ttl)
    BY <1>2 DEF InstallSubmit, InstallTtl
  <2>2. payload \in Payload  BY BindingComposed DEF ApiTypes, Req
  <2>3. ttl \in 0..Ttl
    BY <2>1 DEF ReqInv, ReqSound, InstallPc, At, TypeInv, RowTypes, Row
  <2>. HIDE DEF payload
  <2>4. payload = [fp |-> req[r].fp, pre |-> req[r].task, of |-> Null]  BY DEF payload
  <2>. QED
    BY <2>1, <2>2, <2>3, <2>4 DEF Inserts, InsertStep, QueueUpdate, Return, Continue, queueVars, Action
<1>3. ASSUME NEW r \in Request, RollbackSubmit(r)
      PROVE  UNCHANGED queueVars \/ Inserts(r)
  <2>. DEFINE payload == [fp |-> req[r].fp, pre |-> Null, of |-> req[r].task]
  <2>1. At(r, "rollback-submit") /\ QueueUpdate(r, "rollback", payload, Ttl)
    BY <1>3 DEF RollbackSubmit
  <2>2. payload \in Payload  BY BindingComposed DEF ApiTypes, Req
  <2>3. Ttl \in 0..Ttl  BY BoundAssumption
  <2>. HIDE DEF payload
  <2>4. payload = [fp |-> req[r].fp, pre |-> Null, of |-> req[r].task]  BY DEF payload
  <2>. QED
    BY <2>1, <2>2, <2>3, <2>4 DEF Inserts, InsertStep, QueueUpdate, Return, Continue, queueVars, Action
<1>4. ASSUME NEW r \in Request, InvalidateWrite(r)
      PROVE  UNCHANGED queueVars \/ Works
  <2>1. req[r].task \in Task  BY <1>4 DEF InvalidateWrite, ReqInv, ReqSound, At
  <2>. QED  BY <1>4, <2>1 DEF InvalidateWrite, Works
<1>5. ASSUME NEW r \in Request, RequestStep(r)
      PROVE  UNCHANGED queueVars \/ Works \/ Inserts(r)
  BY <1>1, <1>2, <1>3, <1>4, <1>5
  DEF RequestStep, PreflightRead, PreflightBind, InvalidateRead, InstallRead, InstallBind,
      InstallSettings, InstallCheck, InstallTarget, RollbackRead, RollbackSettings,
      UpdateSet, StatusRead, StatusSet, Abort
<1>6. ASSUME NEW w \in Worker, NEW t \in Task,
             ControllerRead(w, t) \/ ControllerCheck(w, t) \/ ControllerFinish(w, t)
      PROVE  UNCHANGED queueVars \/ Works
  BY <1>6 DEF ControllerRead, ControllerCheck, ControllerFinish, FailTask, Works
<1>. QED  BY <1>5, <1>6 DEF RNext, Save, Restart, Works

LEMMA StepOfQueue ==
  ASSUME TypeInv, ApiTypes, ReqInv, [RNext]_requestVars
  PROVE  [Next]_queueVars
<1>1. ASSUME NEW r \in Request, NEW action, NEW payload, NEW ttl, InsertStep(r, action, payload, ttl)
      PROVE  Next
  BY <1>1 DEF InsertStep, Next
<1>2. CASE Works
  <2>1. "failed" \in TerminalPhase("failed") /\ "completed" \in TerminalPhase("succeeded")
        /\ {"failed", "completed"} \subseteq Phase
    BY DEF TerminalPhase, Phase
  <2>. QED  BY <1>2, <2>1 DEF Works, ControllerClaim, TimePasses, Next
<1>. QED  BY <1>1, <1>2, QueueKinds DEF Inserts, requestVars, queueVars

------------------------------------------------------------------------------
(***************************************************************************)
(* Types.                                                                  *)
(***************************************************************************)
ControllerTypes == seen \in Version \union {Null} /\ cleared \in Task \union {Null}

MemTypes == mem \in [fp : Version \union {Null}, busy : BOOLEAN]

LEMMA IdleTyped == IdleReq \in Req
BY DEF IdleReq, Req, Pc

\* A request moves by itself.
LEMMA RequestMoves ==
  ASSUME ApiTypes, NEW r \in Request, RequestStep(r)
  PROVE  req' \in [Request -> Req] /\ \A s \in Request \ {r} : req'[s] = req[s]
<1>. SUFFICES \E p \in Req : Continue(r, p)  BY DEF Continue, ApiTypes
<1>0. /\ req[r] \in Req /\ settings \in Version /\ mem.fp \in Version \union {Null}
      /\ \A t \in Task : Active(t) \in BOOLEAN /\ (row[t].status = "succeeded") \in BOOLEAN
  BY DEF ApiTypes, Active
<1>1. Return(r) => \E p \in Req : Continue(r, p)  BY IdleTyped DEF Return
<1>2. CASE PreflightRead(r)
  <2>1. [IdleReq EXCEPT !.pc = "preflight-bind", !.fp = settings] \in Req  BY <1>0 DEF IdleReq, Req, Pc
  <2>. QED  BY <1>2, <2>1 DEF PreflightRead
<1>3. CASE PreflightBind(r)
  <2>1. \A pc \in {"preflight-submit", "invalidate-read"} : [req[r] EXCEPT !.pc = pc] \in Req
    BY <1>0 DEF Req, Pc
  <2>. QED  BY <1>3, <2>1 DEF PreflightBind
<1>4. CASE InvalidateRead(r)
  <2>1. \A t \in Task : [req[r] EXCEPT !.pc = "invalidate-write", !.task = t] \in Req
    BY <1>0 DEF Req, Pc
  <2>. QED  BY <1>1, <1>4, <2>1 DEF InvalidateRead
<1>5. CASE InstallRead(r)
  <2>1. \A t \in Task, flag \in BOOLEAN :
          [IdleReq EXCEPT !.pc = "install-bind", !.task = t, !.flag = flag] \in Req
    BY <1>0 DEF IdleReq, Req, Pc
  <2>2. PICK t \in Task : Continue(r, [IdleReq EXCEPT !.pc = "install-bind", !.task = t,
                                                     !.flag = row[t].status = "succeeded"])
    BY <1>5 DEF InstallRead
  <2>. QED  BY <1>0, <2>1, <2>2
<1>6. CASE InstallBind(r)
  <2>1. [req[r] EXCEPT !.pc = "install-settings"] \in Req  BY <1>0 DEF Req, Pc
  <2>. QED  BY <1>6, <2>1 DEF InstallBind
<1>7. CASE InstallSettings(r)
  <2>1. [req[r] EXCEPT !.pc = "install-check", !.fp = settings] \in Req  BY <1>0 DEF Req, Pc
  <2>. QED  BY <1>7, <2>1 DEF InstallSettings
<1>8. CASE InstallCheck(r)
  <2>1. [req[r] EXCEPT !.pc = "install-target"] \in Req  BY <1>0 DEF Req, Pc
  <2>. QED  BY <1>1, <1>8, <2>1 DEF InstallCheck
<1>9. CASE InstallTarget(r)
  <2>1. [req[r] EXCEPT !.pc = "install-submit", !.fp = mem.fp] \in Req  BY <1>0 DEF Req, Pc
  <2>. QED  BY <1>1, <1>9, <2>1 DEF InstallTarget, InstallFingerprint
<1>10. CASE RollbackRead(r)
  <2>1. \A t \in Task, known \in SUBSET Task :
          [IdleReq EXCEPT !.pc = "rollback-settings", !.task = t, !.known = known] \in Req
    BY <1>0 DEF IdleReq, Req, Pc
  <2>. QED  BY <1>10, <2>1 DEF RollbackRead
<1>11. CASE InstallSubmit(r) \/ RollbackSubmit(r)
  <2>1. [IdleReq EXCEPT !.pc = "update-set"] \in Req  BY <1>0 DEF IdleReq, Req, Pc
  <2>. QED  BY <1>1, <1>11, <2>1 DEF InstallSubmit, RollbackSubmit, QueueUpdate
<1>12. CASE RollbackSettings(r)
  <2>1. [req[r] EXCEPT !.pc = "rollback-submit", !.fp = settings] \in Req  BY <1>0 DEF Req, Pc
  <2>. QED  BY <1>12, <2>1 DEF RollbackSettings
<1>13. CASE StatusRead(r)
  <2>1. \A flag \in BOOLEAN : [IdleReq EXCEPT !.pc = "status-set", !.flag = flag] \in Req
    BY <1>0 DEF IdleReq, Req, Pc
  <2>2. PICK t \in Task : Continue(r, [IdleReq EXCEPT !.pc = "status-set", !.flag = Active(t)])
    BY <1>13 DEF StatusRead
  <2>. QED  BY <1>0, <2>1, <2>2
<1>. QED
  BY <1>1, <1>2, <1>3, <1>4, <1>5, <1>6, <1>7, <1>8, <1>9, <1>10, <1>11, <1>12, <1>13
  DEF RequestStep, PreflightSubmit, InvalidateWrite, UpdateSet, StatusSet, Abort

\* The fields of the service.
LEMMA MemTyped ==
  ASSUME ApiTypes, NoGaps, BoundInv, ReqInv, NEW r \in Request, RequestStep(r)
  PROVE  MemTypes'
<1>0. mem \in [fp : Version \union {Null}, busy : BOOLEAN] /\ req[r] \in Req  BY DEF ApiTypes
<1>1. CASE UNCHANGED mem
  BY <1>0, <1>1 DEF MemTypes
<1>2. CASE PreflightBind(r)
  BY <1>0, <1>2 DEF PreflightBind, MemTypes, Req
<1>3. CASE InstallBind(r)
  <2>1. req[r].task \in Task /\ Exists(req[r].task)
    BY <1>3 DEF InstallBind, At, ReqInv, ReqSound, InstallPc
  <2>2. row[req[r].task].payload.fp \in Version \union {Null}
    BY <2>1 DEF BoundInv, BoundRow, Binding
  <2>. QED  BY <1>0, <1>3, <2>2 DEF InstallBind, MemTypes
<1>4. CASE UpdateSet(r)
  BY <1>0, <1>4 DEF UpdateSet, MemTypes
<1>5. CASE StatusSet(r)
  BY <1>0, <1>5 DEF StatusSet, MemTypes, Req
<1>. QED
  BY <1>1, <1>2, <1>3, <1>4, <1>5
  DEF RequestStep, PreflightRead, PreflightSubmit, InvalidateRead, InvalidateWrite, InstallRead,
      InstallSettings, InstallCheck, InstallTarget, InstallSubmit, RollbackRead, RollbackSettings,
      RollbackSubmit, QueueUpdate, StatusRead, Abort

LEMMA ApiTyped ==
  ASSUME RInv, [RNext]_requestVars
  PROVE  ApiTypes'
<1>. USE DEF RInv, ApiTypes
<1>1. ASSUME NEW r \in Request, RequestStep(r)
      PROVE  ApiTypes'
  <2>1. req' \in [Request -> Req]  BY <1>1, RequestMoves
  <2>2. MemTypes'  BY <1>1, MemTyped
  <2>3. UNCHANGED <<settings, controllerVars>>
    BY <1>1
    DEF RequestStep, PreflightRead, PreflightBind, PreflightSubmit, InvalidateRead, InvalidateWrite,
        InstallRead, InstallBind, InstallSettings, InstallCheck, InstallTarget, InstallSubmit,
        RollbackRead, RollbackSettings, RollbackSubmit, UpdateSet, StatusRead, StatusSet, Abort, QueueUpdate
  <2>. QED  BY <2>1, <2>2, <2>3 DEF MemTypes, controllerVars
<1>2. CASE Save
  BY <1>2, RequestAssumption DEF Save, Version, apiVars, controllerVars
<1>3. CASE Restart
  BY <1>3, IdleTyped DEF Restart, NewProcess, controllerVars
<1>4. ASSUME NEW w \in Worker, NEW t \in Task,
             ControllerRead(w, t) \/ ControllerCheck(w, t) \/ ControllerFinish(w, t)
      PROVE  ApiTypes'
  BY <1>4 DEF ControllerRead, ControllerCheck, ControllerFinish, apiVars
<1>5. ASSUME NEW w \in Worker, ControllerClaim(w)
      PROVE  ApiTypes'
  BY <1>5 DEF ControllerClaim, apiVars
<1>6. CASE TimePasses
  BY <1>6 DEF TimePasses, apiVars, controllerVars
<1>7. CASE UNCHANGED requestVars
  BY <1>7 DEF requestVars
<1>. QED  BY <1>1, <1>2, <1>3, <1>4, <1>5, <1>6, <1>7 DEF RNext

------------------------------------------------------------------------------
(***************************************************************************)
(* The rows: what they are bound to, and what a passed preflight reports.  *)
(***************************************************************************)

\* What the queue guarantees its clients, as it is used below.
Served == (\A t \in Task : KeptRow(t)) /\ TypeInv' /\ NoGaps'

LEMMA QueueServes ==
  ASSUME RInv, [RNext]_requestVars
  PROVE  Served
<1>1. [Next]_queueVars  BY StepOfQueue DEF RInv
<1>. QED  BY <1>1, RowKept, TypeInductive, NoGapsInductive DEF RInv, Served

\* A row that exists stays, with what it was submitted with.
LEMMA RowStays ==
  ASSUME Served, NEW t \in Task, Exists(t)
  PROVE  Exists(t)' /\ row'[t].action = row[t].action /\ row'[t].payload = row[t].payload
BY DEF Served, KeptRow

LEMMA PassedGrows ==
  ASSUME [RNext]_requestVars
  PROVE  passed \subseteq passed'
<1>1. ASSUME NEW r \in Request, RequestStep(r) PROVE UNCHANGED passed
  BY <1>1
  DEF RequestStep, PreflightRead, PreflightBind, PreflightSubmit, InvalidateRead, InvalidateWrite,
      InstallRead, InstallBind, InstallSettings, InstallCheck, InstallTarget, InstallSubmit,
      RollbackRead, RollbackSettings, RollbackSubmit, UpdateSet, StatusRead, StatusSet, Abort,
      QueueUpdate, controllerVars
<1>2. ASSUME NEW w \in Worker, NEW t \in Task,
             ControllerClaim(w) \/ ControllerRead(w, t) \/ ControllerCheck(w, t) \/ ControllerFinish(w, t)
      PROVE  passed \subseteq passed'
  BY <1>2 DEF ControllerClaim, ControllerRead, ControllerCheck, ControllerFinish
<1>3. ASSUME NEW w \in Worker, ControllerClaim(w) PROVE UNCHANGED passed
  BY <1>3 DEF ControllerClaim
<1>. QED
  BY <1>1, <1>2, <1>3 DEF RNext, Save, Restart, TimePasses, controllerVars, requestVars

\* What submission wrote.
LEMMA Inserted ==
  ASSUME TypeInv, NEW r, NEW action, NEW payload, NEW ttl, InsertStep(r, action, payload, ttl)
  PROVE  /\ NextTask \in Task /\ ~Exists(NextTask) /\ \A u \in Task : u < NextTask => Exists(u)
         /\ row'[NextTask].action = action /\ row'[NextTask].payload = payload
         /\ row'[NextTask].ttl = ttl /\ row'[NextTask].status = "queued"
         /\ \A u \in Task \ {NextTask} : row'[u] = row[u]
<1>1. (\E t \in Task : ~Exists(t)) /\ row' = [row EXCEPT ![NextTask] = QueuedRow(action, payload, ttl, TRUE)]
  BY DEF InsertStep, Submit
<1>2. NextTask \in Task /\ ~Exists(NextTask) /\ \A u \in Task : u < NextTask => Exists(u)
  BY <1>1, NextTaskIsNew
<1>3. row'[NextTask] = QueuedRow(action, payload, ttl, TRUE) /\ \A u \in Task \ {NextTask} : row'[u] = row[u]
  BY <1>1, <1>2 DEF TypeInv, RowTypes
<1>. QED  BY <1>2, <1>3 DEF QueuedRow, NoRow

\* Only a submission creates a row.
LEMMA CreatedByRequest ==
  ASSUME RInv, [RNext]_requestVars, NEW t \in Task, ~Exists(t), Exists(t)'
  PROVE  t = NextTask /\ \E r \in Request : Inserts(r)
<1>1. t = NextTask
  <2>1. [Next]_queueVars  BY StepOfQueue DEF RInv
  <2>. QED  BY <2>1, RowKept DEF RInv, KeptRow
<1>2. ~Works
  <2>. USE DEF RInv, TypeInv, RowTypes, ClaimTypes, Exists
  <2>1. ASSUME NEW u \in Task, NEW x, Exists(u), row' = [row EXCEPT ![u] = x] \/ UNCHANGED row
        PROVE  FALSE
    BY <2>1
  <2>2. ASSUME NEW w \in Worker, ControllerClaim(w) PROVE FALSE
    BY <2>1, <2>2
    DEF ControllerClaim, ClaimStep, ClaimRead, ClaimNone, ClaimReject, ClaimWon, ClaimLost,
        Unchanged, Claimable
  <2>3. ASSUME NEW u \in Task, NEW w \in Worker, NEW status, NEW phase, NEW result,
               Finish(u, w, status, phase, result)
        PROVE  FALSE
    BY <2>1, <2>3 DEF Finish, LeaseHeld
  <2>4. ASSUME NEW u \in Task, NEW result, InvalidatePreflight(u, result) PROVE FALSE
    BY <2>1, <2>4 DEF InvalidatePreflight
  <2>5. ASSUME TimePasses PROVE FALSE
    BY <2>5 DEF TimePasses, Tick, Row
  <2>. QED  BY <2>2, <2>3, <2>4, <2>5 DEF Works
<1>3. row' # row  BY DEF Exists
<1>. QED  BY <1>1, <1>2, <1>3, QueueKinds DEF RInv, queueVars, requestVars

\* A task succeeds only because the controller says so.
LEMMA SucceedsPassed ==
  ASSUME RInv, [RNext]_requestVars, NEW t \in Task,
         row[t].status # "succeeded", row'[t].status = "succeeded"
  PROVE  t \in passed'
<1>. USE DEF RInv, TypeInv, RowTypes, ClaimTypes
<1>0. row[t] \in Row /\ row' # row  OBVIOUS
<1>1. ASSUME NEW r \in Request, Inserts(r) PROVE FALSE
  BY <1>1, Inserted DEF Inserts
<1>2. ASSUME NEW w \in Worker, ControllerClaim(w) PROVE FALSE
  <2>1. ASSUME NEW u \in Task, row' = [row EXCEPT ![u] = RejectedRow(row[u])] PROVE FALSE
    BY <2>1 DEF RejectedRow, Row
  <2>2. ASSUME NEW u \in Task, row' = [row EXCEPT ![u] = ClaimedRow(row[u], w)] PROVE FALSE
    BY <2>2 DEF ClaimedRow, Row
  <2>. QED
    BY <1>0, <1>2, <2>1, <2>2
    DEF ControllerClaim, ClaimStep, ClaimRead, ClaimNone, ClaimReject, ClaimWon, ClaimLost
<1>3. ASSUME NEW u \in Task, NEW w \in Worker, NEW result, Finish(u, w, "failed", "failed", result)
      PROVE  FALSE
  <2>1. FinishedRow(row[u], "failed", "failed", result).status = "failed"  BY DEF FinishedRow, Row
  <2>. QED  BY <1>3, <2>1 DEF Finish
<1>4. ASSUME NEW u \in Task, NEW w \in Worker, NEW result \in Result,
             Finish(u, w, "succeeded", "completed", result), passed' = passed \union {u}
      PROVE  t \in passed'
  BY <1>4 DEF Finish
<1>5. ASSUME NEW u \in Task, NEW result \in Result, InvalidatePreflight(u, result) PROVE FALSE
  BY <1>5 DEF InvalidatePreflight, Row
<1>6. ASSUME TimePasses PROVE FALSE
  BY <1>6 DEF TimePasses, Tick, Row
<1>. QED
  BY <1>0, <1>1, <1>2, <1>3, <1>4, <1>5, <1>6, QueueKinds DEF Works, queueVars, requestVars

LEMMA BoundStep ==
  ASSUME RInv, Served, [RNext]_requestVars
  PROVE  BoundInv'
<1>. SUFFICES ASSUME NEW t \in Task PROVE BoundRow(t)'  BY DEF BoundInv
<1>. USE DEF BoundRow
<1>0. BoundRow(t)  BY DEF RInv, BoundInv
<1>1. CASE Exists(t)
  <2>1. Exists(t)' /\ row'[t].action = row[t].action /\ row'[t].payload = row[t].payload
    BY <1>1, RowStays
  <2>2. row'[t].status = "succeeded" => t \in passed'
    BY <1>0, PassedGrows, SucceedsPassed
  <2>. QED  BY <1>0, <1>1, <2>1, <2>2
<1>2. CASE ~Exists(t) /\ Exists(t)'
  <2>1. PICK r \in Request : Inserts(r) /\ t = NextTask  BY <1>2, CreatedByRequest
  <2>2. PICK action, payload, ttl : InsertStep(r, action, payload, ttl)  BY <2>1 DEF Inserts
  <2>3. row'[t].payload = payload /\ row'[t].status = "queued"  BY <2>1, <2>2, Inserted DEF RInv
  <2>. QED  BY <1>2, <2>2, <2>3, BindingAssumption DEF InsertStep
<1>3. CASE ~Exists(t) /\ ~Exists(t)'
  <2>1. row'[t].action = row[t].action  BY <1>3 DEF Served, KeptRow
  <2>. QED  BY <1>0, <1>3, <2>1 DEF Exists
<1>. QED  BY <1>1, <1>2, <1>3

------------------------------------------------------------------------------
(***************************************************************************)
(* The requests, and the installs they submit.                             *)
(***************************************************************************)

\* What a request knows stays true while others move.
LEMMA StillSound ==
  ASSUME Served, passed \subseteq passed', NEW r \in Request, ReqSound(r), req'[r] = req[r]
  PROVE  ReqSound(r)'
<1>. DEFINE t == req[r].task
<1>1. CASE req[r].pc \in InstallPc \union {"invalidate-write", "rollback-settings", "rollback-submit"}
  <2>1. t \in Task /\ Exists(t)  BY <1>1 DEF ReqSound
  <2>2. Exists(t)' /\ row'[t].action = row[t].action  BY <2>1, RowStays
  <2>. QED  BY <2>1, <2>2 DEF ReqSound
<1>2. CASE req[r].pc \notin InstallPc \union {"invalidate-write", "rollback-settings", "rollback-submit"}
  BY <1>2 DEF ReqSound, InstallPc
<1>. QED  BY <1>1, <1>2

\* A request that has returned knows nothing.
LEMMA IdleSound ==
  ASSUME NEW r \in Request, req'[r] = IdleReq
  PROVE  ReqSound(r)'
BY DEF ReqSound, IdleReq, InstallPc

LEMMA MovedSound ==
  ASSUME RInv, passed \subseteq passed', NEW r \in Request, RequestStep(r)
  PROVE  ReqSound(r)'
<1>. USE DEF ReqSound, InstallPc
<1>0. req[r] \in Req /\ ReqSound(r) /\ (\A p : Continue(r, p) => req'[r] = p)
  BY DEF RInv, ApiTypes, ReqInv, Continue
<1>1. CASE Return(r)
  <2>1. req'[r] = IdleReq  BY <1>0, <1>1 DEF Return
  <2>. QED  BY <2>1, IdleSound
<1>2. CASE PreflightRead(r)
  <2>1. req'[r].pc = "preflight-bind"  BY <1>0, <1>2 DEF PreflightRead, IdleReq
  <2>. QED  BY <2>1
<1>3. CASE PreflightBind(r)
  <2>1. req'[r].pc \in {"preflight-submit", "invalidate-read"}  BY <1>0, <1>3 DEF PreflightBind, Req
  <2>. QED  BY <2>1
<1>4. CASE InvalidateRead(r) /\ ~Return(r)
  <2>1. PICK t \in Task : /\ IsLatest(t, {"preflight"})
                         /\ Continue(r, [req[r] EXCEPT !.pc = "invalidate-write", !.task = t])
                         /\ UNCHANGED row
    BY <1>4 DEF InvalidateRead, queueVars
  <2>2. req'[r].pc = "invalidate-write" /\ req'[r].task = t  BY <1>0, <2>1 DEF Req
  <2>. QED  BY <2>1, <2>2 DEF IsLatest, Exists
<1>5. CASE InstallRead(r)
  <2>1. PICK t \in Task : /\ IsLatest(t, {"preflight"})
                         /\ Continue(r, [IdleReq EXCEPT !.pc = "install-bind", !.task = t,
                                                        !.flag = row[t].status = "succeeded"])
                         /\ UNCHANGED row
    BY <1>5 DEF InstallRead, queueVars
  <2> DEFINE p == [IdleReq EXCEPT !.pc = "install-bind", !.task = t,
                                  !.flag = row[t].status = "succeeded"]
  <2>2. p.pc = "install-bind" /\ p.task = t /\ p.flag = (row[t].status = "succeeded")
    BY Zenon DEF IdleReq
  <2>3. req'[r] = p  BY <1>0, <2>1
  <2>4. /\ req'[r].pc = "install-bind" /\ req'[r].task = t
        /\ req'[r].flag => row[t].status = "succeeded"
    BY <2>2, <2>3
  <2>5. Exists(t) /\ row[t].action = "preflight"  BY <2>1 DEF IsLatest
  <2>6. row[t].status = "succeeded" => t \in passed  BY DEF RInv, BoundInv, BoundRow
  <2>. QED  BY <2>1, <2>4, <2>5, <2>6 DEF Exists
<1>6. CASE InstallBind(r) \/ InstallSettings(r)
  <2>1. /\ req[r].pc \in {"install-bind", "install-settings"}
        /\ req'[r].pc \in {"install-settings", "install-check"}
        /\ req'[r].task = req[r].task /\ req'[r].flag = req[r].flag /\ UNCHANGED row
    BY <1>0, <1>6 DEF InstallBind, InstallSettings, At, queueVars, Req
  <2>. QED  BY <1>0, <2>1 DEF Exists
<1>7. CASE (InstallCheck(r) \/ InstallTarget(r)) /\ ~Return(r)
  <2>1. /\ req[r].pc \in {"install-check", "install-target"} /\ req[r].flag
        /\ req'[r].pc \in {"install-target", "install-submit"}
        /\ req'[r].task = req[r].task /\ req'[r].flag = req[r].flag /\ UNCHANGED row
    BY <1>0, <1>7 DEF InstallCheck, InstallTarget, ValidPreflight, At, queueVars, Req
  <2>. QED  BY <1>0, <2>1 DEF Exists
<1>8. CASE RollbackRead(r)
  <2>1. PICK t \in Task : /\ RollbackSource(t)
                         /\ Continue(r, [IdleReq EXCEPT !.pc = "rollback-settings", !.task = t,
                                                        !.known = {u \in Task : Exists(u)}])
                         /\ UNCHANGED row
    BY <1>8 DEF RollbackRead, queueVars
  <2>2. req'[r].pc = "rollback-settings" /\ req'[r].task = t  BY <1>0, <2>1 DEF IdleReq
  <2>. QED  BY <2>1, <2>2 DEF RollbackSource, IsLatest, Exists
<1>9. CASE RollbackSettings(r)
  <2>1. /\ req[r].pc = "rollback-settings" /\ req'[r].pc = "rollback-submit"
        /\ req'[r].task = req[r].task /\ UNCHANGED row
    BY <1>0, <1>9 DEF RollbackSettings, At, queueVars, Req
  <2>. QED  BY <1>0, <2>1 DEF Exists
<1>10. CASE StatusRead(r) \/ ((InstallSubmit(r) \/ RollbackSubmit(r)) /\ ~Return(r))
  <2>1. req'[r].pc \in {"status-set", "update-set"}
    BY <1>0, <1>10 DEF StatusRead, InstallSubmit, RollbackSubmit, QueueUpdate, IdleReq
  <2>. QED  BY <2>1
<1>. QED
  BY <1>1, <1>2, <1>3, <1>4, <1>5, <1>6, <1>7, <1>8, <1>9, <1>10
  DEF RequestStep, PreflightSubmit, InvalidateWrite, InstallSubmit, RollbackSubmit, QueueUpdate,
      UpdateSet, StatusSet, Abort

\* A request moves, the process restarts, or neither.
LEMMA WhoMoves ==
  ASSUME ApiTypes, [RNext]_requestVars
  PROVE  \/ \E r \in Request : RequestStep(r) /\ \A s \in Request \ {r} : req'[s] = req[s]
         \/ \A r \in Request : req'[r] = IdleReq
         \/ UNCHANGED <<mem, req>>
<1>1. CASE Restart  BY <1>1 DEF Restart
<1>2. ASSUME NEW r \in Request, RequestStep(r) PROVE \A s \in Request \ {r} : req'[s] = req[s]
  BY <1>2, RequestMoves
<1>. QED
  BY <1>1, <1>2
  DEF RNext, Save, TimePasses, ControllerClaim, ControllerRead, ControllerCheck, ControllerFinish,
      apiVars, requestVars

LEMMA ReqStep ==
  ASSUME RInv, Served, [RNext]_requestVars
  PROVE  ReqInv'
<1>0. passed \subseteq passed'  BY PassedGrows
<1>1. \A r \in Request : req'[r] = req[r] => ReqSound(r)'  BY <1>0, StillSound DEF RInv, ReqInv
<1>2. \A r \in Request : req'[r] = IdleReq => ReqSound(r)'  BY IdleSound
<1>3. \A r \in Request : RequestStep(r) => ReqSound(r)'  BY <1>0, MovedSound
<1>. QED  BY <1>1, <1>2, <1>3, WhoMoves DEF RInv, ReqInv

\* The expiry of an install and that of its preflight.
LEMMA InstallStep ==
  ASSUME RInv, Served, [RNext]_requestVars
  PROVE  InstallInv'
<1>. SUFFICES ASSUME NEW t \in Task, row'[t].action = "install", Exists(t)' PROVE InstallSound(t)'
  BY DEF InstallInv, InstallSound
<1>1. CASE Exists(t)
  <2>. DEFINE p == row[t].payload.pre
  <2>1. row'[t].action = row[t].action /\ row'[t].payload = row[t].payload  BY <1>1, RowStays
  <2>2. /\ p \in Task /\ p < t /\ row[p].action = "preflight" /\ p \in passed
        /\ row[t].ttl = row[p].ttl
    BY <1>1, <2>1 DEF RInv, InstallInv, InstallSound
  <2>3. row'[t].payload.pre = p  BY <2>1
  <2>. HIDE DEF p
  <2>4. Exists(p)  BY <1>1, <2>2 DEF RInv, NoGaps
  <2>5. row'[p].action = "preflight" /\ p \in passed'  BY <2>2, <2>4, RowStays, PassedGrows
  <2>6. [Next]_queueVars  BY StepOfQueue DEF RInv
  <2>7. row'[t].ttl = row'[p].ttl  BY <1>1, <2>2, <2>4, <2>6, TtlsPassAlike DEF RInv
  <2>. QED  BY <2>2, <2>3, <2>5, <2>7 DEF InstallSound
<1>2. CASE ~Exists(t)
  <2>1. PICK r \in Request : Inserts(r) /\ t = NextTask  BY <1>2, CreatedByRequest
  <2>2. PICK action, payload, ttl : InsertStep(r, action, payload, ttl)  BY <2>1 DEF Inserts
  <2>. DEFINE p == req[r].task
  <2>3. /\ row'[t].action = action /\ row'[t].payload = payload /\ row'[t].ttl = ttl
        /\ \A u \in Task \ {t} : row'[u] = row[u]
    BY <2>1, <2>2, Inserted DEF RInv
  <2>4. /\ At(r, "install-submit") /\ payload = [fp |-> req[r].fp, pre |-> p, of |-> Null]
        /\ ttl = row[p].ttl
    BY <2>2, <2>3 DEF InsertStep
  <2>5. ReqSound(r) /\ req[r].pc = "install-submit"  BY <2>4 DEF RInv, ReqInv, At
  <2>. HIDE DEF p
  <2>6. p \in Task /\ Exists(p) /\ row[p].action = "preflight" /\ p \in passed
    BY <2>5 DEF ReqSound, InstallPc, p
  <2>7. p < t  BY <1>2, <2>6, TaskIsNat DEF RInv, NoGaps
  <2>8. row'[t].payload.pre = p /\ row'[p] = row[p]  BY <1>2, <2>3, <2>4, <2>6
  <2>. QED  BY <2>3, <2>4, <2>6, <2>7, <2>8, PassedGrows DEF InstallSound
<1>. QED  BY <1>1, <1>2

LEMMA RInductive ==
  ASSUME RInv, [RNext]_requestVars
  PROVE  RInv'
<1>1. Served  BY QueueServes
<1>. QED  BY <1>1, ApiTyped, BoundStep, ReqStep, InstallStep DEF RInv, Served

LEMMA InitR == RInit => RInv
<1>. SUFFICES ASSUME RInit PROVE RInv  OBVIOUS
<1>1. TypeInv  BY InitTyped DEF RInit
<1>2. \A t \in Task : ~Exists(t) /\ row[t].action = "install" /\ row[t].status = "absent"
  BY DEF RInit, Init, NoRow, Exists
<1>3. ApiTypes
  BY IdleTyped, RequestAssumption DEF RInit, ApiTypes, NewProcess, Version
<1>4. ReqInv
  <2>1. \A r \in Request : req[r].pc = "idle"  BY DEF RInit, IdleReq
  <2>. QED  BY <2>1 DEF ReqInv, ReqSound, InstallPc
<1>. QED  BY <1>1, <1>2, <1>3, <1>4 DEF RInv, NoGaps, BoundInv, BoundRow, InstallInv, InstallSound

LEMMA RInvariant == RSpec => []RInv
BY InitR, RInductive, PTL DEF RSpec

\* Requests, settings and controller are clients of the queue: whatever they do is one
\* of its operations, so all that is proved of the queue holds of them.
THEOREM RequestsUseQueue == RSpec => Spec
<1>1. RInit => Init  BY DEF RInit
<1>2. RInv /\ [RNext]_requestVars => [Next]_queueVars  BY StepOfQueue DEF RInv
<1>. QED  BY <1>1, <1>2, RInvariant, PTL DEF RSpec, Spec

\* Type correctness: the fields the requests share, their local variables, and what the
\* controller has read stay in their types.
THEOREM RequestTypes == RSpec => []RTypeOK
<1>1. RInv => RTypeOK
  BY DEF RInv, TypeInv, RowTypes, ClaimTypes, RunningRow, ApiTypes, RTypeOK, TypeOK
<1>. QED  BY <1>1, RInvariant, PTL

\* An install relies on an older preflight that was passed, and its expiry is that
\* preflight's, however the requests that submit them interleave.
THEOREM InstallsWithinPreflight == RSpec => []InstallWithinPreflight
<1>1. RInv => InstallWithinPreflight
  BY DEF RInv, InstallInv, InstallSound, InstallWithinPreflight
<1>. QED  BY <1>1, RInvariant, PTL

------------------------------------------------------------------------------
(***************************************************************************)
(* One request at a time: installs.  A request that has seen a passed      *)
(* preflight finds its fingerprint in the shared field, and the controller *)
(* reads no settings older than those a running task is bound to.          *)
(***************************************************************************)
LEMMA VersionOrder ==
  /\ Version \subseteq Int
  /\ \A s \in Version : s <= s
  /\ \A r, s, t \in Version : r <= s /\ s <= t => r <= t
  /\ \A r, s \in Version : r <= s /\ s <= r => r = s
BY RequestAssumption DEF Version

\* What a step does to the settings and to what the controller has read of them.
LEMMA SettingsStep ==
  ASSUME ApiTypes, [RNext]_requestVars
  PROVE  /\ settings <= settings'
         /\ seen' \in {seen, Null, settings}
         /\ seen' # seen /\ seen' # Null => UNCHANGED <<row, settings>>
<1>1. settings <= settings  BY VersionOrder DEF ApiTypes
<1>2. CASE Save
  BY <1>2, RequestAssumption DEF Save, ApiTypes, Version, controllerVars
<1>3. ASSUME NEW w \in Worker, NEW t \in Task,
             ControllerRead(w, t) \/ ControllerCheck(w, t) \/ ControllerFinish(w, t) \/ ControllerClaim(w)
      PROVE  /\ UNCHANGED settings /\ seen' \in {seen, Null, settings}
             /\ seen' # seen /\ seen' # Null => UNCHANGED row
  BY <1>3 DEF ControllerRead, ControllerCheck, ControllerFinish, ControllerClaim, queueVars
<1>4. ASSUME NEW w \in Worker, ControllerClaim(w)
      PROVE  UNCHANGED settings /\ seen' = Null
  BY <1>4 DEF ControllerClaim
<1>5. ASSUME NEW r \in Request, RequestStep(r)
      PROVE  UNCHANGED <<settings, seen>>
  BY <1>5
  DEF RequestStep, PreflightRead, PreflightBind, PreflightSubmit, InvalidateRead, InvalidateWrite,
      InstallRead, InstallBind, InstallSettings, InstallCheck, InstallTarget, InstallSubmit,
      RollbackRead, RollbackSettings, RollbackSubmit, UpdateSet, StatusRead, StatusSet, Abort, QueueUpdate,
      controllerVars
<1>. QED
  BY <1>1, <1>2, <1>3, <1>4, <1>5
  DEF RNext, Restart, TimePasses, controllerVars, requestVars

\* A task that starts to run is one the controller has read no settings for.
LEMMA StartsUnread ==
  ASSUME RInv, [RNext]_requestVars, NEW t \in Task,
         row[t].status # "running", row'[t].status = "running"
  PROVE  seen' = Null
<1>. USE DEF RInv, TypeInv, RowTypes
<1>0. row[t] \in Row /\ row' # row  OBVIOUS
<1>1. ASSUME NEW r \in Request, Inserts(r) PROVE FALSE
  BY <1>1, Inserted DEF Inserts
<1>2. ASSUME NEW u \in Task, NEW result \in Result, InvalidatePreflight(u, result) PROVE FALSE
  BY <1>2 DEF InvalidatePreflight, Row
<1>3. ASSUME TimePasses PROVE FALSE
  BY <1>3 DEF TimePasses, Tick, Row
<1>. QED
  BY <1>0, <1>1, <1>2, <1>3, QueueKinds DEF Works, ControllerClaim, queueVars, requestVars

LEMMA FpRowStep ==
  ASSUME RInv, FpInv, Served, [RNext]_requestVars, NEW t \in Task
  PROVE  FpRow(t)'
<1>. SUFFICES ASSUME Exists(t)' PROVE FpRow(t)'  BY DEF FpRow
<1>0. /\ settings \in Version /\ settings' \in Version /\ settings <= settings'
      /\ seen \in Version \union {Null} /\ Null \notin Version
  BY ApiTyped, SettingsStep, NullAssumption, VersionOrder DEF RInv, ApiTypes
<1>1. CASE Exists(t)
  <2>. DEFINE fp == row[t].payload.fp  p == row[t].payload.pre
  <2>1. row'[t].action = row[t].action /\ row'[t].payload = row[t].payload  BY <1>1, RowStays
  <2>2. /\ fp \in Version /\ fp <= settings
        /\ row[t].action = "install" => row[p].payload.fp = fp
        /\ row[t].status = "running" /\ seen # Null => fp <= seen
    BY <1>1 DEF FpInv, FpRow, KnownFp
  <2>3. row'[t].payload.fp = fp /\ row'[t].payload.pre = p  BY <2>1
  <2>4. row[t].action = "install" => row'[p].payload = row[p].payload
    <3>1. row[t].action = "install" => p \in Task /\ p < t
      BY <1>1 DEF RInv, InstallInv, InstallSound
    <3>. HIDE DEF p
    <3>. QED  BY <1>1, <3>1, RowStays DEF RInv, NoGaps
  <2>. HIDE DEF fp, p
  <2>5. fp <= settings'  BY <1>0, <2>2, VersionOrder
  <2>6. ASSUME row'[t].status = "running", seen' # Null PROVE fp <= seen'
    <3>1. row[t].status = "running"  BY <2>6, StartsUnread
    <3>2. seen' \in {seen, settings}  BY <2>6, SettingsStep DEF RInv
    <3>. QED  BY <2>2, <2>6, <3>1, <3>2
  <2>7. row'[t].action = "install" => row'[row'[t].payload.pre].payload.fp = row'[t].payload.fp
    BY <2>1, <2>2, <2>3, <2>4
  <2>. QED  BY <2>2, <2>3, <2>5, <2>6, <2>7 DEF FpRow, KnownFp
<1>2. CASE ~Exists(t)
  <2>1. PICK r \in Request : Inserts(r) /\ t = NextTask  BY <1>2, CreatedByRequest
  <2>2. PICK action, payload, ttl : InsertStep(r, action, payload, ttl)  BY <2>1 DEF Inserts
  <2>3. /\ row'[t].action = action /\ row'[t].payload = payload /\ row'[t].status = "queued"
        /\ \A u \in Task \ {t} : row'[u] = row[u]
    BY <2>1, <2>2, Inserted DEF RInv
  <2>4. payload.fp = req[r].fp  BY <2>2 DEF InsertStep
  <2>5. FpReq(r) /\ ReqSound(r)  BY DEF FpInv, RInv, ReqInv
  <2>6. CASE action # "install"
    <3>1. KnownFp(req[r].fp)  BY <2>2, <2>5, <2>6 DEF InsertStep, FpReq, At
    <3>2. req[r].fp \in Version /\ req[r].fp <= settings'  BY <1>0, <3>1, VersionOrder DEF KnownFp
    <3>. QED  BY <2>3, <2>4, <2>6, <3>2 DEF FpRow, KnownFp
  <2>7. CASE action = "install"
    <3>. DEFINE p == req[r].task
    <3>1. payload.pre = p /\ req[r].pc = "install-submit"  BY <2>2, <2>7 DEF InsertStep, At
    <3>2. p \in Task /\ Exists(p)  BY <2>5, <3>1 DEF ReqSound, InstallPc
    <3>3. req[r].fp = row[p].payload.fp  BY <2>5, <3>1 DEF FpReq
    <3>. HIDE DEF p
    <3>4. KnownFp(row[p].payload.fp)  BY <3>2 DEF FpInv, FpRow
    <3>5. req[r].fp \in Version /\ req[r].fp <= settings'  BY <1>0, <3>3, <3>4, VersionOrder DEF KnownFp
    <3>6. row'[p] = row[p]  BY <1>2, <2>3, <3>2
    <3>7. row'[row'[t].payload.pre].payload.fp = row'[t].payload.fp  BY <2>3, <2>4, <3>1, <3>3, <3>6
    <3>. QED  BY <2>3, <2>4, <3>5, <3>7 DEF FpRow, KnownFp
  <2>. QED  BY <2>6, <2>7
<1>. QED  BY <1>1, <1>2

LEMMA FpReqStep ==
  ASSUME OneAtATime, RInv, FpInv, Served, [RNext]_requestVars, NEW r \in Request
  PROVE  FpReq(r)'
<1>. USE DEF FpReq
<1>0. /\ settings \in Version /\ settings' \in Version /\ settings <= settings'
      /\ \A fp : KnownFp(fp) => KnownFp(fp)'
  <2>1. settings \in Version /\ settings' \in Version /\ settings <= settings'
    BY ApiTyped, SettingsStep DEF RInv, ApiTypes
  <2>. QED  BY <2>1, VersionOrder DEF KnownFp
<1>1. FpReq(r) /\ ReqSound(r) /\ req[r] \in Req  BY DEF FpInv, RInv, ReqInv, ApiTypes
<1>2. \A p : Continue(r, p) => req'[r] = p  BY DEF Continue, RInv, ApiTypes
<1>3. CASE req'[r] = IdleReq
  BY <1>3 DEF IdleReq
<1>4. CASE UNCHANGED <<mem, req>>
  <2>1. ASSUME req[r].pc \in InstallPc PROVE row'[req[r].task].payload = row[req[r].task].payload
    BY <1>1, <2>1, RowStays DEF ReqSound
  <2>. QED  BY <1>0, <1>1, <1>4, <2>1 DEF InstallPc
<1>5. CASE RequestStep(r)
  <2>1. CASE Return(r)
    BY <1>2, <1>3, <2>1 DEF Return
  <2>2. CASE PreflightRead(r)
    <3>1. req'[r].pc = "preflight-bind" /\ req'[r].fp = settings  BY <1>2, <2>2 DEF PreflightRead, IdleReq
    <3>2. KnownFp(settings)  BY <1>0, VersionOrder DEF KnownFp
    <3>. QED  BY <1>0, <3>1, <3>2
  <2>3. CASE PreflightBind(r)
    <3>1. /\ req'[r].pc \in {"preflight-submit", "invalidate-read"} /\ req'[r].fp = req[r].fp
          /\ req[r].pc = "preflight-bind"
      BY <1>1, <1>2, <2>3 DEF PreflightBind, At, Req
    <3>. QED  BY <1>0, <1>1, <3>1
  <2>4. CASE \/ (InvalidateRead(r) \/ InstallSubmit(r) \/ RollbackSubmit(r)) /\ ~Return(r)
             \/ StatusRead(r)
    <3>1. req'[r].pc \in {"invalidate-write", "update-set", "status-set"}
      BY <1>1, <1>2, <2>4
      DEF InvalidateRead, InstallSubmit, RollbackSubmit, QueueUpdate, StatusRead, IdleReq, Req
    <3>. QED  BY <3>1
  <2>5. CASE InstallRead(r) \/ RollbackRead(r)
    <3>1. req'[r].pc \in {"install-bind", "rollback-settings"}
      BY <1>2, <2>5 DEF InstallRead, RollbackRead, IdleReq
    <3>. QED  BY <3>1
  <2>6. CASE InstallBind(r)
    <3>1. /\ req'[r].pc = "install-settings" /\ req'[r].task = req[r].task
          /\ req'[r].flag = req[r].flag /\ UNCHANGED row
      BY <1>1, <1>2, <2>6 DEF InstallBind, queueVars, Req
    <3>2. req[r].flag => mem'.fp = row[req[r].task].payload.fp
      BY <2>6 DEF InstallBind, RInv, ApiTypes
    <3>. QED  BY <3>1, <3>2
  <2>7. CASE InstallSettings(r) \/ (InstallCheck(r) /\ ~Return(r))
    <3>1. /\ req[r].pc \in {"install-settings", "install-check"}
          /\ req'[r].pc \in {"install-check", "install-target"} /\ req'[r].task = req[r].task
          /\ req'[r].flag = req[r].flag /\ UNCHANGED <<row, mem>>
      BY <1>1, <1>2, <2>7 DEF InstallSettings, InstallCheck, At, queueVars, Req
    <3>. QED  BY <1>1, <3>1
  <2>8. CASE InstallTarget(r) /\ ~Return(r)
    <3>1. /\ req[r].pc = "install-target" /\ req'[r].pc = "install-submit"
          /\ req'[r].task = req[r].task /\ req'[r].fp = mem.fp /\ UNCHANGED row
      BY <1>1, <1>2, <2>8 DEF InstallTarget, InstallFingerprint, At, queueVars, Req
    <3>. QED  BY <1>1, <3>1 DEF ReqSound
  <2>9. CASE RollbackSettings(r)
    <3>1. req'[r].pc = "rollback-submit" /\ req'[r].fp = settings
      BY <1>1, <1>2, <2>9 DEF RollbackSettings, Req
    <3>2. KnownFp(settings)  BY <1>0, VersionOrder DEF KnownFp
    <3>. QED  BY <1>0, <3>1, <3>2
  <2>. QED
    BY <1>5, <2>1, <2>2, <2>3, <2>4, <2>5, <2>6, <2>7, <2>8, <2>9
    DEF RequestStep, PreflightSubmit, InvalidateWrite, InstallSubmit, RollbackSubmit, QueueUpdate,
        UpdateSet, StatusSet, Abort
<1>. QED  BY <1>3, <1>4, <1>5, WhoMoves DEF OneAtATime, RInv

LEMMA FpInductive ==
  ASSUME OneAtATime, RInv, FpInv, [RNext]_requestVars
  PROVE  FpInv'
<1>1. Served  BY QueueServes
<1>2. seen' # Null => seen' <= settings'
  <2>1. seen # Null => seen <= settings  BY DEF FpInv
  <2>2. /\ settings \in Version /\ settings' \in Version /\ settings <= settings'
        /\ seen \in Version \union {Null} /\ seen' \in {seen, Null, settings}
    BY ApiTyped, SettingsStep DEF RInv, ApiTypes
  <2>. QED  BY <2>1, <2>2, VersionOrder
<1>. QED  BY <1>1, <1>2, FpRowStep, FpReqStep DEF FpInv

LEMMA InitFp == RInit => FpInv
<1>. SUFFICES ASSUME RInit PROVE FpInv  OBVIOUS
<1>1. \A r \in Request : req[r].pc = "idle"  BY DEF RInit, IdleReq
<1>2. \A t \in Task : ~Exists(t)  BY DEF RInit, Init, NoRow, Exists
<1>. QED  BY <1>1, <1>2 DEF RInit, FpInv, FpRow, FpReq

\* If the requests come one at a time, the settings an install runs with are those its
\* preflight was rehearsed with, whatever is saved in between and however often the
\* controller restarts: the fingerprint it checks is no newer than the settings it has
\* read, and no older.
THEOREM InstallsRunAsRehearsed ==
  ASSUME OneAtATime
  PROVE  RSpec => InstallRunsAsRehearsed
<1>1. ASSUME RInv, FpInv, [RNext]_requestVars, NEW t \in Task, cleared # t, cleared' = t,
             row[t].action = "install"
      PROVE  row[row[t].payload.pre].payload.fp = seen
  <2>1. t # Null  BY TaskNotNull
  <2>2. PICK w \in Worker : LeaseHeld(t, w) /\ seen # Null /\ SettingsUnchanged(t)
    <3>1. ASSUME NEW w \in Worker, NEW u \in Task, ControllerCheck(w, u)
          PROVE  LeaseHeld(t, w) /\ seen # Null /\ SettingsUnchanged(t)
      BY <1>1, <3>1 DEF ControllerCheck
    <3>2. cleared' # cleared /\ cleared' # Null  BY <1>1, <2>1
    <3>3. ASSUME NEW r \in Request, RequestStep(r) PROVE UNCHANGED cleared
      BY <3>3
      DEF RequestStep, PreflightRead, PreflightBind, PreflightSubmit, InvalidateRead, InvalidateWrite,
          InstallRead, InstallBind, InstallSettings, InstallCheck, InstallTarget, InstallSubmit,
          RollbackRead, RollbackSettings, RollbackSubmit, UpdateSet, StatusRead, StatusSet, Abort, QueueUpdate,
          controllerVars
    <3>. QED
      BY <1>1, <3>1, <3>2, <3>3
      DEF RNext, Save, Restart, TimePasses, ControllerClaim, ControllerRead, ControllerFinish,
          controllerVars, requestVars
  <2>3. row[t].status = "running" /\ Exists(t) /\ settings = row[t].payload.fp
    BY <2>2 DEF LeaseHeld, Exists, SettingsUnchanged
  <2>4. /\ row[row[t].payload.pre].payload.fp = row[t].payload.fp
        /\ row[t].payload.fp <= seen /\ seen <= settings
    BY <1>1, <2>2, <2>3 DEF FpInv, FpRow
  <2>5. seen \in Version /\ settings \in Version  BY <1>1, <2>2 DEF RInv, ApiTypes
  <2>. QED  BY <2>3, <2>4, <2>5, VersionOrder
<1>2. RInv /\ FpInv /\ [RNext]_requestVars =>
        [\A t \in Task : cleared # t /\ cleared' = t /\ row[t].action = "install"
           => row[row[t].payload.pre].payload.fp = seen]_requestVars
  BY <1>1
<1>3. RInv /\ FpInv /\ [RNext]_requestVars => FpInv'  BY FpInductive
<1>. QED  BY <1>2, <1>3, InitFp, RInvariant, PTL DEF RSpec, InstallRunsAsRehearsed

------------------------------------------------------------------------------
(***************************************************************************)
(* Rollbacks, for any number of requests: what a request knew of the       *)
(* latest update when it read it is still true of the tasks there were.    *)
(***************************************************************************)
LatestKnown(u, known) ==
  /\ u \in Task /\ Exists(u) /\ row[u].action \in Update /\ row[u].status = "succeeded"
  /\ \A v \in known : v \in Task /\ Exists(v) /\ (row[v].action \in Update => v <= u)

RollbackReq(r) ==
  req[r].pc \in {"rollback-settings", "rollback-submit"} => LatestKnown(req[r].task, req[r].known)

RollbackInv == \A r \in Request : RollbackReq(r)

\* The success of an update is final, and the rows stay, whatever other requests submit.
LEMMA KnownStays ==
  ASSUME RInv, Served, [RNext]_requestVars, NEW u, NEW known, LatestKnown(u, known)
  PROVE  LatestKnown(u, known)'
<1>1. /\ u \in Task /\ Exists(u) /\ row[u].action \in Update /\ row[u].status = "succeeded"
      /\ \A v \in known : v \in Task /\ Exists(v) /\ (row[v].action \in Update => v <= u)
  BY DEF LatestKnown
<1>2. Exists(u)' /\ row'[u].action = row[u].action  BY <1>1, RowStays
<1>3. row'[u].status = "succeeded"
  <2>1. [Next]_queueVars  BY StepOfQueue DEF RInv
  <2>. QED  BY <1>1, <2>1, FinalStep DEF RInv, Update
<1>4. \A v \in known : Exists(v)' /\ row'[v].action = row[v].action  BY <1>1, RowStays
<1>. QED  BY <1>1, <1>2, <1>3, <1>4 DEF LatestKnown

LEMMA RollbackReqStep ==
  ASSUME RInv, RollbackInv, Served, [RNext]_requestVars, NEW r \in Request
  PROVE  RollbackReq(r)'
<1>. USE DEF RollbackReq
<1>1. RollbackReq(r) /\ req[r] \in Req  BY DEF RollbackInv, RInv, ApiTypes
<1>2. \A p : Continue(r, p) => req'[r] = p  BY DEF Continue, RInv, ApiTypes
<1>3. CASE req'[r] = IdleReq
  BY <1>3 DEF IdleReq
<1>4. CASE req'[r] = req[r]
  BY <1>1, <1>4, KnownStays
<1>5. CASE RequestStep(r)
  <2>1. CASE RollbackRead(r)
    <3>1. PICK t \in Task : /\ RollbackSource(t)
                           /\ Continue(r, [IdleReq EXCEPT !.pc = "rollback-settings", !.task = t,
                                                          !.known = {u \in Task : Exists(u)}])
      BY <2>1 DEF RollbackRead
    <3>2. req'[r].task = t /\ req'[r].known = {u \in Task : Exists(u)}  BY <1>2, <3>1 DEF IdleReq
    <3>3. LatestKnown(t, {u \in Task : Exists(u)})
      BY <3>1 DEF RollbackSource, IsLatest, LatestKnown
    <3>4. UNCHANGED row  BY <2>1 DEF RollbackRead, queueVars
    <3>. QED  BY <3>2, <3>3, <3>4 DEF LatestKnown, Exists
  <2>2. CASE RollbackSettings(r)
    <3>1. /\ req[r].pc = "rollback-settings" /\ req'[r].task = req[r].task
          /\ req'[r].known = req[r].known
      BY <1>1, <1>2, <2>2 DEF RollbackSettings, At, Req
    <3>. QED  BY <1>1, <3>1, KnownStays
  <2>3. CASE Return(r)
    BY <1>2, <1>3, <2>3 DEF Return
  <2>4. CASE PreflightRead(r) \/ InstallRead(r) \/ StatusRead(r)
    <3>1. req'[r].pc \in {"preflight-bind", "install-bind", "status-set"}
      BY <1>2, <2>4 DEF PreflightRead, InstallRead, StatusRead, IdleReq
    <3>. QED  BY <3>1
  <2>5. CASE PreflightBind(r) \/ (InvalidateRead(r) /\ ~Return(r))
    <3>1. req'[r].pc \in {"preflight-submit", "invalidate-read", "invalidate-write"}
      BY <1>1, <1>2, <2>5 DEF PreflightBind, InvalidateRead, Req
    <3>. QED  BY <3>1
  <2>6. CASE \/ InstallBind(r) \/ InstallSettings(r)
             \/ (InstallCheck(r) \/ InstallTarget(r)) /\ ~Return(r)
    <3>1. req'[r].pc \in {"install-settings", "install-check", "install-target", "install-submit"}
      BY <1>1, <1>2, <2>6 DEF InstallBind, InstallSettings, InstallCheck, InstallTarget, Req
    <3>. QED  BY <3>1
  <2>7. CASE (InstallSubmit(r) \/ RollbackSubmit(r)) /\ ~Return(r)
    <3>1. req'[r].pc = "update-set"
      BY <1>2, <2>7 DEF InstallSubmit, RollbackSubmit, QueueUpdate, IdleReq
    <3>. QED  BY <3>1
  <2>. QED
    BY <1>5, <2>1, <2>2, <2>3, <2>4, <2>5, <2>6, <2>7
    DEF RequestStep, PreflightSubmit, InvalidateWrite, UpdateSet, StatusSet, Abort
<1>. QED  BY <1>3, <1>4, <1>5, WhoMoves DEF RInv

LEMMA RollbackInductive ==
  ASSUME RInv, RollbackInv, [RNext]_requestVars
  PROVE  RollbackInv'
BY QueueServes, RollbackReqStep DEF RollbackInv

LEMMA InitRollback == RInit => RollbackInv
<1>. SUFFICES ASSUME RInit PROVE RollbackInv  OBVIOUS
<1>1. \A r \in Request : req[r].pc = "idle"  BY DEF RInit, IdleReq
<1>. QED  BY <1>1 DEF RollbackInv, RollbackReq

\* The request whose answer arrives is the one that inserted the row.
LEMMA SubmittedRollback ==
  ASSUME RInv, [RNext]_requestVars, NEW r \in Request, NEW t \in Task,
         At(r, "rollback-submit"), At(r, "update-set")', ~Exists(t), Exists(t)'
  PROVE  /\ row'[t].payload = [fp |-> req[r].fp, pre |-> Null, of |-> req[r].task]
         /\ t = NextTask
<1>1. RequestStep(r)
  <2>1. req'[r] # req[r] /\ req'[r] # IdleReq  BY DEF At, IdleReq
  <2>. QED  BY <2>1, WhoMoves DEF RInv
<1>2. RollbackSubmit(r)
  BY <1>1
  DEF At, RequestStep, PreflightRead, PreflightBind, PreflightSubmit, InvalidateRead,
      InvalidateWrite, InstallRead, InstallBind, InstallSettings, InstallCheck, InstallTarget,
      InstallSubmit, RollbackRead, RollbackSettings, UpdateSet, StatusRead, StatusSet, Abort,
      Exists, queueVars, Return, Continue, RInv, ApiTypes, IdleReq
<1>. DEFINE payload == [fp |-> req[r].fp, pre |-> Null, of |-> req[r].task]
<1>3. row' # row  BY DEF Exists
<1>4. Submit("rollback", payload, Ttl, TRUE)
  BY <1>2, <1>3 DEF RollbackSubmit, QueueUpdate, queueVars
<1>5. t = NextTask  BY CreatedByRequest
<1>. HIDE DEF payload
<1>6. row'[t] = QueuedRow("rollback", payload, Ttl, TRUE)
  BY <1>4, <1>5 DEF Submit, RInv, TypeInv, RowTypes
<1>7. row'[t].payload = payload  BY <1>6 DEF QueuedRow, NoRow
<1>. QED  BY <1>5, <1>7 DEF payload

\* However many requests interleave, a rollback undoes an update that succeeded, and no
\* update came after it but those queued while the rollback was on its way.
THEOREM RollbacksUndoLatest == RSpec => RollbackOfLatest
<1>1. ASSUME RInv, RollbackInv, [RNext]_requestVars, NEW r \in Request, NEW t \in Task,
             At(r, "rollback-submit"), At(r, "update-set")', ~Exists(t), Exists(t)'
      PROVE  LET u == row'[t].payload.of IN
             /\ row[u].action \in Update /\ row[u].status = "succeeded"
             /\ \A v \in u + 1 .. t - 1 : v \in req[r].known => row[v].action = "preflight"
  <2>1. row'[t].payload.of = req[r].task
    <3>1. row'[t].payload = [fp |-> req[r].fp, pre |-> Null, of |-> req[r].task]
      BY <1>1, SubmittedRollback
    <3>. QED  BY <3>1
  <2>2. PICK u \in Task : u = req[r].task /\ LatestKnown(u, req[r].known)
    BY <1>1 DEF RollbackInv, RollbackReq, LatestKnown, At
  <2>3. row[u].action \in Update /\ row[u].status = "succeeded"  BY <2>2 DEF LatestKnown
  <2>4. ASSUME NEW v \in u + 1 .. t - 1, v \in req[r].known
        PROVE  row[v].action = "preflight"
    <3>1. ~(v <= u)  BY <2>2, BoundAssumption DEF Task
    <3>2. v \in Task /\ row[v].action \notin Update  BY <2>2, <2>4, <3>1 DEF LatestKnown
    <3>3. row[v].action \in Action  BY <1>1, <3>2 DEF RInv, TypeInv, RowTypes, Row
    <3>. QED  BY <3>2, <3>3 DEF Action, Update
  <2>. QED  BY <2>1, <2>2, <2>3, <2>4
<1>2. RInv /\ RollbackInv /\ [RNext]_requestVars =>
        [\A r \in Request, t \in Task :
           At(r, "rollback-submit") /\ At(r, "update-set")' /\ ~Exists(t) /\ Exists(t)' =>
             LET u == row'[t].payload.of IN
             /\ row[u].action \in Update /\ row[u].status = "succeeded"
             /\ \A v \in u + 1 .. t - 1 : v \in req[r].known => row[v].action = "preflight"]_requestVars
  BY <1>1
<1>3. RInv /\ RollbackInv /\ [RNext]_requestVars => RollbackInv'  BY RollbackInductive
<1>. QED  BY <1>2, <1>3, InitRollback, RInvariant, PTL DEF RSpec, RollbackOfLatest
===============================================================================
