---------------------- MODULE KubernetesUpdateRequests ----------------------
(***************************************************************************)
(* The control API's side of a Kubernetes update (system-update.service.ts *)
(* on top of the durable queue): preflight, install, rollback and status   *)
(* requests, the update settings they are bound to, and the settings check *)
(* the controller repeats.  The requests of one Node process interleave at *)
(* every await and share the fields of SystemUpdateService; one step below *)
(* is what runs from one await to the next.                                *)
(*                                                                         *)
(* Every save of the settings encrypts them under a fresh IV, so that the  *)
(* fingerprint is a version number.  state.preflight is left out: it is    *)
(* overwritten from the durable row before startKubernetesInstall reads    *)
(* it, and without a durable row it is never "passed".                     *)
(***************************************************************************)
EXTENDS KubernetesUpdateTasks

CONSTANTS
  Request,    \* requests in flight at the same time
  MaxSaves    \* bound on the number of times the settings are saved

ASSUME RequestAssumption == MaxSaves \in Nat /\ Null \notin Request

Version == 0..MaxSaves

\* What a task is bound to: its settings fingerprint, the preflight an install
\* relies on, and the task a rollback undoes.
Binding == [fp : Version \union {Null}, pre : Task \union {Null}, of : Task \union {Null}]

ASSUME BindingAssumption == Payload = Binding /\ Null \notin Binding

VARIABLES
  settings,  \* the version of the stored settings
  mem,       \* fields of SystemUpdateService: preflightSettingsFingerprint and
             \* whether installStatus says that an update is going on
  req,       \* req[r]: where request r is, and its local variables
  seen,      \* the version of the settings the controller has read, or Null
  cleared,   \* the task whose settings check the controller passed, or Null
  passed     \* history: the tasks the controller has reported as succeeded

apiVars == <<mem, req>>
controllerVars == <<seen, cleared, passed>>
requestVars == <<row, claim, settings, mem, req, seen, cleared, passed>>

Pc == {"idle", "preflight-bind", "preflight-submit", "invalidate-read", "invalidate-write",
       "install-bind", "install-settings", "install-check", "install-target", "install-submit",
       "rollback-settings", "rollback-submit", "update-set", "status-set"}

\* known is history: the tasks there were when a rollback read the latest update.
Req == [pc : Pc, task : Task \union {Null}, fp : Version \union {Null}, flag : BOOLEAN,
        known : SUBSET Task]

IdleReq == [pc |-> "idle", task |-> Null, fp |-> Null, flag |-> FALSE, known |-> {}]

NewProcess == [fp |-> Null, busy |-> FALSE]

RInit ==
  /\ Init
  /\ settings = 0
  /\ mem = NewProcess
  /\ req = [r \in Request |-> IdleReq]
  /\ seen = Null /\ cleared = Null /\ passed = {}

At(r, pc) == req[r].pc = pc

Continue(r, p) == req' = [req EXCEPT ![r] = p]

\* The request answers, or throws.
Return(r) == Continue(r, IdleReq)

\* A request may stop at any await: a database error, or a check whose subject
\* is not modelled (target version, backup target, operator input).
Abort(r) ==
  /\ ~At(r, "idle")
  /\ Return(r)
  /\ UNCHANGED <<queueVars, settings, mem, controllerVars>>

Update == {"install", "rollback"}

------------------------------------------------------------------------------
(***************************************************************************)
(* preflight().  The fingerprint is read, then stored in the field all     *)
(* requests share; in the same step the task is bound to it, or, when a    *)
(* preliminary check failed, the latest preflight is invalidated.          *)
(***************************************************************************)
PreflightRead(r) ==
  /\ At(r, "idle")
  /\ Continue(r, [IdleReq EXCEPT !.pc = "preflight-bind", !.fp = settings])
  /\ UNCHANGED <<queueVars, settings, mem, controllerVars>>

PreflightBind(r) ==
  /\ At(r, "preflight-bind")
  /\ mem' = [mem EXCEPT !.fp = req[r].fp]
  /\ \E next \in {"preflight-submit", "invalidate-read"} : Continue(r, [req[r] EXCEPT !.pc = next])
  /\ UNCHANGED <<queueVars, settings, controllerVars>>

PreflightSubmit(r) ==
  /\ At(r, "preflight-submit")
  /\ \/ \E ttl \in 1..Ttl :
          Submit("preflight", [fp |-> req[r].fp, pre |-> Null, of |-> Null], ttl, TRUE)
     \/ ~SlotFree /\ UNCHANGED queueVars
  /\ Return(r)
  /\ UNCHANGED <<settings, mem, controllerVars>>

InvalidateRead(r) ==
  /\ At(r, "invalidate-read")
  /\ \/ \E t \in Task : /\ IsLatest(t, {"preflight"})
                        /\ Continue(r, [req[r] EXCEPT !.pc = "invalidate-write", !.task = t])
     \/ (\A t \in Task : ~IsLatest(t, {"preflight"})) /\ Return(r)
  /\ UNCHANGED <<queueVars, settings, mem, controllerVars>>

InvalidateWrite(r) ==
  /\ At(r, "invalidate-write")
  /\ \/ \E result \in Result : InvalidatePreflight(req[r].task, result)
     \/ row[req[r].task].status # "succeeded" /\ UNCHANGED queueVars
  /\ Return(r)
  /\ UNCHANGED <<settings, mem, controllerVars>>

------------------------------------------------------------------------------
(***************************************************************************)
(* startKubernetesInstall().  flag: the preflight was passed when read.    *)
(***************************************************************************)
InstallRead(r) ==
  /\ At(r, "idle")
  /\ \E t \in Task :
       /\ IsLatest(t, {"preflight"})
       /\ Continue(r, [IdleReq EXCEPT !.pc = "install-bind", !.task = t,
                                      !.flag = row[t].status = "succeeded"])
  /\ UNCHANGED <<queueVars, settings, mem, controllerVars>>

InstallBind(r) ==
  /\ At(r, "install-bind")
  /\ mem' = IF req[r].flag THEN [mem EXCEPT !.fp = row[req[r].task].payload.fp] ELSE mem
  /\ Continue(r, [req[r] EXCEPT !.pc = "install-settings"])
  /\ UNCHANGED <<queueVars, settings, controllerVars>>

InstallSettings(r) ==
  /\ At(r, "install-settings")
  /\ Continue(r, [req[r] EXCEPT !.pc = "install-check", !.fp = settings])
  /\ UNCHANGED <<queueVars, settings, mem, controllerVars>>

Mut_ValidPreflight(r) == row[req[r].task].ttl > 0 /\ mem.fp = req[r].fp

\* assertValidPreflight: passed, not expired, and the settings unchanged.
ValidPreflight(r) ==
  /\ req[r].flag
  /\ row[req[r].task].ttl > 0
  /\ mem.fp = req[r].fp

InstallCheck(r) ==
  /\ At(r, "install-check")
  /\ IF ValidPreflight(r)
       THEN Continue(r, [req[r] EXCEPT !.pc = "install-target"])
       ELSE Return(r)
  /\ UNCHANGED <<queueVars, settings, mem, controllerVars>>

\* The fingerprint an install is bound to.
InstallFingerprint(r) == mem.fp

\* The backup target was found: the payload is composed and submit validates it; it
\* may expire before the INSERT.
InstallTarget(r) ==
  /\ At(r, "install-target")
  /\ IF row[req[r].task].ttl > 0
       THEN Continue(r, [req[r] EXCEPT !.pc = "install-submit", !.fp = InstallFingerprint(r)])
       ELSE Return(r)
  /\ UNCHANGED <<queueVars, settings, mem, controllerVars>>

\* The new row carries the expiry of its preflight.
InstallTtl(r) == row[req[r].task].ttl

\* submit: queued, or refused by the slot.
QueueUpdate(r, action, payload, ttl) ==
  /\ \/ /\ Submit(action, payload, ttl, TRUE)
        /\ Continue(r, [IdleReq EXCEPT !.pc = "update-set"])
     \/ /\ ~SlotFree
        /\ Return(r)
        /\ UNCHANGED queueVars
  /\ UNCHANGED <<settings, mem, controllerVars>>

\* The in-memory status follows when the INSERT has been answered.
UpdateSet(r) ==
  /\ At(r, "update-set")
  /\ mem' = [mem EXCEPT !.busy = TRUE]
  /\ Return(r)
  /\ UNCHANGED <<queueVars, settings, controllerVars>>

InstallSubmit(r) ==
  /\ At(r, "install-submit")
  /\ QueueUpdate(r, "install", [fp |-> req[r].fp, pre |-> req[r].task, of |-> Null], InstallTtl(r))

------------------------------------------------------------------------------
(***************************************************************************)
(* startKubernetesRollback(): refused while the in-memory status says that *)
(* an update is going on, and unless the latest update succeeded.          *)
(***************************************************************************)
Mut_RollbackSource(t) == row[t].action \in Update /\ row[t].status = "succeeded"

RollbackSource(t) == IsLatest(t, Update) /\ row[t].status = "succeeded"

RollbackRead(r) ==
  /\ At(r, "idle")
  /\ ~mem.busy
  /\ \E t \in Task : /\ RollbackSource(t)
                     /\ Continue(r, [IdleReq EXCEPT !.pc = "rollback-settings", !.task = t,
                                                    !.known = {u \in Task : Exists(u)}])
  /\ UNCHANGED <<queueVars, settings, mem, controllerVars>>

RollbackSettings(r) ==
  /\ At(r, "rollback-settings")
  /\ Continue(r, [req[r] EXCEPT !.pc = "rollback-submit", !.fp = settings])
  /\ UNCHANGED <<queueVars, settings, mem, controllerVars>>

RollbackSubmit(r) ==
  /\ At(r, "rollback-submit")
  /\ QueueUpdate(r, "rollback", [fp |-> req[r].fp, pre |-> Null, of |-> req[r].task], Ttl)

\* getStatusForApi(): the in-memory status follows the latest update.
StatusRead(r) ==
  /\ At(r, "idle")
  /\ \E t \in Task : /\ IsLatest(t, Update)
                     /\ Continue(r, [IdleReq EXCEPT !.pc = "status-set", !.flag = Active(t)])
  /\ UNCHANGED <<queueVars, settings, mem, controllerVars>>

StatusSet(r) ==
  /\ At(r, "status-set")
  /\ mem' = [mem EXCEPT !.busy = req[r].flag]
  /\ Return(r)
  /\ UNCHANGED <<queueVars, settings, controllerVars>>

RequestStep(r) ==
  \/ PreflightRead(r) \/ PreflightBind(r) \/ PreflightSubmit(r)
  \/ InvalidateRead(r) \/ InvalidateWrite(r)
  \/ InstallRead(r) \/ InstallBind(r) \/ InstallSettings(r) \/ InstallCheck(r)
  \/ InstallTarget(r) \/ InstallSubmit(r)
  \/ RollbackRead(r) \/ RollbackSettings(r) \/ RollbackSubmit(r) \/ UpdateSet(r)
  \/ StatusRead(r) \/ StatusSet(r)
  \/ Abort(r)

------------------------------------------------------------------------------
(***************************************************************************)
(* The settings, the API process, and the controller as far as it reads    *)
(* the settings: it may be restarted and claim again at any time.          *)
(***************************************************************************)
Save ==
  /\ settings < MaxSaves
  /\ settings' = settings + 1
  /\ UNCHANGED <<queueVars, apiVars, controllerVars>>

Restart ==
  /\ mem' = NewProcess
  /\ req' = [r \in Request |-> IdleReq]
  /\ UNCHANGED <<queueVars, settings, controllerVars>>

ControllerClaim(w) ==
  /\ ClaimStep(w)
  /\ seen' = Null /\ cleared' = Null
  /\ UNCHANGED <<settings, apiVars, passed>>

\* The settings are read first, and their fingerprint by another query.
ControllerRead(w, t) ==
  /\ LeaseHeld(t, w)
  /\ seen = Null
  /\ seen' = settings
  /\ UNCHANGED <<queueVars, settings, apiVars, cleared, passed>>

Mut_SettingsUnchanged(t) == row[t].action = "preflight" => settings = row[t].payload.fp

SettingsUnchanged(t) == settings = row[t].payload.fp

\* A preflight that fails reports its checks, an update nothing.
FailTask(w, t) ==
  \E result \in IF row[t].action = "preflight" THEN Result ELSE {Null} :
    Finish(t, w, "failed", "failed", result)

\* Before the backup; a changed fingerprint ends the task.
ControllerCheck(w, t) ==
  /\ LeaseHeld(t, w)
  /\ seen # Null /\ cleared # t
  /\ IF SettingsUnchanged(t)
       THEN cleared' = t /\ UNCHANGED <<queueVars, seen>>
       ELSE FailTask(w, t) /\ seen' = Null /\ UNCHANGED cleared
  /\ UNCHANGED <<settings, apiVars, passed>>

ControllerFinish(w, t) ==
  /\ cleared = t
  /\ \/ /\ \E result \in Result : Finish(t, w, "succeeded", "completed", result)
        /\ passed' = passed \union {t}
     \/ FailTask(w, t) /\ UNCHANGED passed
  /\ seen' = Null /\ cleared' = Null
  /\ UNCHANGED <<settings, apiVars>>

TimePasses == Tick /\ UNCHANGED <<settings, apiVars, controllerVars>>

RNext ==
  \/ \E r \in Request : RequestStep(r)
  \/ Save \/ Restart \/ TimePasses
  \/ \E w \in Worker :
       \/ ControllerClaim(w)
       \/ \E t \in Task : ControllerRead(w, t) \/ ControllerCheck(w, t) \/ ControllerFinish(w, t)

RSpec == RInit /\ [][RNext]_requestVars

------------------------------------------------------------------------------
RTypeOK ==
  /\ TypeOK
  /\ settings \in Version
  /\ mem \in [fp : Version \union {Null}, busy : BOOLEAN]
  /\ req \in [Request -> Req]
  /\ seen \in Version \union {Null}
  /\ cleared \in Task \union {Null}
  /\ passed \subseteq Task

\* "Must be run again when the settings changed": whenever the controller lets
\* an install pass its settings check, the settings it has read, which the install
\* uses, are those its preflight was rehearsed with, whatever was saved in between.
InstallRunsAsRehearsed ==
  [][\A t \in Task :
       cleared # t /\ cleared' = t /\ row[t].action = "install"
       => row[row[t].payload.pre].payload.fp = seen]_requestVars

\* An install relies on a preflight that was passed, and lives no longer than
\* that preflight, however many times it is submitted.
InstallWithinPreflight ==
  \A t \in Task : row[t].action = "install" /\ Exists(t) =>
    LET p == row[t].payload.pre IN
    /\ p < t
    /\ row[p].action = "preflight" /\ p \in passed
    /\ row[t].ttl = row[p].ttl

\* A rollback t undoes an update that succeeded, and the only updates that came after
\* that one are those other requests queued while this one was on its way from its
\* read to its submission.
RollbackOfLatest ==
  [][\A r \in Request, t \in Task :
       At(r, "rollback-submit") /\ At(r, "update-set")' /\ ~Exists(t) /\ Exists(t)' =>
         LET u == row'[t].payload.of IN
         /\ row[u].action \in Update /\ row[u].status = "succeeded"
         /\ \A v \in u + 1 .. t - 1 : v \in req[r].known => row[v].action = "preflight"]_requestVars
=============================================================================
