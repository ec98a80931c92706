-------------------------- MODULE NativeRbacReconcile --------------------------
(***************************************************************************)
(* Reconciliation of a cluster's Roles and RoleBindings with the grants of *)
(* its users (auth/native-rbac-reconcile.service.ts, native-rbac-sync.ts). *)
(*                                                                         *)
(* An administrator starts a pass; nothing keeps a second one from running *)
(* at the same time.  A pass takes one pair of objects after the other to  *)
(* what the grants say, and then removes the pairs nobody should have.     *)
(* Settings are guarded by their revision, users by authzVersion, objects  *)
(* by the uid and resourceVersion that were read.                          *)
(*                                                                         *)
(* One step is one query, or one call of the Kubernetes API.  There is one *)
(* namespace, so that a user has one pair; users come in any order.  Rules *)
(* are a number, 0 for no object.  A pass may fail anywhere (Throw), also  *)
(* after a call that was carried out, and its process may die (Crash).     *)
(***************************************************************************)
EXTENDS Integers

CONSTANTS
  User,
  Pass,          \* passes at work
  MaxRights,     \* bound on the rules, which the capabilities of a grant give
  MaxRevision,   \* bound on the revisions of the settings
  MaxVersion,    \* bound on authzVersion
  None

ASSUME RbacAssumption ==
  /\ None \notin User
  /\ MaxRights \in Nat /\ MaxRevision \in Nat \ {0} /\ MaxVersion \in Nat \ {0}

VARIABLES
  config,    \* the NativeAccessConfig row
  account,   \* account[u]: the rights of u's effective grants, and authzVersion
  role,      \* role[u]: the rules of u's Role
  bound,     \* bound[u]: the RoleBinding exists
  pass       \* pass[p]: where pass p is, and its local variables

rbacVars == <<config, account, role, bound, pass>>

Rules == 0..MaxRights

\* syncRevision 0 is null.
Config == [revision : 1..MaxRevision, enabled : BOOLEAN, syncRevision : 0..MaxRevision,
           sync : {"pending", "syncing", "ready", "error"}]

Account == [rights : Rules, version : 1..MaxVersion]

\* snapshot: the users as findMany returned them.  seen: the rules that were read;
\* roleFresh and boundFresh: nobody has written the object since.  alone and held
\* are history: no other pass has been at the cluster, and what each user was
\* entitled to since the pass began.
Local == [pc : {"idle", "claim", "list", "users", "check", "role", "binding", "unbind", "write",
                "recheck", "bind", "prune", "guard", "stale", "revoke", "orphan", "remove", "error"},
          revision : 0..MaxRevision, snapshot : [User -> Account], todo : SUBSET User,
          desired : SUBSET User, user : User \union {None}, plan : Rules, seen : Rules,
          roleFresh : BOOLEAN, boundFresh : BOOLEAN, alone : BOOLEAN, held : [User -> SUBSET Rules]]

NoUsers == [u \in User |-> [rights |-> 0, version |-> 1]]

Idle == [pc |-> "idle", revision |-> 0, snapshot |-> NoUsers, todo |-> {}, desired |-> {},
         user |-> None, plan |-> 0, seen |-> 0, roleFresh |-> FALSE, boundFresh |-> FALSE,
         alone |-> FALSE, held |-> [u \in User |-> {}]]

NInit ==
  /\ config = [revision |-> 1, enabled |-> TRUE, syncRevision |-> 0, sync |-> "pending"]
  /\ account \in [User -> [rights : Rules, version : {1}]]
  /\ role = [u \in User |-> 0] /\ bound = [u \in User |-> FALSE]
  /\ pass = [p \in Pass |-> Idle]

\* At work on the cluster's objects.
Working(p) == pass[p].pc \notin {"idle", "claim", "list", "error"}

Goto(p, l) == pass' = [pass EXCEPT ![p] = l]

Failed(p) == [Idle EXCEPT !.pc = "error", !.revision = pass[p].revision]

Throw(p) ==
  /\ Working(p) \/ pass[p].pc = "list"
  /\ Goto(p, Failed(p))
  /\ UNCHANGED <<config, account, role, bound>>

\* The variables of a pair go out of scope with it.
Step(l, to) ==
  IF to \in {"users", "prune"}
    THEN [l EXCEPT !.pc = to, !.user = None, !.plan = 0, !.seen = 0, !.roleFresh = FALSE, !.boundFresh = FALSE]
    ELSE [l EXCEPT !.pc = to]

Advance(p, from, condition, to) ==
  /\ pass[p].pc = from /\ condition
  /\ Goto(p, Step(pass[p], to))
  /\ UNCHANGED <<config, account, role, bound>>

------------------------------------------------------------------------------
(***************************************************************************)
(* The row of the settings.  Every write of the status is conditional.     *)
(***************************************************************************)
Mut_SameRevision(p) == config.enabled

SameRevision(p) == config.revision = pass[p].revision

Begin(p) ==
  /\ pass[p].pc = "idle" /\ config.enabled
  /\ Goto(p, [Idle EXCEPT !.pc = "claim", !.revision = config.revision])
  /\ UNCHANGED <<config, account, role, bound>>

WriteStatus(p, sync, syncRevision) ==
  config' = IF SameRevision(p) THEN [config EXCEPT !.sync = sync, !.syncRevision = syncRevision]
                               ELSE config

Claim(p) ==
  /\ pass[p].pc = "claim"
  /\ WriteStatus(p, "syncing", 0)
  /\ Goto(p, IF SameRevision(p) THEN [pass[p] EXCEPT !.pc = "list"] ELSE Idle)
  /\ UNCHANGED <<account, role, bound>>

\* A status that cannot be written throws, and there is nobody left to catch it.
WriteError(p) ==
  /\ pass[p].pc = "error"
  /\ WriteStatus(p, "error", 0)
  /\ Goto(p, Idle)
  /\ UNCHANGED <<account, role, bound>>

\* A status that was written may not be answered: the pass then fails after all.
Finish(p) ==
  /\ pass[p].pc = "prune" /\ pass[p].todo = {} /\ SameRevision(p)
  /\ WriteStatus(p, "ready", pass[p].revision)
  /\ Goto(p, Idle) \/ Goto(p, Failed(p))
  /\ UNCHANGED <<account, role, bound>>

\* The process dies, or its last write is not answered and not done.
Crash(p) ==
  /\ pass[p].pc # "idle"
  /\ Goto(p, Idle)
  /\ UNCHANGED <<config, account, role, bound>>

------------------------------------------------------------------------------
(***************************************************************************)
(* The users with a grant for the cluster, in force or not, and for each   *)
(* of them the effective grants as of the time at which the list was made. *)
(***************************************************************************)
List(p) ==
  /\ pass[p].pc = "list"
  /\ \E unlisted \in SUBSET {u \in User : account[u].rights = 0} :
       pass' = [q \in Pass |->
         CASE q = p -> [pass[p] EXCEPT !.pc = "users", !.snapshot = account, !.todo = User \ unlisted,
                                       !.desired = {}, !.alone = \A r \in Pass : ~Working(r),
                                       !.held = [u \in User |-> {account[u].rights}]]
           [] q # p -> [pass[q] EXCEPT !.alone = FALSE]]
  /\ UNCHANGED <<config, account, role, bound>>

SameVersion(p, u) == account[u].version = pass[p].snapshot[u].version

\* A grant that changed after the list was made counts as it is now, or not yet.
Effective(p, u) ==
  IF SameVersion(p, u) THEN {pass[p].snapshot[u].rights} ELSE {0, account[u].rights}

Plan(p, u) ==
  /\ pass[p].pc = "users" /\ u \in pass[p].todo
  /\ \E rules \in Effective(p, u) :
       Goto(p, IF rules = 0
                 THEN [pass[p] EXCEPT !.todo = @ \ {u}]
                 ELSE [pass[p] EXCEPT !.todo = @ \ {u}, !.desired = @ \union {u}, !.pc = "check",
                                      !.user = u, !.plan = rules])
  /\ UNCHANGED <<config, account, role, bound>>

------------------------------------------------------------------------------
(***************************************************************************)
(* reconcileNativeRbacPair.  Access is taken away before the rules change. *)
(***************************************************************************)
\* assertCurrent: its two reads find what the first one could have found.
StillCurrent(p) == config.enabled /\ SameRevision(p) /\ SameVersion(p, pass[p].user)

Check(p) == Advance(p, "check", StillCurrent(p), "role")

\* Reading the role for the pair at hand, and the binding.
ReadRole(p, from, to) ==
  /\ pass[p].pc = from
  /\ Goto(p, [pass[p] EXCEPT !.pc = to, !.seen = role[pass[p].user], !.roleFresh = TRUE])
  /\ UNCHANGED <<config, account, role, bound>>

Mut_RoleMatches(p) == pass[p].seen > 0

RoleMatches(p) == pass[p].seen = pass[p].plan

ReadBinding(p) ==
  /\ pass[p].pc = "binding"
  /\ LET present == bound[pass[p].user] IN
     Goto(p, Step([pass[p] EXCEPT !.boundFresh = present],
                  IF present THEN IF RoleMatches(p) THEN "users" ELSE "unbind"
                             ELSE IF RoleMatches(p) THEN "recheck" ELSE "write"))
  /\ UNCHANGED <<config, account, role, bound>>

\* A written object is another version for everybody who has read it.
WriteBinding(p, exists, to) ==
  LET u == pass[p].user IN
  /\ bound' = [bound EXCEPT ![u] = exists]
  /\ pass' = [q \in Pass |->
       CASE q = p -> Step([pass[p] EXCEPT !.boundFresh = FALSE], to)
         [] q # p -> [pass[q] EXCEPT !.boundFresh = @ /\ pass[q].user # u]]
  /\ UNCHANGED <<config, account, role>>

WriteRules(p, rules, to) ==
  LET u == pass[p].user IN
  /\ role' = [role EXCEPT ![u] = rules]
  /\ pass' = [q \in Pass |->
       CASE q = p -> Step([pass[p] EXCEPT !.roleFresh = FALSE], to)
         [] q # p -> [pass[q] EXCEPT !.roleFresh = @ /\ pass[q].user # u]]
  /\ UNCHANGED <<config, account, bound>>

\* DELETE with preconditions
Unbind(p) ==
  /\ pass[p].pc = "unbind" /\ pass[p].boundFresh
  /\ WriteBinding(p, FALSE, IF RoleMatches(p) THEN "recheck" ELSE "write")

\* PUT with the resourceVersion, or POST
WriteRole(p) ==
  /\ pass[p].pc = "write"
  /\ IF pass[p].seen = 0 THEN role[pass[p].user] = 0 ELSE pass[p].roleFresh
  /\ WriteRules(p, pass[p].plan, "recheck")

Recheck(p) == Advance(p, "recheck", StillCurrent(p), "bind")

Bind(p) ==
  /\ pass[p].pc = "bind" /\ ~bound[pass[p].user]
  /\ WriteBinding(p, TRUE, "users")

------------------------------------------------------------------------------
(***************************************************************************)
(* The bindings of users who should have none: revokeOwnedNativeRbacPair.  *)
(***************************************************************************)
Stale(p) == {u \in User : bound[u]} \ pass[p].desired

ListBindings(p) ==
  /\ pass[p].pc = "users" /\ pass[p].todo = {}
  /\ Goto(p, [pass[p] EXCEPT !.pc = "prune", !.todo = Stale(p)])
  /\ UNCHANGED <<config, account, role, bound>>

Prune(p, u) ==
  /\ pass[p].pc = "prune" /\ u \in pass[p].todo
  /\ Goto(p, [pass[p] EXCEPT !.pc = "guard", !.user = u, !.todo = @ \ {u}])
  /\ UNCHANGED <<config, account, role, bound>>

\* assertConfig
Guard(p) == Advance(p, "guard", config.enabled /\ SameRevision(p), "stale")

ReadStale(p) ==
  /\ pass[p].pc = "stale"
  /\ LET present == bound[pass[p].user] IN
     Goto(p, [pass[p] EXCEPT !.boundFresh = present, !.pc = IF present THEN "revoke" ELSE "orphan"])
  /\ UNCHANGED <<config, account, role, bound>>

Revoke(p) ==
  /\ pass[p].pc = "revoke" /\ pass[p].boundFresh
  /\ WriteBinding(p, FALSE, "orphan")

RemoveRole(p) ==
  /\ pass[p].pc = "remove"
  /\ IF pass[p].seen = 0
       THEN Goto(p, Step(pass[p], "prune")) /\ UNCHANGED <<config, account, role, bound>>
       ELSE pass[p].roleFresh /\ WriteRules(p, 0, "prune")

------------------------------------------------------------------------------
(***************************************************************************)
(* Meanwhile: settings are saved, grants change (with the user's version), *)
(* come into force or to their end (without).                              *)
(***************************************************************************)
SaveSettings(enabled) ==
  /\ config.revision < MaxRevision
  /\ config' = [revision |-> config.revision + 1, enabled |-> enabled, syncRevision |-> 0,
                sync |-> "pending"]
  /\ UNCHANGED <<account, role, bound, pass>>

Entitled(u, rights, version) ==
  /\ account' = [account EXCEPT ![u] = [rights |-> rights, version |-> version]]
  /\ pass' = [p \in Pass |-> IF Working(p) THEN [pass[p] EXCEPT !.held[u] = @ \union {rights}]
                                           ELSE pass[p]]
  /\ UNCHANGED <<config, role, bound>>

NextVersion(u) == account[u].version + 1

ChangeGrant(u, rights) ==
  /\ rights # account[u].rights /\ account[u].version < MaxVersion
  /\ Entitled(u, rights, NextVersion(u))

TimePasses(u, rights) ==
  /\ rights # account[u].rights
  /\ Entitled(u, rights, account[u].version)

Pair(p) ==
  \/ Check(p) \/ ReadRole(p, "role", "binding") \/ ReadBinding(p) \/ Unbind(p)
  \/ WriteRole(p) \/ Recheck(p) \/ Bind(p)

Cleanup(p) ==
  \/ ListBindings(p) \/ \E u \in User : Prune(p, u)
  \/ Guard(p) \/ ReadStale(p) \/ Revoke(p) \/ ReadRole(p, "orphan", "remove") \/ RemoveRole(p)

Reconcile(p) ==
  \/ Begin(p) \/ Claim(p) \/ List(p) \/ \E u \in User : Plan(p, u)
  \/ Pair(p) \/ Cleanup(p) \/ Finish(p)
  \/ Throw(p) \/ WriteError(p) \/ Crash(p)

NNext ==
  \/ \E p \in Pass : Reconcile(p)
  \/ \E enabled \in BOOLEAN : SaveSettings(enabled)
  \/ \E u \in User, rights \in Rules : ChangeGrant(u, rights) \/ TimePasses(u, rights)

NSpec == NInit /\ [][NNext]_rbacVars

------------------------------------------------------------------------------
\* Types of the row, the objects and the passes.
NTypeOK ==
  /\ config \in Config
  /\ account \in [User -> Account]
  /\ role \in [User -> Rules] /\ bound \in [User -> BOOLEAN]
  /\ pass \in [Pass -> Local]

\* "A previously ready revision is never represented as current after settings
\* change": the status is ready only for the settings in force, although passes
\* for earlier ones finish and fail late.
ReadyIsCurrent == config.sync = "ready" => config.syncRevision = config.revision

\* What the cluster allows u.
Access(u) == IF bound[u] THEN role[u] ELSE 0

\* A pass that reports ready, and was the only one, leaves every user with rules
\* the user was entitled to while it ran, or with none if they changed meanwhile:
\* whatever pairs were left half-done by passes that failed, died or were stale.
Settled(p, u) ==
  \/ Access(u) \in pass[p].held[u]
  \/ Access(u) = 0 /\ pass[p].held[u] # {account[u].rights}

ReadyIsApplied ==
  [][\A p \in Pass : pass[p].alone /\ Finish(p) => \A u \in User : Settled(p, u)]_rbacVars
===============================================================================
