---------------------- MODULE NativeRbacReconcileProofs ----------------------
(***************************************************************************)
(* Theorems about the reconciliation, for any users, any number of passes, *)
(* any rules and any number of revisions and versions.                     *)
(***************************************************************************)
EXTENDS NativeRbacReconcile, TLAPS

\* A pass is at work on the pair of a user it plans for, or of one it removes.
PairPc == {"check", "role", "binding", "unbind", "write", "recheck", "bind"}
PrunePc == {"guard", "stale", "revoke", "orphan", "remove"}

\* Types; a pass at work on a pair has a user.
TypeInv ==
  /\ NTypeOK
  /\ \A p \in Pass : pass[p].pc \in PairPc \union PrunePc => pass[p].user \in User

------------------------------------------------------------------------------
(***************************************************************************)
(* Types.                                                                  *)
(***************************************************************************)
LEMMA IdleTyped == Idle \in Local
<1>1. NoUsers \in [User -> Account]  BY RbacAssumption DEF NoUsers, Account, Rules
<1>2. [u \in User |-> {}] \in [User -> SUBSET Rules]  OBVIOUS
<1>3. 0 \in Rules /\ 0 \in 0..MaxRevision  BY RbacAssumption DEF Rules
<1>. QED  BY <1>1, <1>2, <1>3 DEF Idle, Local

LEMMA InitTyped == NInit => TypeInv
<1>. SUFFICES ASSUME NInit PROVE TypeInv  OBVIOUS
<1>1. config \in Config  BY RbacAssumption DEF NInit, Config
<1>2. account \in [User -> Account]
  <2>1. 1 \in 1..MaxVersion  BY RbacAssumption
  <2>. QED  BY <2>1 DEF NInit, Account
<1>3. role \in [User -> Rules] /\ bound \in [User -> BOOLEAN]  BY RbacAssumption DEF NInit, Rules
<1>4. pass \in [Pass -> Local]  BY IdleTyped DEF NInit
<1>5. \A p \in Pass : pass[p].pc = "idle"  BY DEF NInit, Idle
<1>. QED  BY <1>1, <1>2, <1>3, <1>4, <1>5 DEF TypeInv, NTypeOK, PairPc, PrunePc

Pcs == {"idle", "claim", "list", "users", "prune", "error"} \union PairPc \union PrunePc

\* Going on to another place keeps the types of the local variables.
LEMMA StepTyped ==
  ASSUME NEW l \in Local, NEW to \in Pcs
  PROVE  /\ Step(l, to) \in Local /\ Step(l, to).pc = to
         /\ to \notin {"users", "prune"} => Step(l, to).user = l.user
<1>1. 0 \in Rules  BY RbacAssumption DEF Rules
<1>2. [l EXCEPT !.pc = to] \in Local /\ [l EXCEPT !.pc = to].pc = to /\ [l EXCEPT !.pc = to].user = l.user
  BY DEF Local, Pcs, PairPc, PrunePc
<1>3. [l EXCEPT !.pc = to, !.user = None, !.plan = 0, !.seen = 0, !.roleFresh = FALSE,
                !.boundFresh = FALSE] \in Local
  BY <1>1 DEF Local, Pcs, PairPc, PrunePc
<1>4. [l EXCEPT !.pc = to, !.user = None, !.plan = 0, !.seen = 0, !.roleFresh = FALSE,
                !.boundFresh = FALSE].pc = to
  BY DEF Local
<1>. QED  BY <1>2, <1>3, <1>4 DEF Step

\* A step of a pass that changes nothing but its local variables.
LEMMA GotoTyped ==
  ASSUME TypeInv, NEW p \in Pass, NEW l \in Local, Goto(p, l), UNCHANGED <<config, account, role, bound>>,
         l.pc \in PairPc \union PrunePc => l.user \in User
  PROVE  TypeInv'
<1>1. pass \in [Pass -> Local]  BY DEF TypeInv, NTypeOK
<1>2. pass' \in [Pass -> Local] /\ pass'[p] = l /\ \A q \in Pass \ {p} : pass'[q] = pass[q]
  BY <1>1 DEF Goto
<1>. QED  BY <1>2 DEF TypeInv, NTypeOK

LEMMA ReadsTyped ==
  ASSUME TypeInv, NEW p \in Pass,
         \/ Begin(p) \/ Crash(p) \/ Throw(p) \/ \E u \in User : Plan(p, u) \/ Prune(p, u)
         \/ ReadBinding(p) \/ ListBindings(p) \/ ReadStale(p)
  PROVE  TypeInv'
<1> DEFINE l == pass[p]
<1>0. /\ l \in Local /\ Idle \in Local /\ Idle.pc = "idle" /\ config \in Config /\ l.revision \in 0..MaxRevision
      /\ bound \in [User -> BOOLEAN] /\ account \in [User -> Account] /\ 0 \in Rules
      /\ l.snapshot \in [User -> Account] /\ l.todo \subseteq User /\ l.desired \subseteq User
      /\ l.pc \in PairPc \union PrunePc => l.user \in User
  BY IdleTyped, RbacAssumption DEF TypeInv, NTypeOK, Local, Idle, Rules
<1>1. CASE Begin(p)
  <2>1. config.revision \in 0..MaxRevision  BY <1>0, RbacAssumption DEF Config
  <2>2. [Idle EXCEPT !.pc = "claim", !.revision = config.revision] \in Local
    BY <1>0, <2>1 DEF Local
  <2>3. [Idle EXCEPT !.pc = "claim", !.revision = config.revision].pc = "claim"  BY DEF Idle
  <2>. QED  BY <1>1, <2>2, <2>3, GotoTyped DEF Begin, PairPc, PrunePc
<1>2. CASE Crash(p)
  BY <1>0, <1>2, GotoTyped DEF Crash, PairPc, PrunePc
<1>3. CASE Throw(p)
  <2>1. Failed(p) \in Local  BY <1>0 DEF Local, Failed
  <2>2. Failed(p).pc = "error"  BY DEF Idle, Failed
  <2>. QED  BY <1>3, <2>1, <2>2, GotoTyped DEF Throw, PairPc, PrunePc
<1>4. ASSUME NEW u \in User, Plan(p, u) PROVE TypeInv'
  <2>1. PICK rules \in Effective(p, u) :
          /\ Goto(p, IF rules = 0
                       THEN [l EXCEPT !.todo = @ \ {u}]
                       ELSE [l EXCEPT !.todo = @ \ {u}, !.desired = @ \union {u}, !.pc = "check",
                                      !.user = u, !.plan = rules])
          /\ l.pc = "users" /\ UNCHANGED <<config, account, role, bound>>
    BY <1>4 DEF Plan
  <2>2. rules \in Rules  BY <1>0, <2>1 DEF Effective, Account
  <2>3. l.todo \ {u} \in SUBSET User /\ l.desired \union {u} \in SUBSET User /\ "check" \in Pcs
    BY <1>0 DEF Pcs, PairPc
  <2>4. /\ [l EXCEPT !.todo = l.todo \ {u}] \in Local
        /\ [l EXCEPT !.todo = l.todo \ {u}, !.desired = l.desired \union {u}, !.pc = "check", !.user = u,
                      !.plan = rules] \in Local
    BY <1>0, <2>2, <2>3 DEF Local, Pcs, PairPc
  <2>5. CASE rules = 0
    <3>1. [l EXCEPT !.todo = l.todo \ {u}].pc = "users"  BY <1>0, <2>1 DEF Local
    <3>. QED  BY <2>1, <2>4, <2>5, <3>1, GotoTyped DEF PairPc, PrunePc
  <2>6. CASE rules # 0
    <3>1. [l EXCEPT !.todo = l.todo \ {u}, !.desired = l.desired \union {u}, !.pc = "check", !.user = u,
                    !.plan = rules].user \in User
      BY <1>0 DEF Local
    <3>. QED  BY <2>1, <2>4, <2>6, <3>1, GotoTyped
  <2>. QED  BY <2>5, <2>6
<1>5. ASSUME NEW u \in User, Prune(p, u) PROVE TypeInv'
  <2>1. [l EXCEPT !.pc = "guard", !.user = u, !.todo = l.todo \ {u}] \in Local  BY <1>0 DEF Local
  <2>2. [l EXCEPT !.pc = "guard", !.user = u, !.todo = l.todo \ {u}].user = u  BY <1>0 DEF Local
  <2>. QED  BY <1>5, <2>1, <2>2, GotoTyped DEF Prune
<1>6. CASE ReadBinding(p)
  <2>1. PICK to \in {"users", "unbind", "recheck", "write"} :
          /\ Goto(p, Step([l EXCEPT !.boundFresh = bound[l.user]], to)) /\ l.pc = "binding"
          /\ UNCHANGED <<config, account, role, bound>>
    BY <1>6 DEF ReadBinding
  <2>2. l.user \in User /\ bound[l.user] \in BOOLEAN /\ to \in Pcs  BY <1>0, <2>1 DEF PairPc, Pcs
  <2>3. [l EXCEPT !.boundFresh = bound[l.user]] \in Local /\ [l EXCEPT !.boundFresh = bound[l.user]].user = l.user
    BY <1>0, <2>2 DEF Local
  <2>. QED  BY <2>1, <2>2, <2>3, StepTyped, GotoTyped DEF PairPc, PrunePc
<1>7. CASE ListBindings(p)
  <2>1. Stale(p) \subseteq User  BY DEF Stale
  <2>2. [l EXCEPT !.pc = "prune", !.todo = Stale(p)] \in Local  BY <1>0, <2>1 DEF Local
  <2>3. [l EXCEPT !.pc = "prune", !.todo = Stale(p)].pc = "prune"  BY <1>0 DEF Local
  <2>. QED  BY <1>7, <2>2, <2>3, GotoTyped DEF ListBindings, PairPc, PrunePc
<1>8. CASE ReadStale(p)
  <2>1. PICK to \in {"revoke", "orphan"} :
          Goto(p, [l EXCEPT !.boundFresh = bound[l.user], !.pc = to])
    BY <1>8 DEF ReadStale
  <2>2. l.user \in User  BY <1>0, <1>8 DEF ReadStale, PrunePc
  <2>3. [l EXCEPT !.boundFresh = bound[l.user], !.pc = to] \in Local  BY <1>0, <2>2 DEF Local
  <2>4. [l EXCEPT !.boundFresh = bound[l.user], !.pc = to].user = l.user  BY <1>0 DEF Local
  <2>. QED  BY <1>8, <2>1, <2>2, <2>3, <2>4, GotoTyped DEF ReadStale
<1>. QED  BY <1>1, <1>2, <1>3, <1>4, <1>5, <1>6, <1>7, <1>8

LEMMA MovesTyped ==
  ASSUME TypeInv, NEW p \in Pass,
         \/ Check(p) \/ Recheck(p) \/ Guard(p) \/ ReadRole(p, "role", "binding") \/ ReadRole(p, "orphan", "remove")
  PROVE  TypeInv'
<1> DEFINE l == pass[p]
<1>0. /\ l \in Local /\ role \in [User -> Rules]
      /\ l.pc \in PairPc \union PrunePc => l.user \in User
  BY DEF TypeInv, NTypeOK
<1>1. ASSUME NEW from \in PairPc \union PrunePc, NEW to \in PairPc \union PrunePc, NEW condition,
             Advance(p, from, condition, to)
      PROVE  TypeInv'
  <2>1. to \in Pcs /\ to \notin {"users", "prune"}  BY DEF Pcs, PairPc, PrunePc
  <2>2. Step(l, to) \in Local /\ Step(l, to).user = l.user  BY <1>0, <2>1, StepTyped
  <2>. QED  BY <1>0, <1>1, <2>2, GotoTyped DEF Advance
<1>2. ASSUME NEW from \in PairPc \union PrunePc, NEW to \in PairPc \union PrunePc, ReadRole(p, from, to)
      PROVE  TypeInv'
  <2>1. role[l.user] \in Rules /\ l.user \in User  BY <1>0, <1>2 DEF ReadRole
  <2>2. [l EXCEPT !.pc = to, !.seen = role[l.user], !.roleFresh = TRUE] \in Local
    BY <1>0, <2>1 DEF Local, PairPc, PrunePc
  <2>3. [l EXCEPT !.pc = to, !.seen = role[l.user], !.roleFresh = TRUE].user = l.user  BY <1>0 DEF Local
  <2>. QED  BY <1>2, <2>1, <2>2, <2>3, GotoTyped DEF ReadRole
<1>3. {"check", "role", "binding", "recheck", "bind", "guard", "stale", "orphan", "remove"} \subseteq PairPc \union PrunePc
  BY DEF PairPc, PrunePc
<1>. QED  BY <1>1, <1>2, <1>3 DEF Check, Recheck, Guard

\* What a pass has read may become stale, and another one may start beside it.
LEMMA FlagsTyped ==
  ASSUME NEW l \in Local, NEW b \in BOOLEAN
  PROVE  /\ [l EXCEPT !.boundFresh = b] \in Local /\ [l EXCEPT !.roleFresh = b] \in Local
         /\ [l EXCEPT !.alone = b] \in Local
         /\ [l EXCEPT !.boundFresh = b].pc = l.pc /\ [l EXCEPT !.boundFresh = b].user = l.user
         /\ [l EXCEPT !.roleFresh = b].pc = l.pc /\ [l EXCEPT !.roleFresh = b].user = l.user
         /\ [l EXCEPT !.alone = b].pc = l.pc /\ [l EXCEPT !.alone = b].user = l.user
BY DEF Local

\* Writing an object moves one pass and marks what the others have read.
LEMMA WriteTyped ==
  ASSUME TypeInv, NEW p \in Pass, pass[p].user \in User, NEW to \in Pcs, NEW exists \in BOOLEAN,
         NEW rules \in Rules, WriteBinding(p, exists, to) \/ WriteRules(p, rules, to)
  PROVE  TypeInv'
<1>0. pass \in [Pass -> Local]  BY DEF TypeInv, NTypeOK
<1>1. pass[p] \in Local  BY <1>0
<1>3. CASE WriteBinding(p, exists, to)
  <2>1. bound' \in [User -> BOOLEAN] /\ UNCHANGED <<config, account, role>>
    BY <1>3 DEF WriteBinding, TypeInv, NTypeOK
  <2>3. ASSUME NEW q \in Pass \ {p}
        PROVE  pass'[q] \in Local /\ pass'[q].pc = pass[q].pc /\ pass'[q].user = pass[q].user
    <3> DEFINE b == pass[q].boundFresh /\ pass[q].user # pass[p].user
    <3>1. pass'[q] = [pass[q] EXCEPT !.boundFresh = b]  BY <1>3 DEF WriteBinding
    <3>2. b \in BOOLEAN /\ pass[q] \in Local  BY <1>0
    <3> HIDE DEF b
    <3>3. /\ [pass[q] EXCEPT !.boundFresh = b] \in Local
          /\ [pass[q] EXCEPT !.boundFresh = b].pc = pass[q].pc
          /\ [pass[q] EXCEPT !.boundFresh = b].user = pass[q].user
      BY <3>2, FlagsTyped
    <3>. QED  BY <3>1, <3>3, Zenon
  <2> DEFINE l == [pass[p] EXCEPT !.boundFresh = FALSE]
  <2>4. pass'[p] = Step(l, to) /\ l \in Local /\ l.user \in User  BY <1>1, <1>3, FlagsTyped DEF WriteBinding
  <2> HIDE DEF l
  <2>5. pass' \in [Pass -> Local]  BY <1>3, <2>3, <2>4, StepTyped DEF WriteBinding
  <2>6. pass'[p].pc \in PairPc \union PrunePc => pass'[p].user \in User
    BY <2>4, StepTyped DEF PairPc, PrunePc
  <2>. QED  BY <2>1, <2>3, <2>5, <2>6 DEF TypeInv, NTypeOK
<1>4. CASE WriteRules(p, rules, to)
  <2>1. role' \in [User -> Rules] /\ UNCHANGED <<config, account, bound>>
    BY <1>4 DEF WriteRules, TypeInv, NTypeOK
  <2>3. ASSUME NEW q \in Pass \ {p}
        PROVE  pass'[q] \in Local /\ pass'[q].pc = pass[q].pc /\ pass'[q].user = pass[q].user
    <3> DEFINE b == pass[q].roleFresh /\ pass[q].user # pass[p].user
    <3>1. pass'[q] = [pass[q] EXCEPT !.roleFresh = b]  BY <1>4 DEF WriteRules
    <3>2. b \in BOOLEAN /\ pass[q] \in Local  BY <1>0
    <3> HIDE DEF b
    <3>3. /\ [pass[q] EXCEPT !.roleFresh = b] \in Local
          /\ [pass[q] EXCEPT !.roleFresh = b].pc = pass[q].pc
          /\ [pass[q] EXCEPT !.roleFresh = b].user = pass[q].user
      BY <3>2, FlagsTyped
    <3>. QED  BY <3>1, <3>3, Zenon
  <2> DEFINE l == [pass[p] EXCEPT !.roleFresh = FALSE]
  <2>4. pass'[p] = Step(l, to) /\ l \in Local /\ l.user \in User  BY <1>1, <1>4, FlagsTyped DEF WriteRules
  <2> HIDE DEF l
  <2>5. pass' \in [Pass -> Local]  BY <1>4, <2>3, <2>4, StepTyped DEF WriteRules
  <2>6. pass'[p].pc \in PairPc \union PrunePc => pass'[p].user \in User
    BY <2>4, StepTyped DEF PairPc, PrunePc
  <2>. QED  BY <2>1, <2>3, <2>5, <2>6 DEF TypeInv, NTypeOK
<1>. QED  BY <1>3, <1>4

LEMMA WritesTyped ==
  ASSUME TypeInv, NEW p \in Pass, Unbind(p) \/ WriteRole(p) \/ Bind(p) \/ Revoke(p) \/ RemoveRole(p)
  PROVE  TypeInv'
<1>0. /\ pass[p] \in Local /\ pass[p].plan \in Rules /\ 0 \in Rules
      /\ pass[p].pc \in PairPc \union PrunePc => pass[p].user \in User
      /\ {"users", "prune", "write", "recheck", "orphan"} \subseteq Pcs
  BY RbacAssumption DEF TypeInv, NTypeOK, Local, Rules, Pcs, PairPc, PrunePc
<1>1. CASE Unbind(p) \/ Bind(p) \/ Revoke(p)
  <2>1. pass[p].user \in User  BY <1>0, <1>1 DEF Unbind, Bind, Revoke, PairPc, PrunePc
  <2>2. \E to \in Pcs, exists \in BOOLEAN : WriteBinding(p, exists, to)
    BY <1>0, <1>1 DEF Unbind, Bind, Revoke
  <2>. QED  BY <1>0, <2>1, <2>2, WriteTyped
<1>2. CASE WriteRole(p)
  <2>1. pass[p].user \in User  BY <1>0, <1>2 DEF WriteRole, PairPc
  <2>. QED  BY <1>0, <1>2, <2>1, WriteTyped DEF WriteRole
<1>3. CASE RemoveRole(p)
  <2>1. pass[p].user \in User  BY <1>0, <1>3 DEF RemoveRole, PrunePc
  <2>2. CASE pass[p].seen = 0
    <3>1. Step(pass[p], "prune") \in Local /\ Step(pass[p], "prune").pc = "prune"  BY <1>0, StepTyped
    <3>. QED  BY <1>3, <2>2, <3>1, GotoTyped DEF RemoveRole, PairPc, PrunePc
  <2>3. CASE pass[p].seen # 0
    <3>1. WriteRules(p, 0, "prune")  BY <1>3, <2>3 DEF RemoveRole
    <3>. QED  BY <1>0, <2>1, <3>1, WriteTyped
  <2>. QED  BY <2>2, <2>3
<1>. QED  BY <1>1, <1>2, <1>3

LEMMA ListTyped ==
  ASSUME TypeInv, NEW p \in Pass, List(p)
  PROVE  TypeInv'
<1>0. pass \in [Pass -> Local] /\ account \in [User -> Account]  BY DEF TypeInv, NTypeOK
<1>1. PICK unlisted \in SUBSET User :
        pass' = [q \in Pass |->
          CASE q = p -> [pass[p] EXCEPT !.pc = "users", !.snapshot = account, !.todo = User \ unlisted,
                                        !.desired = {}, !.alone = \A r \in Pass : ~Working(r),
                                        !.held = [u \in User |-> {account[u].rights}]]
            [] q # p -> [pass[q] EXCEPT !.alone = FALSE]]
  BY DEF List
<1>2. [u \in User |-> {account[u].rights}] \in [User -> SUBSET Rules]  BY <1>0 DEF Account
<1>3. pass'[p] = [pass[p] EXCEPT !.pc = "users", !.snapshot = account, !.todo = User \ unlisted,
                                 !.desired = {}, !.alone = \A r \in Pass : ~Working(r),
                                 !.held = [u \in User |-> {account[u].rights}]]
  BY <1>1
<1>4. pass'[p] \in Local /\ pass'[p].pc = "users"
  <2> DEFINE alone == \A r \in Pass : ~Working(r)
  <2>1. alone \in BOOLEAN  OBVIOUS
  <2> HIDE DEF alone
  <2>2. User \ unlisted \in SUBSET User  OBVIOUS
  <2>3. pass[p] \in Local  BY <1>0
  <2> DEFINE held == [u \in User |-> {account[u].rights}]
             l == [pass[p] EXCEPT !.pc = "users", !.snapshot = account, !.todo = User \ unlisted,
                                  !.desired = {}, !.alone = alone, !.held = held]
  <2>4. pass'[p] = l /\ held \in [User -> SUBSET Rules]  BY <1>2, <1>3 DEF alone
  <2> HIDE DEF held
  <2>5. l \in Local /\ l.pc = "users"  BY <1>0, <2>1, <2>2, <2>3, <2>4 DEF Local
  <2> HIDE DEF l
  <2>. QED  BY <2>4, <2>5
<1>5. ASSUME NEW q \in Pass \ {p}
      PROVE  pass'[q] \in Local /\ pass'[q].pc = pass[q].pc /\ pass'[q].user = pass[q].user
  <2>1. pass'[q] = [pass[q] EXCEPT !.alone = FALSE]  BY <1>1
  <2>2. pass[q] \in Local  BY <1>0
  <2>. QED  BY <2>1, <2>2, FlagsTyped
<1>6. pass' \in [Pass -> Local]  BY <1>1, <1>4, <1>5
<1>. QED  BY <1>4, <1>5, <1>6 DEF List, TypeInv, NTypeOK, PairPc, PrunePc

LEMMA StatusTyped ==
  ASSUME TypeInv, NEW p \in Pass, Claim(p) \/ WriteError(p) \/ Finish(p)
  PROVE  TypeInv'
<1>0. /\ config \in Config /\ pass \in [Pass -> Local] /\ pass[p] \in Local
      /\ pass[p].revision \in 0..MaxRevision
      /\ 0 \in 0..MaxRevision
  BY RbacAssumption DEF TypeInv, NTypeOK, Local
<1>1. config' \in Config
  <2>1. ASSUME NEW sync \in {"pending", "syncing", "ready", "error"}, NEW n \in 0..MaxRevision,
               WriteStatus(p, sync, n)
        PROVE  config' \in Config
    BY <1>0, <2>1 DEF WriteStatus, Config
  <2>. QED  BY <1>0, <2>1 DEF Claim, WriteError, Finish
<1>2. PICK l \in Local : Goto(p, l) /\ l.pc \in {"idle", "list", "error"}
  <2>1. [pass[p] EXCEPT !.pc = "list"] \in Local /\ [pass[p] EXCEPT !.pc = "list"].pc = "list"
    BY <1>0 DEF Local
  <2>2. Idle \in Local /\ Idle.pc = "idle"  BY IdleTyped DEF Idle
  <2>3. Failed(p) \in Local /\ Failed(p).pc = "error"  BY <1>0, <2>2 DEF Failed, Idle, Local
  <2>4. Goto(p, Idle) \/ Goto(p, [pass[p] EXCEPT !.pc = "list"]) \/ Goto(p, Failed(p))
    BY DEF Claim, WriteError, Finish
  <2>. QED  BY <2>1, <2>2, <2>3, <2>4
<1>3. pass' \in [Pass -> Local] /\ pass'[p] = l /\ \A q \in Pass \ {p} : pass'[q] = pass[q]
  BY <1>0, <1>2 DEF Goto
<1>4. UNCHANGED <<account, role, bound>>  BY DEF Claim, WriteError, Finish
<1>. QED  BY <1>1, <1>2, <1>3, <1>4 DEF TypeInv, NTypeOK, PairPc, PrunePc

LEMMA OutsideTyped ==
  ASSUME TypeInv,
         \/ \E enabled \in BOOLEAN : SaveSettings(enabled)
         \/ \E u \in User, rights \in Rules : ChangeGrant(u, rights) \/ TimePasses(u, rights)
  PROVE  TypeInv'
<1>0. pass \in [Pass -> Local] /\ account \in [User -> Account]  BY DEF TypeInv, NTypeOK
<1>1. ASSUME NEW enabled \in BOOLEAN, SaveSettings(enabled) PROVE TypeInv'
  <2>1. config.revision + 1 \in 1..MaxRevision /\ 0 \in 0..MaxRevision
    BY <1>1, RbacAssumption DEF SaveSettings, TypeInv, NTypeOK, Config
  <2>2. config' \in Config  BY <1>1, <2>1 DEF SaveSettings, Config
  <2>. QED  BY <1>1, <2>2 DEF SaveSettings, TypeInv, NTypeOK
<1>2. ASSUME NEW u \in User, NEW rights \in Rules, ChangeGrant(u, rights) \/ TimePasses(u, rights)
      PROVE  TypeInv'
  <2>1. PICK version \in 1..MaxVersion : Entitled(u, rights, version)
    <3>1. account[u].version \in 1..MaxVersion  BY <1>0 DEF Account
    <3>2. account[u].version < MaxVersion => NextVersion(u) \in 1..MaxVersion
      BY <3>1, RbacAssumption DEF NextVersion
    <3>. QED  BY <1>2, <3>1, <3>2 DEF ChangeGrant, TimePasses
  <2>2. account' \in [User -> Account]  BY <1>0, <2>1 DEF Entitled, Account
  <2>3. \A p \in Pass : pass'[p] \in Local /\ pass'[p].pc = pass[p].pc /\ pass'[p].user = pass[p].user
    <3>. SUFFICES ASSUME NEW p \in Pass
                  PROVE  pass'[p] \in Local /\ pass'[p].pc = pass[p].pc /\ pass'[p].user = pass[p].user
      OBVIOUS
    <3> DEFINE held == [pass[p].held EXCEPT ![u] = @ \union {rights}]
    <3>1. pass[p] \in Local /\ held \in [User -> SUBSET Rules]  BY <1>0 DEF Local
    <3>2. pass'[p] = IF Working(p) THEN [pass[p] EXCEPT !.held = held] ELSE pass[p]
      BY <2>1, <3>1 DEF Entitled, Local
    <3> HIDE DEF held
    <3>. QED  BY <3>1, <3>2 DEF Local
  <2>4. pass' \in [Pass -> Local]  BY <2>1, <2>3 DEF Entitled
  <2>. QED  BY <2>1, <2>2, <2>3, <2>4 DEF Entitled, TypeInv, NTypeOK
<1>. QED  BY <1>1, <1>2

LEMMA TypesInductive == TypeInv /\ [NNext]_rbacVars => TypeInv'
<1>. SUFFICES ASSUME TypeInv, [NNext]_rbacVars PROVE TypeInv'  OBVIOUS
<1>1. CASE UNCHANGED rbacVars  BY <1>1 DEF rbacVars, TypeInv, NTypeOK
<1>2. ASSUME NEW p \in Pass, Reconcile(p) PROVE TypeInv'
  BY <1>2, ReadsTyped, MovesTyped, WritesTyped, ListTyped, StatusTyped DEF Reconcile, Pair, Cleanup
<1>. QED  BY <1>1, <1>2, OutsideTyped DEF NNext

------------------------------------------------------------------------------
(***************************************************************************)
(* The status of the settings.                                             *)
(***************************************************************************)
LEMMA ReadyInductive == ReadyIsCurrent /\ TypeInv /\ [NNext]_rbacVars => ReadyIsCurrent'
<1>. SUFFICES ASSUME ReadyIsCurrent, TypeInv, [NNext]_rbacVars PROVE ReadyIsCurrent'  OBVIOUS
<1>0. config \in Config  BY DEF TypeInv, NTypeOK
<1>1. CASE UNCHANGED config  BY <1>1 DEF ReadyIsCurrent
<1>2. ASSUME NEW p \in Pass, Claim(p) \/ WriteError(p) \/ Finish(p) PROVE ReadyIsCurrent'
  BY <1>0, <1>2 DEF Claim, WriteError, Finish, WriteStatus, SameRevision, ReadyIsCurrent, Config
<1>3. ASSUME NEW enabled \in BOOLEAN, SaveSettings(enabled) PROVE ReadyIsCurrent'
  BY <1>3 DEF SaveSettings, ReadyIsCurrent
<1>4. ASSUME NEW p \in Pass, Reconcile(p), ~(Claim(p) \/ WriteError(p) \/ Finish(p)) PROVE UNCHANGED config
  BY <1>4 DEF Reconcile, Begin, List, Plan, Pair, Cleanup, Throw, Crash, Check, Recheck, Guard, Advance,
              ReadRole, ReadBinding, Unbind, WriteRole, Bind, ListBindings, Prune, ReadStale, Revoke,
              RemoveRole, WriteBinding, WriteRules
<1>5. ASSUME NEW u \in User, NEW rights \in Rules, ChangeGrant(u, rights) \/ TimePasses(u, rights)
      PROVE  UNCHANGED config
  BY <1>5 DEF ChangeGrant, TimePasses, Entitled
<1>. QED  BY <1>1, <1>2, <1>3, <1>4, <1>5 DEF NNext, rbacVars

------------------------------------------------------------------------------
(***************************************************************************)
(* What a pass that has been alone has achieved so far.                    *)
(***************************************************************************)
\* u was entitled to different things while p ran.
Moved(p, u) == \E a, b \in pass[p].held[u] : a # b

\* Nobody else is at work.
AloneInv(p) == Working(p) /\ \A q \in Pass \ {p} : ~Working(q)

\* The history knows what is and what was listed; a change of version is a change.
HeldInv(p) == \A u \in User :
  /\ account[u].rights \in pass[p].held[u] /\ pass[p].snapshot[u].rights \in pass[p].held[u]
  /\ SameVersion(p, u) \/ Moved(p, u)

\* What it has read is still so, and what it is to write is allowed.
PairInv(p) ==
  /\ pass[p].pc \in PairPc => pass[p].user \in pass[p].desired /\ pass[p].plan \in pass[p].held[pass[p].user]
  /\ pass[p].pc \in PrunePc => pass[p].user \notin pass[p].desired
  /\ pass[p].pc \in {"binding", "unbind", "write"} => pass[p].seen = role[pass[p].user]
  /\ pass[p].pc \in {"recheck", "bind"} => role[pass[p].user] = pass[p].plan

\* The users it has planned for, up to the one it is at, have what they should.
DesiredInv(p) == \A u \in pass[p].desired :
  /\ u \notin pass[p].todo
  /\ (pass[p].pc \in PairPc /\ u = pass[p].user) \/ Access(u) \in pass[p].held[u]

\* The others need nothing, and lose what they have.
OthersInv(p) == \A u \in User \ pass[p].desired :
  /\ \/ pass[p].pc \in {"users"} \union PairPc /\ u \in pass[p].todo
     \/ 0 \in pass[p].held[u] \/ Moved(p, u)
  /\ pass[p].pc \in {"prune"} \union PrunePc /\ bound[u] =>
       u \in pass[p].todo \/ (u = pass[p].user /\ pass[p].pc \in {"guard", "stale", "revoke"})

Achieved(p) == AloneInv(p) /\ HeldInv(p) /\ PairInv(p) /\ DesiredInv(p) /\ OthersInv(p)

AppliedInv == \A p \in Pass : pass[p].alone => Achieved(p)

LEMMA InitAchieves == NInit => AppliedInv
BY DEF NInit, AppliedInv, Idle

\* A step that leaves the grants and the history alone leaves HeldInv.
LEMMA SameHeld ==
  ASSUME NEW p \in Pass, HeldInv(p), account' = account, pass'[p].held = pass[p].held,
         pass'[p].snapshot = pass[p].snapshot
  PROVE  HeldInv(p)'
BY DEF HeldInv, SameVersion, Moved

\* A pass that does nothing keeps what it has achieved while the objects stay.
LEMMA UntouchedKeeps ==
  ASSUME NEW p \in Pass, Achieved(p), pass'[p] = pass[p], UNCHANGED <<account, role, bound>>,
         \A q \in Pass \ {p} : Working(q)' => Working(q)
  PROVE  Achieved(p)'
<1>1. HeldInv(p)'  BY SameHeld DEF Achieved
<1>2. AloneInv(p)'  BY DEF Achieved, AloneInv, Working
<1>3. PairInv(p)' /\ DesiredInv(p)' /\ OthersInv(p)'
  BY DEF Achieved, PairInv, DesiredInv, OthersInv, Access, Moved
<1>. QED  BY <1>1, <1>2, <1>3 DEF Achieved

\* Whoever is not at work touches nothing.
LEMMA OthersRest ==
  ASSUME TypeInv, AppliedInv, NEW p \in Pass, NEW q \in Pass \ {p}, Reconcile(q), pass'[p].alone
  PROVE  Achieved(p)'
<1>0. pass \in [Pass -> Local]  BY DEF TypeInv, NTypeOK
<1>1. ~List(q)
  <2>1. List(q) => pass'[p] = [pass[p] EXCEPT !.alone = FALSE]  BY DEF List
  <2>2. [pass[p] EXCEPT !.alone = FALSE].alone = FALSE  BY <1>0 DEF Local
  <2>. QED  BY <2>1, <2>2
<1>2. \A r \in Pass \ {q} : pass'[r].alone = pass[r].alone
  <2>2. CASE \E l : Goto(q, l)  BY <1>0, <2>2 DEF Goto
  <2>3. CASE \E to, exists, rules : WriteBinding(q, exists, to) \/ WriteRules(q, rules, to)
    <3>. SUFFICES ASSUME NEW r \in Pass \ {q} PROVE pass'[r].alone = pass[r].alone  OBVIOUS
    <3>1. \/ pass'[r] = [pass[r] EXCEPT !.boundFresh = @ /\ pass[r].user # pass[q].user]
          \/ pass'[r] = [pass[r] EXCEPT !.roleFresh = @ /\ pass[r].user # pass[q].user]
      BY <2>3 DEF WriteBinding, WriteRules
    <3>. QED  BY <1>0, <3>1 DEF Local
  <2>. QED
    BY <1>1, <2>2, <2>3 DEF Reconcile, Begin, Claim, Plan, Pair, Cleanup, Finish, Throw, WriteError, Crash, Check,
         Recheck, Guard, Advance, ReadRole, ReadBinding, Unbind, WriteRole, Bind, ListBindings, Prune,
         ReadStale, Revoke, RemoveRole
<1>3. Achieved(p)  BY <1>2 DEF AppliedInv
<1>4. pass[q].pc \in {"idle", "claim", "list", "error"}  BY <1>3 DEF Achieved, AloneInv, Working
<1>5. PICK l : Goto(q, l) /\ l.pc \in {"idle", "claim", "list", "error"} /\ UNCHANGED <<account, role, bound>>
  <2>1. /\ [Idle EXCEPT !.pc = "claim", !.revision = config.revision].pc = "claim"
        /\ Failed(q).pc = "error"
        /\ [pass[q] EXCEPT !.pc = "list"].pc = "list" /\ Idle.pc = "idle"
    BY <1>0 DEF Idle, Failed, Local
  <2>2. CASE Begin(q) \/ Claim(q) \/ Throw(q) \/ WriteError(q) \/ Crash(q)
    BY <2>1, <2>2 DEF Begin, Claim, Throw, WriteError, Crash
  <2>. QED
    BY <1>1, <1>4, <2>2 DEF Reconcile, Plan, Pair, Cleanup, Finish, Check, Recheck, Guard, Advance,
         ReadRole, ReadBinding, Unbind, WriteRole, Bind, ListBindings, Prune, ReadStale, Revoke, RemoveRole
<1>6. pass'[q] = l /\ \A r \in Pass \ {q} : pass'[r] = pass[r]  BY <1>0, <1>5 DEF Goto
<1>. QED  BY <1>3, <1>5, <1>6, UntouchedKeeps DEF Working

\* A step of the pass itself, from what it has achieved to the next.
LEMMA OwnStep ==
  ASSUME NEW p \in Pass, Achieved(p), account' = account,
         pass'[p].held = pass[p].held, pass'[p].snapshot = pass[p].snapshot,
         Working(p)', \A q \in Pass \ {p} : pass'[q].pc = pass[q].pc,
         PairInv(p)', DesiredInv(p)', OthersInv(p)'
  PROVE  Achieved(p)'
<1>1. HeldInv(p)'  BY SameHeld DEF Achieved
<1>2. AloneInv(p)'  BY DEF Achieved, AloneInv, Working
<1>. QED  BY <1>1, <1>2 DEF Achieved

\* While the users are gone through, only who is left to go through matters.
LEMMA SameOthers ==
  ASSUME NEW p \in Pass, OthersInv(p), pass[p].pc \in {"users"} \union PairPc,
         pass'[p].pc \in {"users"} \union PairPc, pass'[p].todo = pass[p].todo,
         pass'[p].desired = pass[p].desired, pass'[p].held = pass[p].held
  PROVE  OthersInv(p)'
<1>1. pass'[p].pc \notin {"prune"} \union PrunePc  BY DEF PairPc, PrunePc
<1>. QED  BY <1>1 DEF OthersInv, Moved

LEMMA ListAchieves ==
  ASSUME TypeInv, NEW p \in Pass, List(p), pass'[p].alone
  PROVE  Achieved(p)'
<1>0. pass \in [Pass -> Local] /\ account \in [User -> Account]  BY DEF TypeInv, NTypeOK
<1>1. PICK unlisted \in SUBSET {u \in User : account[u].rights = 0} :
        pass' = [q \in Pass |->
          CASE q = p -> [pass[p] EXCEPT !.pc = "users", !.snapshot = account, !.todo = User \ unlisted,
                                        !.desired = {}, !.alone = \A r \in Pass : ~Working(r),
                                        !.held = [u \in User |-> {account[u].rights}]]
            [] q # p -> [pass[q] EXCEPT !.alone = FALSE]]
  BY DEF List
<1>2. /\ pass'[p].pc = "users" /\ pass'[p].snapshot = account /\ pass'[p].todo = User \ unlisted
      /\ pass'[p].held = [u \in User |-> {account[u].rights}] /\ pass'[p].desired = {}
      /\ pass'[p].alone = \A r \in Pass : ~Working(r)
  <2>1. pass'[p] = [pass[p] EXCEPT !.pc = "users", !.snapshot = account, !.todo = User \ unlisted,
                                   !.desired = {}, !.alone = \A r \in Pass : ~Working(r),
                                   !.held = [u \in User |-> {account[u].rights}]]
    BY <1>1
  <2>. QED  BY <1>0, <2>1 DEF Local
<1>3. account' = account  BY DEF List
<1>4. \A q \in Pass \ {p} : pass'[q].pc = pass[q].pc
  <2>1. \A q \in Pass \ {p} : pass'[q] = [pass[q] EXCEPT !.alone = FALSE]  BY <1>1
  <2>. QED  BY <1>0, <2>1 DEF Local
<1>5. AloneInv(p)'  BY <1>2, <1>4 DEF AloneInv, Working
<1>6. HeldInv(p)'  BY <1>2, <1>3 DEF HeldInv, SameVersion
<1>7. PairInv(p)' /\ DesiredInv(p)' /\ OthersInv(p)'
  BY <1>2 DEF PairInv, DesiredInv, OthersInv, PairPc, PrunePc
<1>. QED  BY <1>5, <1>6, <1>7 DEF Achieved

LEMMA PlanAchieves ==
  ASSUME TypeInv, NEW p \in Pass, Achieved(p), NEW u \in User, Plan(p, u)
  PROVE  Achieved(p)'
<1>0. pass \in [Pass -> Local] /\ HeldInv(p)  BY DEF TypeInv, NTypeOK, Achieved
<1>1. PICK rules \in Effective(p, u) :
        Goto(p, IF rules = 0
                  THEN [pass[p] EXCEPT !.todo = @ \ {u}]
                  ELSE [pass[p] EXCEPT !.todo = @ \ {u}, !.desired = @ \union {u}, !.pc = "check",
                                       !.user = u, !.plan = rules])
  BY DEF Plan
<1>2. /\ pass[p].pc = "users" /\ u \in pass[p].todo /\ UNCHANGED <<account, role, bound>>
      /\ \A q \in Pass \ {p} : pass'[q].pc = pass[q].pc
  BY <1>0, <1>1 DEF Plan, Goto
\* What was planned is what u had, or what u has; nothing only if u has or had nothing, or it changed.
<1>3. (rules \in pass[p].held[u] \/ rules = 0) /\ (rules = 0 => 0 \in pass[p].held[u] \/ Moved(p, u))
  BY <1>0 DEF HeldInv, Effective
<1>4. CASE rules = 0
  <2>1. /\ pass'[p].pc = "users" /\ pass'[p].todo = pass[p].todo \ {u} /\ pass'[p].desired = pass[p].desired
        /\ pass'[p].held = pass[p].held /\ pass'[p].snapshot = pass[p].snapshot
    BY <1>0, <1>1, <1>2, <1>4 DEF Goto, Local
  <2>2. PairInv(p)' /\ DesiredInv(p)' /\ OthersInv(p)'
    BY <1>2, <1>3, <1>4, <2>1 DEF Achieved, PairInv, DesiredInv, OthersInv, PairPc, PrunePc, Access, Moved
  <2>. QED  BY <1>2, <2>1, <2>2, OwnStep DEF Working
<1>5. CASE rules # 0
  <2>1. /\ pass'[p].pc = "check" /\ pass'[p].todo = pass[p].todo \ {u}
        /\ pass'[p].desired = pass[p].desired \union {u} /\ pass'[p].user = u /\ pass'[p].plan = rules
        /\ pass'[p].held = pass[p].held /\ pass'[p].snapshot = pass[p].snapshot
    BY <1>0, <1>1, <1>5 DEF Goto, Local
  <2>2. PairInv(p)' /\ DesiredInv(p)' /\ OthersInv(p)'
    BY <1>2, <1>3, <1>5, <2>1 DEF Achieved, PairInv, DesiredInv, OthersInv, PairPc, PrunePc, Access, Moved
  <2>. QED  BY <1>2, <2>1, <2>2, OwnStep DEF Working
<1>. QED  BY <1>4, <1>5

\* What Step makes of the variables the invariant speaks of.
LEMMA StepFields ==
  ASSUME NEW l \in Local, NEW to \in Pcs
  PROVE  /\ Step(l, to).pc = to /\ Step(l, to).todo = l.todo /\ Step(l, to).desired = l.desired
         /\ Step(l, to).held = l.held /\ Step(l, to).snapshot = l.snapshot
         /\ to \notin {"users", "prune"} =>
              Step(l, to).user = l.user /\ Step(l, to).plan = l.plan /\ Step(l, to).seen = l.seen
BY DEF Step, Local, Pcs, PairPc, PrunePc

LEMMA AdvanceAchieves ==
  ASSUME TypeInv, NEW p \in Pass, Achieved(p), Check(p) \/ Recheck(p) \/ Guard(p)
  PROVE  Achieved(p)'
<1>0. pass \in [Pass -> Local] /\ pass[p] \in Local  BY DEF TypeInv, NTypeOK
<1>1. ASSUME NEW from \in Pcs, NEW to \in {"role", "bind", "stale"}, NEW condition, Advance(p, from, condition, to)
      PROVE  /\ pass[p].pc = from /\ pass'[p].pc = to /\ pass'[p].todo = pass[p].todo
             /\ pass'[p].desired = pass[p].desired /\ pass'[p].held = pass[p].held
             /\ pass'[p].snapshot = pass[p].snapshot /\ pass'[p].user = pass[p].user
             /\ pass'[p].plan = pass[p].plan /\ pass'[p].seen = pass[p].seen
             /\ UNCHANGED <<account, role, bound>>
             /\ \A q \in Pass \ {p} : pass'[q].pc = pass[q].pc
  <2>1. to \in Pcs /\ to \notin {"users", "prune"}  BY DEF Pcs, PairPc, PrunePc
  <2>2. pass'[p] = Step(pass[p], to) /\ \A q \in Pass \ {p} : pass'[q] = pass[q]
    BY <1>0, <1>1 DEF Advance, Goto
  <2>. QED  BY <1>0, <1>1, <2>1, <2>2, StepFields DEF Advance
<1>2. {"check", "recheck", "guard"} \subseteq Pcs  BY DEF Pcs, PairPc, PrunePc
<1>3. CASE Check(p)
  <2>1. PairInv(p)' /\ DesiredInv(p)' /\ OthersInv(p)'
    BY <1>1, <1>2, <1>3 DEF Check, Achieved, PairInv, DesiredInv, OthersInv, PairPc, PrunePc, Access, Moved
  <2>. QED  BY <1>1, <1>2, <1>3, <2>1, OwnStep DEF Check, Working
<1>4. CASE Recheck(p)
  <2>1. PairInv(p)' /\ DesiredInv(p)' /\ OthersInv(p)'
    BY <1>1, <1>2, <1>4 DEF Recheck, Achieved, PairInv, DesiredInv, OthersInv, PairPc, PrunePc, Access, Moved
  <2>. QED  BY <1>1, <1>2, <1>4, <2>1, OwnStep DEF Recheck, Working
<1>5. CASE Guard(p)
  <2>1. PairInv(p)' /\ DesiredInv(p)' /\ OthersInv(p)'
    BY <1>1, <1>2, <1>5 DEF Guard, Achieved, PairInv, DesiredInv, OthersInv, PairPc, PrunePc, Access, Moved
  <2>. QED  BY <1>1, <1>2, <1>5, <2>1, OwnStep DEF Guard, Working
<1>. QED  BY <1>3, <1>4, <1>5

LEMMA ReadRoleAchieves ==
  ASSUME TypeInv, NEW p \in Pass, Achieved(p),
         ReadRole(p, "role", "binding") \/ ReadRole(p, "orphan", "remove")
  PROVE  Achieved(p)'
<1>0. pass \in [Pass -> Local]  BY DEF TypeInv, NTypeOK
<1>1. /\ pass'[p].todo = pass[p].todo /\ pass'[p].desired = pass[p].desired
      /\ pass'[p].held = pass[p].held /\ pass'[p].snapshot = pass[p].snapshot
      /\ pass'[p].user = pass[p].user /\ pass'[p].plan = pass[p].plan /\ pass'[p].seen = role[pass[p].user]
      /\ UNCHANGED <<account, role, bound>>
      /\ \A q \in Pass \ {p} : pass'[q].pc = pass[q].pc
      /\ \/ pass[p].pc = "role" /\ pass'[p].pc = "binding"
         \/ pass[p].pc = "orphan" /\ pass'[p].pc = "remove"
  <2>1. PICK to \in {"binding", "remove"} :
          /\ pass'[p] = [pass[p] EXCEPT !.pc = to, !.seen = role[pass[p].user], !.roleFresh = TRUE]
          /\ \A q \in Pass \ {p} : pass'[q] = pass[q]
          /\ pass[p].pc = IF to = "binding" THEN "role" ELSE "orphan"
          /\ UNCHANGED <<account, role, bound>>
    BY <1>0 DEF ReadRole, Goto
  <2>2. pass[p] \in Local  BY <1>0
  <2>. QED  BY <2>1, <2>2 DEF Local
<1>2. PairInv(p)' /\ DesiredInv(p)' /\ OthersInv(p)'
  BY <1>1 DEF Achieved, PairInv, DesiredInv, OthersInv, PairPc, PrunePc, Access, Moved
<1>. QED  BY <1>1, <1>2, OwnStep DEF Working

\* The pair is left as it is only if the user has it as planned.
LEMMA ReadBindingAchieves ==
  ASSUME TypeInv, NEW p \in Pass, Achieved(p), ReadBinding(p)
  PROVE  Achieved(p)'
<1>0. pass \in [Pass -> Local] /\ pass[p] \in Local /\ bound \in [User -> BOOLEAN]
      /\ pass[p].pc = "binding" /\ pass[p].user \in User
  BY DEF TypeInv, NTypeOK, ReadBinding, PairPc
<1> DEFINE present == bound[pass[p].user]
           to == IF present THEN IF RoleMatches(p) THEN "users" ELSE "unbind"
                            ELSE IF RoleMatches(p) THEN "recheck" ELSE "write"
           l == [pass[p] EXCEPT !.boundFresh = present]
<1>1. /\ l \in Local /\ l.todo = pass[p].todo /\ l.desired = pass[p].desired /\ l.held = pass[p].held
      /\ l.snapshot = pass[p].snapshot /\ l.user = pass[p].user /\ l.plan = pass[p].plan /\ l.seen = pass[p].seen
  BY <1>0 DEF Local
<1>2. /\ pass'[p] = Step(l, to) /\ UNCHANGED <<account, role, bound>>
      /\ \A q \in Pass \ {p} : pass'[q].pc = pass[q].pc
  BY <1>0 DEF ReadBinding, Goto
<1> HIDE DEF l
<1>3. /\ pass'[p].pc = to /\ pass'[p].todo = pass[p].todo /\ pass'[p].desired = pass[p].desired
      /\ pass'[p].held = pass[p].held /\ pass'[p].snapshot = pass[p].snapshot
      /\ to # "users" =>
           pass'[p].user = pass[p].user /\ pass'[p].plan = pass[p].plan /\ pass'[p].seen = pass[p].seen
  BY <1>1, <1>2, StepFields DEF Pcs, PairPc
<1>4. PairInv(p)' /\ DesiredInv(p)' /\ OthersInv(p)'
  <2>0. pass[p].pc \in {"users"} \union PairPc  BY <1>0 DEF PairPc
  <2>1. /\ pass[p].seen = role[pass[p].user] /\ pass[p].user \in pass[p].desired
        /\ pass[p].plan \in pass[p].held[pass[p].user]
    BY <1>0 DEF Achieved, PairInv, PairPc
  <2>2. CASE to = "users"
    <3>1. bound[pass[p].user] /\ role[pass[p].user] = pass[p].plan  BY <2>1, <2>2 DEF RoleMatches
    <3>2. PairInv(p)'  BY <1>3, <2>2 DEF PairInv, PairPc, PrunePc
    <3>3. DesiredInv(p)'
      BY <1>0, <1>2, <1>3, <2>1, <2>2, <3>1 DEF Achieved, DesiredInv, PairPc, Access
    <3>4. OthersInv(p)'
      BY <1>3, <2>0, <2>2, SameOthers DEF Achieved, PairPc
    <3>. QED  BY <3>2, <3>3, <3>4
  <2>3. CASE to = "recheck"
    <3>1. role[pass[p].user] = pass[p].plan  BY <2>1, <2>3 DEF RoleMatches
    <3>2. PairInv(p)'
      BY <1>0, <1>2, <1>3, <2>1, <2>3, <3>1 DEF Achieved, PairInv, PairPc, PrunePc
    <3>3. DesiredInv(p)'
      BY <1>0, <1>2, <1>3, <2>3 DEF Achieved, DesiredInv, PairPc, Access
    <3>4. OthersInv(p)'
      BY <1>3, <2>0, <2>3, SameOthers DEF Achieved, PairPc
    <3>. QED  BY <3>2, <3>3, <3>4
  <2>4. CASE to \in {"unbind", "write"}
    <3>1. PairInv(p)'
      BY <1>0, <1>2, <1>3, <2>1, <2>4 DEF Achieved, PairInv, PairPc, PrunePc
    <3>2. DesiredInv(p)'
      BY <1>0, <1>2, <1>3, <2>4 DEF Achieved, DesiredInv, PairPc, Access
    <3>3. OthersInv(p)'
      BY <1>3, <2>0, <2>4, SameOthers DEF Achieved, PairPc
    <3>. QED  BY <3>1, <3>2, <3>3
  <2>. QED  BY <2>2, <2>3, <2>4
<1>5. Working(p)'  BY <1>3 DEF Working
<1>. QED  BY <1>2, <1>3, <1>4, <1>5, OwnStep

\* What writing an object does to the variables the invariant speaks of.
LEMMA WriteFields ==
  ASSUME TypeInv, NEW p \in Pass, NEW to \in Pcs, NEW exists \in BOOLEAN, NEW rules \in Rules,
         WriteBinding(p, exists, to) \/ WriteRules(p, rules, to)
  PROVE  /\ pass'[p].pc = to /\ pass'[p].todo = pass[p].todo /\ pass'[p].desired = pass[p].desired
         /\ pass'[p].held = pass[p].held /\ pass'[p].snapshot = pass[p].snapshot
         /\ to \notin {"users", "prune"} => pass'[p].user = pass[p].user /\ pass'[p].plan = pass[p].plan
         /\ account' = account
         /\ \A q \in Pass \ {p} : pass'[q].pc = pass[q].pc
<1>0. pass \in [Pass -> Local] /\ pass[p] \in Local  BY DEF TypeInv, NTypeOK
<1>1. PICK l \in {[pass[p] EXCEPT !.boundFresh = FALSE], [pass[p] EXCEPT !.roleFresh = FALSE]} :
        pass'[p] = Step(l, to)
  BY DEF WriteBinding, WriteRules
<1>2. /\ l.todo = pass[p].todo /\ l.desired = pass[p].desired /\ l.held = pass[p].held
      /\ l.snapshot = pass[p].snapshot /\ l.user = pass[p].user /\ l.plan = pass[p].plan
  BY <1>0 DEF Local
<1>3. l \in Local  BY <1>0, FlagsTyped
<1>4. ASSUME NEW q \in Pass \ {p} PROVE pass'[q].pc = pass[q].pc
  <2>1. \/ pass'[q] = [pass[q] EXCEPT !.boundFresh = @ /\ pass[q].user # pass[p].user]
        \/ pass'[q] = [pass[q] EXCEPT !.roleFresh = @ /\ pass[q].user # pass[p].user]
    BY DEF WriteBinding, WriteRules
  <2>2. pass[q] \in Local  BY <1>0
  <2>. QED  BY <2>1, <2>2 DEF Local
<1>5. account' = account  BY DEF WriteBinding, WriteRules
<1>. QED  BY <1>1, <1>2, <1>3, <1>4, <1>5, StepFields

LEMMA WriteAchieves ==
  ASSUME TypeInv, NEW p \in Pass, Achieved(p),
         Unbind(p) \/ WriteRole(p) \/ Bind(p) \/ Revoke(p) \/ RemoveRole(p)
  PROVE  Achieved(p)'
<1>0. /\ pass \in [Pass -> Local] /\ bound \in [User -> BOOLEAN] /\ role \in [User -> Rules]
      /\ pass[p] \in Local /\ pass[p].plan \in Rules /\ 0 \in Rules
      /\ pass[p].desired \subseteq User
  BY RbacAssumption DEF TypeInv, NTypeOK, Local, Rules
<1>u. pass[p].user \in User
  BY DEF TypeInv, Unbind, WriteRole, Bind, Revoke, RemoveRole, PairPc, PrunePc
<1>p. {"users", "prune", "write", "recheck", "orphan"} \subseteq Pcs  BY DEF Pcs, PairPc, PrunePc
<1>1. CASE Unbind(p)
  <2>1. ~RoleMatches(p) \/ role[pass[p].user] = pass[p].plan
    BY <1>1 DEF Unbind, Achieved, PairInv, RoleMatches
  <2>2. PICK to \in {"write", "recheck"} :
          /\ WriteBinding(p, FALSE, to) /\ pass[p].pc = "unbind"
          /\ to = "recheck" => role[pass[p].user] = pass[p].plan
    BY <1>1, <2>1 DEF Unbind
  <2>3. bound' = [bound EXCEPT ![pass[p].user] = FALSE] /\ role' = role  BY <2>2 DEF WriteBinding
  <2>4. pass'[p].seen = pass[p].seen
    <3> DEFINE l == [pass[p] EXCEPT !.boundFresh = FALSE]
    <3>1. pass'[p] = Step(l, to)  BY <1>0, <2>2 DEF WriteBinding
    <3>2. l \in Local /\ l.seen = pass[p].seen  BY <1>0 DEF Local
    <3>3. to \in Pcs /\ to \notin {"users", "prune"}  BY <1>p, <2>2
    <3> HIDE DEF l
    <3>. QED  BY <3>1, <3>2, <3>3, StepFields
  <2>5. /\ pass'[p].pc = to /\ pass'[p].todo = pass[p].todo /\ pass'[p].desired = pass[p].desired
        /\ pass'[p].held = pass[p].held /\ pass'[p].snapshot = pass[p].snapshot
        /\ pass'[p].user = pass[p].user /\ pass'[p].plan = pass[p].plan /\ account' = account
        /\ \A q \in Pass \ {p} : pass'[q].pc = pass[q].pc
    BY <1>0, <1>p, <2>2, WriteFields
  <2>6. PairInv(p)' /\ DesiredInv(p)' /\ OthersInv(p)'
    BY <1>0, <1>u, <2>2, <2>3, <2>4, <2>5 DEF Achieved, PairInv, DesiredInv, OthersInv, PairPc, PrunePc, Access, Moved
  <2>. QED  BY <2>5, <2>6, OwnStep DEF Working
<1>2. CASE WriteRole(p)
  <2>1. WriteRules(p, pass[p].plan, "recheck") /\ pass[p].pc = "write"  BY <1>2 DEF WriteRole
  <2>2. role' = [role EXCEPT ![pass[p].user] = pass[p].plan] /\ bound' = bound  BY <2>1 DEF WriteRules
  <2>3. /\ pass'[p].pc = "recheck" /\ pass'[p].todo = pass[p].todo /\ pass'[p].desired = pass[p].desired
        /\ pass'[p].held = pass[p].held /\ pass'[p].snapshot = pass[p].snapshot
        /\ pass'[p].user = pass[p].user /\ pass'[p].plan = pass[p].plan /\ account' = account
        /\ \A q \in Pass \ {p} : pass'[q].pc = pass[q].pc
    BY <1>0, <1>p, <2>1, WriteFields
  <2>4. PairInv(p)' /\ DesiredInv(p)' /\ OthersInv(p)'
    BY <1>0, <1>u, <2>1, <2>2, <2>3 DEF Achieved, PairInv, DesiredInv, OthersInv, PairPc, PrunePc, Access, Moved
  <2>. QED  BY <2>3, <2>4, OwnStep DEF Working
<1>3. CASE Bind(p)
  <2>1. WriteBinding(p, TRUE, "users") /\ pass[p].pc = "bind"  BY <1>3 DEF Bind
  <2>2. bound' = [bound EXCEPT ![pass[p].user] = TRUE] /\ role' = role  BY <2>1 DEF WriteBinding
  <2>3. /\ pass'[p].pc = "users" /\ pass'[p].todo = pass[p].todo /\ pass'[p].desired = pass[p].desired
        /\ pass'[p].held = pass[p].held /\ pass'[p].snapshot = pass[p].snapshot /\ account' = account
        /\ \A q \in Pass \ {p} : pass'[q].pc = pass[q].pc
    BY <1>0, <1>p, <2>1, WriteFields
  <2>4. PairInv(p)' /\ DesiredInv(p)' /\ OthersInv(p)'
    BY <1>0, <1>u, <2>1, <2>2, <2>3 DEF Achieved, PairInv, DesiredInv, OthersInv, PairPc, PrunePc, Access, Moved
  <2>. QED  BY <2>3, <2>4, OwnStep DEF Working
<1>4. CASE Revoke(p)
  <2>1. WriteBinding(p, FALSE, "orphan") /\ pass[p].pc = "revoke"  BY <1>4 DEF Revoke
  <2>2. bound' = [bound EXCEPT ![pass[p].user] = FALSE] /\ role' = role  BY <2>1 DEF WriteBinding
  <2>3. /\ pass'[p].pc = "orphan" /\ pass'[p].todo = pass[p].todo /\ pass'[p].desired = pass[p].desired
        /\ pass'[p].held = pass[p].held /\ pass'[p].snapshot = pass[p].snapshot
        /\ pass'[p].user = pass[p].user /\ account' = account
        /\ \A q \in Pass \ {p} : pass'[q].pc = pass[q].pc
    BY <1>0, <1>p, <2>1, WriteFields
  <2>4. PairInv(p)' /\ DesiredInv(p)' /\ OthersInv(p)'
    BY <1>0, <1>u, <2>1, <2>2, <2>3 DEF Achieved, PairInv, DesiredInv, OthersInv, PairPc, PrunePc, Access, Moved
  <2>. QED  BY <2>3, <2>4, OwnStep DEF Working
<1>5. CASE RemoveRole(p)
  <2>0. pass[p].pc = "remove" /\ pass[p].user \notin pass[p].desired
    BY <1>5 DEF RemoveRole, Achieved, PairInv, PrunePc
  <2>1. /\ bound' = bound /\ \A u \in User \ {pass[p].user} : role'[u] = role[u]
    BY <1>0, <1>5 DEF RemoveRole, WriteRules
  <2>2. /\ pass'[p].pc = "prune" /\ pass'[p].todo = pass[p].todo /\ pass'[p].desired = pass[p].desired
        /\ pass'[p].held = pass[p].held /\ pass'[p].snapshot = pass[p].snapshot /\ account' = account
        /\ \A q \in Pass \ {p} : pass'[q].pc = pass[q].pc
    <3>1. CASE pass[p].seen = 0
      <4>1. pass'[p] = Step(pass[p], "prune") /\ account' = account /\ \A q \in Pass \ {p} : pass'[q] = pass[q]
        BY <1>0, <1>5, <3>1 DEF RemoveRole, Goto
      <4>. QED  BY <1>0, <1>p, <4>1, StepFields
    <3>2. CASE pass[p].seen # 0
      <4>1. WriteRules(p, 0, "prune")  BY <1>5, <3>2 DEF RemoveRole
      <4>. QED  BY <1>0, <1>p, <4>1, WriteFields
    <3>. QED  BY <3>1, <3>2
  <2>3. PairInv(p)' /\ DesiredInv(p)' /\ OthersInv(p)'
    BY <1>0, <1>u, <2>0, <2>1, <2>2 DEF Achieved, PairInv, DesiredInv, OthersInv, PairPc, PrunePc, Access, Moved
  <2>. QED  BY <2>2, <2>3, OwnStep DEF Working
<1>. QED  BY <1>1, <1>2, <1>3, <1>4, <1>5

LEMMA CleanupAchieves ==
  ASSUME TypeInv, NEW p \in Pass, Achieved(p),
         ListBindings(p) \/ ReadStale(p) \/ \E u \in User : Prune(p, u)
  PROVE  Achieved(p)'
<1>0. pass \in [Pass -> Local] /\ pass[p] \in Local /\ bound \in [User -> BOOLEAN]  BY DEF TypeInv, NTypeOK
<1>1. CASE ListBindings(p)
  <2>1. /\ pass[p].pc = "users" /\ pass[p].todo = {} /\ UNCHANGED <<account, role, bound>>
        /\ pass'[p] = [pass[p] EXCEPT !.pc = "prune", !.todo = Stale(p)]
        /\ \A q \in Pass \ {p} : pass'[q] = pass[q]
    BY <1>0, <1>1 DEF ListBindings, Goto
  <2>2. /\ pass'[p].pc = "prune" /\ pass'[p].todo = Stale(p) /\ pass'[p].desired = pass[p].desired
        /\ pass'[p].held = pass[p].held /\ pass'[p].snapshot = pass[p].snapshot
    BY <1>0, <2>1 DEF Local
  <2>3. PairInv(p)' /\ DesiredInv(p)' /\ OthersInv(p)'
    BY <2>1, <2>2 DEF Stale, Achieved, PairInv, DesiredInv, OthersInv, PairPc, PrunePc, Access, Moved
  <2>. QED  BY <2>1, <2>2, <2>3, OwnStep DEF Working
<1>2. CASE ReadStale(p)
  <2>0. pass[p].user \in User  BY <1>2 DEF ReadStale, TypeInv, PrunePc
  <2>1. /\ pass[p].pc = "stale" /\ UNCHANGED <<account, role, bound>>
        /\ pass'[p] = [pass[p] EXCEPT !.boundFresh = bound[pass[p].user],
                                      !.pc = IF bound[pass[p].user] THEN "revoke" ELSE "orphan"]
        /\ \A q \in Pass \ {p} : pass'[q] = pass[q]
    BY <1>0, <1>2 DEF ReadStale, Goto
  <2>2. /\ pass'[p].pc = (IF bound[pass[p].user] THEN "revoke" ELSE "orphan")
        /\ pass'[p].todo = pass[p].todo /\ pass'[p].desired = pass[p].desired
        /\ pass'[p].held = pass[p].held /\ pass'[p].snapshot = pass[p].snapshot
        /\ pass'[p].user = pass[p].user
    BY <1>0, <2>1 DEF Local
  <2>3. PairInv(p)' /\ DesiredInv(p)' /\ OthersInv(p)'
    BY <2>0, <2>1, <2>2 DEF Achieved, PairInv, DesiredInv, OthersInv, PairPc, PrunePc, Access, Moved
  <2>. QED  BY <2>1, <2>2, <2>3, OwnStep DEF Working
<1>3. ASSUME NEW u \in User, Prune(p, u) PROVE Achieved(p)'
  <2>1. /\ pass[p].pc = "prune" /\ u \in pass[p].todo /\ UNCHANGED <<account, role, bound>>
        /\ pass'[p] = [pass[p] EXCEPT !.pc = "guard", !.user = u, !.todo = pass[p].todo \ {u}]
        /\ \A q \in Pass \ {p} : pass'[q] = pass[q]
    BY <1>0, <1>3 DEF Prune, Goto
  <2>2. /\ pass'[p].pc = "guard" /\ pass'[p].todo = pass[p].todo \ {u} /\ pass'[p].desired = pass[p].desired
        /\ pass'[p].held = pass[p].held /\ pass'[p].snapshot = pass[p].snapshot /\ pass'[p].user = u
    BY <1>0, <2>1 DEF Local
  <2>3. PairInv(p)' /\ DesiredInv(p)' /\ OthersInv(p)'
    BY <2>1, <2>2 DEF Achieved, PairInv, DesiredInv, OthersInv, PairPc, PrunePc, Access, Moved
  <2>. QED  BY <2>1, <2>2, <2>3, OwnStep DEF Working
<1>. QED  BY <1>1, <1>2, <1>3

\* A change of what u is entitled to goes into the history of every pass at work.
LEMMA EntitledKeeps ==
  ASSUME TypeInv, NEW p \in Pass, Achieved(p), NEW u \in User, NEW rights \in Rules,
         rights # account[u].rights, NEW version \in 1..MaxVersion, Entitled(u, rights, version)
  PROVE  Achieved(p)'
<1>0. /\ pass \in [Pass -> Local] /\ pass[p] \in Local /\ account \in [User -> Account]
      /\ pass[p].held \in [User -> SUBSET Rules] /\ Working(p) /\ HeldInv(p)
  BY DEF TypeInv, NTypeOK, Local, Achieved, AloneInv
<1> DEFINE held == [pass[p].held EXCEPT ![u] = pass[p].held[u] \union {rights}]
<1>1. held \in [User -> SUBSET Rules]  BY <1>0
<1>2. pass'[p] = [pass[p] EXCEPT !.held = held]
  BY <1>0 DEF Entitled, Local
<1>3. /\ held[u] = pass[p].held[u] \union {rights}
      /\ \A w \in User \ {u} : held[w] = pass[p].held[w]
  BY <1>0
<1> HIDE DEF held
<1>4. /\ pass'[p].held = held /\ pass'[p].pc = pass[p].pc /\ pass'[p].todo = pass[p].todo
      /\ pass'[p].desired = pass[p].desired /\ pass'[p].snapshot = pass[p].snapshot
      /\ pass'[p].user = pass[p].user /\ pass'[p].plan = pass[p].plan /\ pass'[p].seen = pass[p].seen
  BY <1>0, <1>1, <1>2 DEF Local
<1>5. \A q \in Pass : pass'[q].pc = pass[q].pc
  <2>. SUFFICES ASSUME NEW q \in Pass PROVE pass'[q].pc = pass[q].pc  OBVIOUS
  <2>1. pass'[q] = IF Working(q) THEN [pass[q] EXCEPT !.held[u] = @ \union {rights}] ELSE pass[q]
    BY DEF Entitled
  <2>2. pass[q] \in Local  BY <1>0
  <2>. QED  BY <2>1, <2>2 DEF Local
<1>6. /\ account'[u].rights = rights /\ \A w \in User \ {u} : account'[w] = account[w]
      /\ role' = role /\ bound' = bound
  BY <1>0 DEF Entitled
\* The old rights are in the history too.
<1>7. Moved(p, u)'
  BY <1>0, <1>3, <1>4 DEF Moved, HeldInv
<1>8. \A w \in User : pass[p].held[w] \subseteq held[w]  BY <1>3
<1>9. \A w \in User : Moved(p, w) => Moved(p, w)'  BY <1>4, <1>8 DEF Moved
<1>10. AloneInv(p)'  BY <1>5 DEF Achieved, AloneInv, Working
<1>11. HeldInv(p)'
  <2>. SUFFICES ASSUME NEW w \in User
                PROVE  /\ account'[w].rights \in held[w] /\ pass[p].snapshot[w].rights \in held[w]
                       /\ SameVersion(p, w)' \/ Moved(p, w)'
    BY <1>4 DEF HeldInv
  <2>1. CASE w = u  BY <1>0, <1>3, <1>6, <1>7, <2>1 DEF HeldInv
  <2>2. CASE w # u  BY <1>0, <1>3, <1>4, <1>6, <1>9, <2>2 DEF HeldInv, SameVersion
  <2>. QED  BY <2>1, <2>2
<1>12. PairInv(p)'
  <2>1. pass[p].pc \in PairPc \union PrunePc => pass[p].user \in User  BY DEF TypeInv
  <2>. QED  BY <1>4, <1>6, <1>8, <2>1 DEF Achieved, PairInv, PairPc, PrunePc
<1>13. pass[p].desired \subseteq User  BY <1>0 DEF Local
<1>14. DesiredInv(p)'  BY <1>4, <1>6, <1>8, <1>13 DEF Achieved, DesiredInv, Access
<1>15. OthersInv(p)'  BY <1>4, <1>6, <1>8, <1>9 DEF Achieved, OthersInv
<1>. QED  BY <1>10, <1>11, <1>12, <1>14, <1>15 DEF Achieved

\* A pass that ends, fails or has yet to list the users claims nothing.
LEMMA NotAlone ==
  ASSUME TypeInv, AppliedInv, NEW p \in Pass,
         Begin(p) \/ Claim(p) \/ Throw(p) \/ WriteError(p) \/ Finish(p) \/ Crash(p)
  PROVE  pass'[p].alone = FALSE
<1>0. pass \in [Pass -> Local] /\ pass[p] \in Local  BY DEF TypeInv, NTypeOK
<1>1. Idle.alone = FALSE /\ [Idle EXCEPT !.pc = "claim", !.revision = config.revision].alone = FALSE
      /\ Failed(p).alone = FALSE
  BY DEF Idle, Failed
<1>2. pass[p].pc = "claim" => pass[p].alone = FALSE
  BY <1>0 DEF AppliedInv, Achieved, AloneInv, Working, Local
<1>3. [pass[p] EXCEPT !.pc = "list"].alone = pass[p].alone  BY <1>0 DEF Local
<1>. QED  BY <1>0, <1>1, <1>2, <1>3 DEF Begin, Claim, Throw, WriteError, Finish, Crash, Goto

\* At work a pass keeps its claim to have been alone.
LEMMA OwnAlone ==
  ASSUME TypeInv, NEW p \in Pass, Pair(p) \/ Cleanup(p) \/ \E u \in User : Plan(p, u)
  PROVE  pass'[p].alone = pass[p].alone
<1>0. pass \in [Pass -> Local] /\ pass[p] \in Local /\ bound \in [User -> BOOLEAN]
  BY DEF TypeInv, NTypeOK
<1>1. ASSUME NEW l \in Local, NEW to PROVE Step(l, to).alone = l.alone  BY DEF Step, Local
<1>2. ASSUME NEW to, pass'[p] = Step(pass[p], to) PROVE pass'[p].alone = pass[p].alone
  BY <1>0, <1>1, <1>2
<1>3. ASSUME NEW b \in BOOLEAN, NEW to,
             \/ pass'[p] = Step([pass[p] EXCEPT !.boundFresh = b], to)
             \/ pass'[p] = Step([pass[p] EXCEPT !.roleFresh = b], to)
      PROVE  pass'[p].alone = pass[p].alone
  <2>1. PICK l \in {[pass[p] EXCEPT !.boundFresh = b], [pass[p] EXCEPT !.roleFresh = b]} :
          pass'[p] = Step(l, to)
    BY <1>3
  <2>2. l \in Local  BY <1>0, FlagsTyped
  <2>3. l.alone = pass[p].alone  BY <1>0 DEF Local
  <2>. QED  BY <1>1, <2>1, <2>2, <2>3
<1>4. CASE Check(p) \/ Recheck(p) \/ Guard(p) \/ (RemoveRole(p) /\ pass[p].seen = 0)
  <2>1. \E to : pass'[p] = Step(pass[p], to)
    BY <1>0, <1>4 DEF Check, Recheck, Guard, Advance, RemoveRole, Goto
  <2>. QED  BY <1>2, <2>1
<1>5. CASE ReadBinding(p)
  <2>1. bound[pass[p].user] \in BOOLEAN  BY <1>0, <1>5 DEF TypeInv, ReadBinding, PairPc
  <2>2. \E to : pass'[p] = Step([pass[p] EXCEPT !.boundFresh = bound[pass[p].user]], to)
    BY <1>0, <1>5 DEF ReadBinding, Goto
  <2>. QED  BY <1>3, <2>1, <2>2
<1>6. CASE Unbind(p) \/ WriteRole(p) \/ Bind(p) \/ Revoke(p) \/ (RemoveRole(p) /\ pass[p].seen # 0)
  <2>1. \E to, exists, rules : WriteBinding(p, exists, to) \/ WriteRules(p, rules, to)
    BY <1>6 DEF Unbind, WriteRole, Bind, Revoke, RemoveRole
  <2>2. \E to : \/ pass'[p] = Step([pass[p] EXCEPT !.boundFresh = FALSE], to)
                \/ pass'[p] = Step([pass[p] EXCEPT !.roleFresh = FALSE], to)
    BY <2>1 DEF WriteBinding, WriteRules
  <2>. QED  BY <1>3, <2>2
<1>7. CASE ReadRole(p, "role", "binding") \/ ReadRole(p, "orphan", "remove")
  <2>1. PICK to : pass'[p] = [pass[p] EXCEPT !.pc = to, !.seen = role[pass[p].user], !.roleFresh = TRUE]
    BY <1>0, <1>7 DEF ReadRole, Goto
  <2>. QED  BY <1>0, <2>1 DEF Local
<1>8. CASE ListBindings(p)
  <2>1. pass'[p] = [pass[p] EXCEPT !.pc = "prune", !.todo = Stale(p)]  BY <1>0, <1>8 DEF ListBindings, Goto
  <2>. QED  BY <1>0, <2>1 DEF Local
<1>9. CASE ReadStale(p)
  <2>1. PICK to : pass'[p] = [pass[p] EXCEPT !.boundFresh = bound[pass[p].user], !.pc = to]
    BY <1>0, <1>9 DEF ReadStale, Goto
  <2>. QED  BY <1>0, <2>1 DEF Local
<1>10. ASSUME NEW u \in User, Prune(p, u) PROVE pass'[p].alone = pass[p].alone
  <2>1. pass'[p] = [pass[p] EXCEPT !.pc = "guard", !.user = u, !.todo = pass[p].todo \ {u}]
    BY <1>0, <1>10 DEF Prune, Goto
  <2>. QED  BY <1>0, <2>1 DEF Local
<1>11. ASSUME NEW u \in User, Plan(p, u) PROVE pass'[p].alone = pass[p].alone
  <2>1. PICK rules :
          pass'[p] = IF rules = 0
                       THEN [pass[p] EXCEPT !.todo = pass[p].todo \ {u}]
                       ELSE [pass[p] EXCEPT !.todo = pass[p].todo \ {u}, !.desired = pass[p].desired \union {u},
                                            !.pc = "check", !.user = u, !.plan = rules]
    BY <1>0, <1>11 DEF Plan, Goto
  <2>. QED  BY <1>0, <2>1 DEF Local
<1>. QED  BY <1>4, <1>5, <1>6, <1>7, <1>8, <1>9, <1>10, <1>11 DEF Pair, Cleanup

LEMMA AppliedInductive == TypeInv /\ AppliedInv /\ [NNext]_rbacVars => AppliedInv'
<1>. SUFFICES ASSUME TypeInv, AppliedInv, [NNext]_rbacVars, NEW p \in Pass, pass'[p].alone
              PROVE  Achieved(p)'
  BY DEF AppliedInv
<1>0. pass \in [Pass -> Local]  BY DEF TypeInv, NTypeOK
<1>1. CASE UNCHANGED rbacVars
  BY <1>1, UntouchedKeeps DEF rbacVars, AppliedInv, Working
<1>2. ASSUME NEW q \in Pass, Reconcile(q) PROVE Achieved(p)'
  <2>1. CASE q # p  BY <1>2, <2>1, OthersRest
  <2>2. CASE q = p /\ (Begin(p) \/ Claim(p) \/ Throw(p) \/ WriteError(p) \/ Finish(p) \/ Crash(p))
    BY <2>2, NotAlone
  <2>3. CASE q = p /\ List(p)  BY <2>3, ListAchieves
  <2>4. CASE q = p /\ (Pair(p) \/ Cleanup(p) \/ \E u \in User : Plan(p, u))
    <3>1. pass'[p].alone = pass[p].alone
      BY <1>0, <2>4, OwnAlone
    <3>2. Achieved(p)  BY <3>1 DEF AppliedInv
    <3>. QED
      BY <2>4, <3>2, PlanAchieves, AdvanceAchieves, ReadRoleAchieves, ReadBindingAchieves, WriteAchieves,
         CleanupAchieves DEF Pair, Cleanup
  <2>. QED  BY <1>2, <2>1, <2>2, <2>3, <2>4 DEF Reconcile
<1>3. ASSUME NEW enabled \in BOOLEAN, SaveSettings(enabled) PROVE Achieved(p)'
  BY <1>3, UntouchedKeeps DEF SaveSettings, AppliedInv, Working
<1>4. ASSUME NEW u \in User, NEW rights \in Rules, ChangeGrant(u, rights) \/ TimePasses(u, rights)
      PROVE  Achieved(p)'
  <2>1. PICK version \in 1..MaxVersion : Entitled(u, rights, version) /\ rights # account[u].rights
    <3>1. account[u].version \in 1..MaxVersion  BY DEF TypeInv, NTypeOK, Account
    <3>2. account[u].version < MaxVersion => NextVersion(u) \in 1..MaxVersion
      BY <3>1, RbacAssumption DEF NextVersion
    <3>. QED  BY <1>4, <3>1, <3>2 DEF ChangeGrant, TimePasses
  <2>2. pass[p].alone
    <3>1. pass'[p] = IF Working(p) THEN [pass[p] EXCEPT !.held[u] = @ \union {rights}] ELSE pass[p]
      BY <2>1 DEF Entitled
    <3>2. pass[p] \in Local  BY <1>0
    <3>. QED  BY <3>1, <3>2 DEF Local
  <2>. QED  BY <2>1, <2>2, EntitledKeeps DEF AppliedInv
<1>. QED  BY <1>1, <1>2, <1>3, <1>4 DEF NNext

\* Everything is planned and pruned when a pass reports ready.
LEMMA FinishSettled ==
  ASSUME TypeInv, NEW p \in Pass, Achieved(p), Finish(p), NEW u \in User
  PROVE  Settled(p, u)
<1>0. /\ pass[p].pc = "prune" /\ pass[p].todo = {} /\ HeldInv(p) /\ DesiredInv(p) /\ OthersInv(p)
  BY DEF Finish, Achieved
<1>1. CASE u \in pass[p].desired  BY <1>0, <1>1 DEF DesiredInv, PairPc, Settled
<1>2. CASE u \notin pass[p].desired
  <2>1. ~bound[u] /\ (0 \in pass[p].held[u] \/ Moved(p, u))
    BY <1>0, <1>2 DEF OthersInv, PairPc, PrunePc
  <2>. QED  BY <2>1 DEF Access, Settled, Moved
<1>. QED  BY <1>1, <1>2

------------------------------------------------------------------------------
(***************************************************************************)
(* Theorems.                                                               *)
(***************************************************************************)
\* The row, the objects and the local variables of every pass keep their types.
THEOREM RbacTypeCorrect == NSpec => []NTypeOK
<1>1. NInit => TypeInv  BY InitTyped
<1>2. TypeInv /\ [NNext]_rbacVars => TypeInv'  BY TypesInductive
<1>3. TypeInv => NTypeOK  BY DEF TypeInv
<1>. QED  BY <1>1, <1>2, <1>3, PTL DEF NSpec

\* The conditional writes of the status never let a pass for earlier settings
\* report them ready, however many passes run and whenever they are done.
THEOREM ReadyIsCurrentCorrect == NSpec => []ReadyIsCurrent
<1>1. NInit => TypeInv /\ ReadyIsCurrent  BY InitTyped DEF NInit, ReadyIsCurrent
<1>2. TypeInv /\ ReadyIsCurrent /\ [NNext]_rbacVars => (TypeInv /\ ReadyIsCurrent)'
  BY TypesInductive, ReadyInductive
<1>. QED  BY <1>1, <1>2, PTL DEF NSpec

\* A pass that was the only one leaves every user with what the user was entitled
\* to when it reports ready, from whatever state of the cluster it started.
THEOREM ReadyIsAppliedCorrect == NSpec => ReadyIsApplied
<1> DEFINE Inv == TypeInv /\ AppliedInv
           Done == \A p \in Pass : pass[p].alone /\ Finish(p) => \A u \in User : Settled(p, u)
<1>1. NInit => Inv  BY InitTyped, InitAchieves
<1>2. Inv /\ [NNext]_rbacVars => Inv'  BY TypesInductive, AppliedInductive
<1>3. Inv /\ [NNext]_rbacVars => [Done]_rbacVars  BY FinishSettled DEF AppliedInv
<1>. QED  BY <1>1, <1>2, <1>3, PTL DEF NSpec, ReadyIsApplied

==============================================================================
