----------------------------- MODULE AuthSessions -----------------------------
(***************************************************************************)
(* Login sessions of the control API (auth/): login with an optional       *)
(* second factor, refresh-token rotation, validation of access tokens,     *)
(* enrolment of a second factor and its reset by the superadministrator.   *)
(*                                                                         *)
(* Nothing revokes a session when its user's rights change: every account  *)
(* change increments User.authzVersion, and a session, a challenge or a    *)
(* proof is good only while the version it carries is the current one.     *)
(*                                                                         *)
(* One step is one statement, or one transaction where the row locks it    *)
(* takes first keep everybody else away.  The transactions that another    *)
(* statement can get in between are two steps, and the locks they hold     *)
(* follow from where their call is.  Sessions expire by a refusal at any   *)
(* time (Abort); the codes and passwords presented are right, or the       *)
(* call is aborted.  So is a reset whose superadministrator is not, or no  *)
(* longer, entitled to it: that account is not one of User.                *)
(***************************************************************************)
EXTENDS Integers, Sequences

CONSTANTS
  User,
  Call,          \* requests in flight
  MaxSessions,   \* bound on the sessions issued
  MaxTokens,     \* bound on the tokens stored in Redis at one time
  MaxVersion,    \* bound on authzVersion
  None

ASSUME AuthAssumption ==
  /\ None \notin User
  /\ MaxSessions \in Nat /\ MaxTokens \in Nat /\ MaxVersion \in Nat \ {0}

VARIABLES
  user,      \* user[u]: the User row and its MfaCredential
  session,   \* session[s]: the s-th Session row
  token,     \* token[k]: a token stored in Redis, or Gone
  call       \* call[c]: where request c is, and its local variables

authVars == <<user, session, token, call>>

Version == 0..MaxVersion
SessionId == 0..MaxSessions

\* mfa: mfaEnabled, and a credential exists; enrolment: how many credentials the
\* user has had (their version column is 1 every time).  changes is history: how
\* often the account has changed.
Account == [active : BOOLEAN, authz : 1..MaxVersion, mfa : BOOLEAN, enrolment : Version, changes : Nat]

\* verified: the enrolment that existed when mfaVerifiedAt was set, or 0.  login
\* (the first session of the rotation chain) and since (the changes there had
\* been when the password was checked) are history.
Session == [user : User, authz : 1..MaxVersion, revoked : BOOLEAN, verified : Version,
            login : 1..MaxSessions, since : Nat]

\* Challenges are bound to the user, enrolment tokens to the session, proofs to
\* the target (user); of (history) is the enrolment a proof was given for.
Token == [kind : {"challenge", "enrolment", "reset", "gone"}, user : User \union {None},
          session : SessionId, authz : Version, of : Version, since : Nat]

Gone == [kind |-> "gone", user |-> None, session |-> 0, authz |-> 0, of |-> 0, since |-> 0]

Op == {"none", "login", "complete", "refresh", "validate", "begin", "enrol", "prepare", "reset"}

SessionOp == {"refresh", "validate", "begin", "enrol"}

Pc == {"idle", "issue", "save", "redeem", "user", "rotate", "wait", "insert", "assure", "accepted",
       "again", "reread", "consume", "lock", "commit"}

\* ok (history): the session was acceptable when its row was read.
Local == [op : Op, pc : Pc, user : User \union {None}, session : SessionId, authz : Version,
          mfa : BOOLEAN, of : Version, since : Nat, ok : BOOLEAN]

Idle == [op |-> "none", pc |-> "idle", user |-> None, session |-> 0, authz |-> 0, mfa |-> FALSE,
         of |-> 0, since |-> 0, ok |-> FALSE]

AInit ==
  /\ \E enrolled \in SUBSET User :
       user = [u \in User |-> [active |-> TRUE, authz |-> 1, mfa |-> u \in enrolled,
                               enrolment |-> IF u \in enrolled THEN 1 ELSE 0, changes |-> 0]]
  /\ session = <<>>
  /\ token = [k \in 1..MaxTokens |-> Gone]
  /\ call = [c \in Call |-> Idle]

At(c, op, pc) == call[c].op = op /\ call[c].pc = pc

Goto(c, l) == call' = [call EXCEPT ![c] = l]

Advance(c, pc) == Goto(c, [call[c] EXCEPT !.pc = pc])

\* The request answers, or is refused.
Return(c) == Goto(c, Idle)

Abort(c) ==
  /\ call[c].pc # "idle"
  /\ Return(c)
  /\ UNCHANGED <<user, session, token>>

------------------------------------------------------------------------------
(***************************************************************************)
(* Row locks.  A transaction that is about to commit an enrolment or a     *)
(* reset holds the row of its user (FOR UPDATE); a rotation without a      *)
(* second factor holds the old session while it inserts the new one.  Two  *)
(* that wait for each other are ended by the database: Abort.              *)
(***************************************************************************)
Locked(u) == \E c \in Call : call[c].pc = "commit" /\ call[c].user = u

SessionLocked(s) == \E c \in Call : call[c].pc = "insert" /\ call[c].session = s

Live(s) == ~session[s].revoked

SessionsOf(u) == {s \in DOMAIN session : session[s].user = u /\ Live(s)}

\* The foreign key of the new row waits for whoever has locked the user.
Insert(u, authz, verified, login, since, old) ==
  /\ ~Locked(u)
  /\ Len(old) < MaxSessions
  /\ session' = Append(old, [user |-> u, authz |-> authz, revoked |-> FALSE, verified |-> verified,
                             login |-> login, since |-> since])

Revoke(ss) == [s \in DOMAIN session |-> IF s \in ss THEN [session[s] EXCEPT !.revoked = TRUE]
                                                    ELSE session[s]]

\* SET key value NX: a token that did not exist before.
Save(t) ==
  \E k \in DOMAIN token :
    /\ token[k] = Gone /\ \A j \in 1 .. k - 1 : token[j] # Gone
    /\ token' = [token EXCEPT ![k] = t]

NewToken(c, kind) ==
  [kind |-> kind, user |-> call[c].user, session |-> call[c].session, authz |-> call[c].authz,
   of |-> call[c].of, since |-> call[c].since]

\* GETDEL: the token is gone whatever comes of it.
Take(k, kind) ==
  /\ token[k].kind = kind
  /\ token' = [token EXCEPT ![k] = Gone]

\* user.isActive and user.authzVersion as the statements compare them.
Current(u, authz) == user[u].active /\ user[u].authz = authz

\* hasSessionAssurance, and the same condition in rotateSession and reset:
\* mfaVersion is the credential's version and mfaVerifiedAt is not before
\* confirmedAt.
Assured(s) == session[s].verified > 0 /\ session[s].verified >= user[session[s].user].enrolment

\* What all the checks of validate() amount to when nothing moves.
Acceptable(s) ==
  /\ Live(s)
  /\ Current(session[s].user, session[s].authz)
  /\ user[session[s].user].mfa => Assured(s)

------------------------------------------------------------------------------
(***************************************************************************)
(* login(): the user is read, then the attempt is counted and the password *)
(* checked; then a session is issued, or a challenge if the user read has  *)
(* a second factor.                                                        *)
(***************************************************************************)
StartLogin(c, u) ==
  /\ call[c] = Idle
  /\ IF user[u].active
       THEN Goto(c, [Idle EXCEPT !.op = "login", !.pc = "issue", !.user = u, !.authz = user[u].authz,
                                 !.mfa = user[u].mfa, !.since = user[u].changes])
       ELSE Return(c)
  /\ UNCHANGED <<user, session, token>>

IssueSession(c) ==
  /\ At(c, "login", "issue") /\ ~call[c].mfa
  /\ Insert(call[c].user, call[c].authz, 0, Len(session) + 1, call[c].since, session)
  /\ Return(c)
  /\ UNCHANGED <<user, token>>

\* prepareChallenge: the account as it was read must still be the account.
PrepareChallenge(c) ==
  /\ At(c, "login", "issue") /\ call[c].mfa
  /\ IF Current(call[c].user, call[c].authz) /\ user[call[c].user].mfa
       THEN Advance(c, "save") ELSE Return(c)
  /\ UNCHANGED <<user, session, token>>

SaveChallenge(c) ==
  /\ At(c, "login", "save")
  /\ Save(NewToken(c, "challenge"))
  /\ Return(c)
  /\ UNCHANGED <<user, session>>

\* completeMfa(): the challenge is consumed before the code is checked.
ConsumeChallenge(c, k) ==
  /\ call[c] = Idle
  /\ Take(k, "challenge")
  /\ Goto(c, [Idle EXCEPT !.op = "complete", !.pc = "redeem", !.user = token[k].user,
                          !.authz = token[k].authz, !.since = token[k].since])
  /\ UNCHANGED <<user, session>>

Mut_Redeemable(u, authz) == user[u].active /\ user[u].mfa

Redeemable(u, authz) == Current(u, authz) /\ user[u].mfa

\* redeemAndCreateSession: the session takes the version of the row it locked.
RedeemAndCreateSession(c) ==
  /\ At(c, "complete", "redeem")
  /\ LET u == call[c].user IN
     IF Redeemable(u, call[c].authz)
       THEN Insert(u, user[u].authz, user[u].enrolment, Len(session) + 1, call[c].since, session)
       ELSE ~Locked(u) /\ UNCHANGED session
  /\ Return(c)
  /\ UNCHANGED <<user, token>>

------------------------------------------------------------------------------
(***************************************************************************)
(* Every other request presents a session.  Prisma reads the session row,  *)
(* its user being active, and then the row of the user.                    *)
(***************************************************************************)
ReadSession(c, op, s) ==
  /\ call[c] = Idle
  /\ Live(s) /\ user[session[s].user].active
  /\ Goto(c, [Idle EXCEPT !.op = op, !.pc = "user", !.session = s, !.user = session[s].user,
                          !.authz = session[s].authz, !.ok = op = "validate" /\ Acceptable(s)])
  /\ UNCHANGED <<user, session, token>>

Mut_SameVersion(c) == TRUE

SameVersion(c) == user[call[c].user].authz = call[c].authz

After(c) ==
  CASE call[c].op = "refresh" -> "rotate"
    [] call[c].op = "validate" -> IF user[call[c].user].mfa THEN "assure" ELSE "accepted"
    [] call[c].op = "begin" -> "again"
    [] call[c].op = "enrol" -> "consume"

ReadUser(c) ==
  /\ call[c].pc = "user"
  /\ LET u == user[call[c].user]
         mayGoOn == /\ SameVersion(c)
                    /\ call[c].op \in {"begin", "enrol"} => ~u.mfa
     IN IF mayGoOn THEN Goto(c, [call[c] EXCEPT !.pc = After(c), !.mfa = call[c].op = "refresh" /\ u.mfa])
                   ELSE Return(c)
  /\ UNCHANGED <<user, session, token>>

\* validate(): with a second factor, the assurance is a query of its own.
CheckAssurance(c) ==
  /\ At(c, "validate", "assure")
  /\ LET s == call[c].session IN
     IF Acceptable(s) /\ user[call[c].user].mfa THEN Advance(c, "accepted") ELSE Return(c)
  /\ UNCHANGED <<user, session, token>>

Finish(c) ==
  /\ call[c].pc = "accepted"
  /\ Return(c)
  /\ UNCHANGED <<user, session, token>>

\* logout() revokes the session it is given, and waits for its lock.
Logout(s) ==
  /\ Live(s) /\ ~SessionLocked(s)
  /\ session' = Revoke({s})
  /\ UNCHANGED <<user, token, call>>

------------------------------------------------------------------------------
(***************************************************************************)
(* refresh().  Without a second factor the old session is revoked on       *)
(* condition (AuthRepository.rotateSession) and the new one inserted.  The *)
(* UPDATE finds its row, and the user who must be current, in the snapshot *)
(* it starts with; once it has the row's lock, it checks that row again,   *)
(* but not the user.  With a second factor, the user's row is locked first *)
(* (MfaCredentialRepository.rotateSession), and all is one step.           *)
(***************************************************************************)
Rotatable(c) ==
  /\ Live(call[c].session)
  /\ Current(call[c].user, call[c].authz)

RotateMatch(c) ==
  /\ At(c, "refresh", "rotate") /\ ~call[c].mfa
  /\ IF Rotatable(c) THEN Advance(c, "wait") ELSE Return(c)
  /\ UNCHANGED <<user, session, token>>

Mut_StillLive(c) == TRUE

StillLive(c) == Live(call[c].session)

RotateRevoke(c) ==
  /\ At(c, "refresh", "wait")
  /\ ~SessionLocked(call[c].session)
  /\ IF StillLive(c) THEN Advance(c, "insert") ELSE Return(c)
  /\ UNCHANGED <<user, session, token>>

\* The new session of the chain, in the place of the old one.
Rotate(c, verified) ==
  LET s == call[c].session IN
  Insert(call[c].user, call[c].authz, verified, session[s].login, session[s].since, Revoke({s}))

RotateInsert(c) ==
  /\ At(c, "refresh", "insert")
  /\ Rotate(c, 0)
  /\ Return(c)
  /\ UNCHANGED <<user, token>>

RotateWithAssurance(c) ==
  LET s == call[c].session IN
  /\ At(c, "refresh", "rotate") /\ call[c].mfa
  /\ ~Locked(call[c].user) /\ ~SessionLocked(s)
  /\ IF Rotatable(c) /\ user[call[c].user].mfa /\ Assured(s)
       THEN Rotate(c, session[s].verified)
       ELSE UNCHANGED session
  /\ Return(c)
  /\ UNCHANGED <<user, token>>

------------------------------------------------------------------------------
(***************************************************************************)
(* Enrolment.  beginMfaEnrollment reads the session twice, the second time *)
(* with the password; confirmMfaEnrollment consumes the token and enrols   *)
(* in a transaction that locks the user's row.                             *)
(***************************************************************************)
BeginAgain(c) ==
  /\ At(c, "begin", "again")
  /\ IF Live(call[c].session) /\ user[call[c].user].active THEN Advance(c, "reread") ELSE Return(c)
  /\ UNCHANGED <<user, session, token>>

BeginReread(c) ==
  /\ At(c, "begin", "reread")
  /\ IF SameVersion(c) THEN Advance(c, "save") ELSE Return(c)
  /\ UNCHANGED <<user, session, token>>

SaveEnrolment(c) ==
  /\ At(c, "begin", "save")
  /\ Save(NewToken(c, "enrolment"))
  /\ Return(c)
  /\ UNCHANGED <<user, session>>

ConsumeEnrolment(c, k) ==
  /\ At(c, "enrol", "consume")
  /\ Take(k, "enrolment")
  /\ IF token[k].session = call[c].session /\ token[k].authz = call[c].authz
       THEN Advance(c, "lock") ELSE Return(c)
  /\ UNCHANGED <<user, session>>

StillThere(c) ==
  /\ Live(call[c].session)
  /\ Current(call[c].user, call[c].authz)

EnrolLock(c) ==
  /\ At(c, "enrol", "lock")
  /\ ~Locked(call[c].user)
  /\ IF StillThere(c) /\ ~user[call[c].user].mfa THEN Advance(c, "commit") ELSE Return(c)
  /\ UNCHANGED <<user, session, token>>

\* The last statement of the transaction revokes the sessions, one row after the
\* other, and waits for those that are locked.
RevokeAll(c, u) ==
  /\ \A s \in SessionsOf(u) : \A d \in Call \ {c} : ~(call[d].pc = "insert" /\ call[d].session = s)
  /\ session' = Revoke(SessionsOf(u))

NextVersion(u) == user[u].authz + 1

EnrolCommit(c) ==
  LET u == call[c].user IN
  /\ At(c, "enrol", "commit")
  /\ user[u].authz < MaxVersion
  /\ user' = [user EXCEPT ![u].mfa = TRUE, ![u].enrolment = @ + 1, ![u].authz = NextVersion(u),
                          ![u].changes = @ + 1]
  /\ RevokeAll(c, u)
  /\ Return(c)
  /\ UNCHANGED token

------------------------------------------------------------------------------
(***************************************************************************)
(* Reset of a user's second factor by the superadministrator.  Asking for  *)
(* it reads the account, verifies the superadministrator again, reads once *)
(* more and stores a proof; confirming reads, consumes the proof if it     *)
(* says the same, and resets in a transaction that locks the account.      *)
(***************************************************************************)
ReadTarget(c, op, u) ==
  /\ call[c] = Idle
  /\ user[u].mfa
  /\ Goto(c, [Idle EXCEPT !.op = op, !.pc = IF op = "prepare" THEN "again" ELSE "consume",
                          !.user = u, !.authz = user[u].authz, !.of = user[u].enrolment])
  /\ UNCHANGED <<user, session, token>>

Mut_SameTarget(c) == user[call[c].user].mfa

SameTarget(c) == user[call[c].user].mfa /\ user[call[c].user].authz = call[c].authz

PrepareAgain(c) ==
  /\ At(c, "prepare", "again")
  /\ IF SameTarget(c) THEN Advance(c, "save") ELSE Return(c)
  /\ UNCHANGED <<user, session, token>>

SaveProof(c) ==
  /\ At(c, "prepare", "save")
  /\ Save(NewToken(c, "reset"))
  /\ Return(c)
  /\ UNCHANGED <<user, session>>

SameProof(c, t) == t.user = call[c].user /\ t.authz = call[c].authz

ConsumeProof(c, k) ==
  /\ At(c, "reset", "consume")
  /\ Take(k, "reset")
  /\ IF SameProof(c, token[k])
       THEN Goto(c, [call[c] EXCEPT !.pc = "lock", !.of = token[k].of]) ELSE Return(c)
  /\ UNCHANGED <<user, session>>

ResetLock(c) ==
  /\ At(c, "reset", "lock")
  /\ ~Locked(call[c].user)
  /\ IF SameTarget(c) THEN Advance(c, "commit") ELSE Return(c)
  /\ UNCHANGED <<user, session, token>>

ResetCommit(c) ==
  LET u == call[c].user IN
  /\ At(c, "reset", "commit")
  /\ user[u].authz < MaxVersion
  /\ user' = [user EXCEPT ![u].mfa = FALSE, ![u].authz = NextVersion(u), ![u].changes = @ + 1]
  /\ RevokeAll(c, u)
  /\ Return(c)
  /\ UNCHANGED token

------------------------------------------------------------------------------
(***************************************************************************)
(* The administration of users: one UPDATE each, which waits for the row's *)
(* lock.                                                                   *)
(***************************************************************************)
Mut_Switched(u, active) == [user[u] EXCEPT !.active = active, !.changes = @ + 1]

\* setState: the version moves on when a user is disabled, and when enabled.
Switched(u, active) ==
  [user[u] EXCEPT !.active = active, !.authz = NextVersion(u), !.changes = @ + 1]

SetState(u, active) ==
  /\ ~Locked(u) /\ user[u].authz < MaxVersion
  /\ user' = [user EXCEPT ![u] = Switched(u, active)]
  /\ UNCHANGED <<session, token, call>>

\* A new password or username, a group or an external identity: the rights change.
ChangeAccount(u) ==
  /\ ~Locked(u) /\ user[u].authz < MaxVersion
  /\ user' = [user EXCEPT ![u].authz = NextVersion(u), ![u].changes = @ + 1]
  /\ UNCHANGED <<session, token, call>>

\* The five minutes of a token are over.
Expire(k) ==
  /\ token[k] # Gone
  /\ token' = [token EXCEPT ![k] = Gone]
  /\ UNCHANGED <<user, session, call>>

Request(c) ==
  \/ \E u \in User : StartLogin(c, u)
  \/ IssueSession(c) \/ PrepareChallenge(c) \/ SaveChallenge(c)
  \/ \E k \in DOMAIN token : ConsumeChallenge(c, k)
  \/ RedeemAndCreateSession(c)
  \/ \E op \in SessionOp, s \in DOMAIN session : ReadSession(c, op, s)
  \/ ReadUser(c) \/ CheckAssurance(c) \/ Finish(c)
  \/ RotateMatch(c) \/ RotateRevoke(c) \/ RotateInsert(c) \/ RotateWithAssurance(c)
  \/ BeginAgain(c) \/ BeginReread(c) \/ SaveEnrolment(c)
  \/ \E k \in DOMAIN token : ConsumeEnrolment(c, k)
  \/ EnrolLock(c) \/ EnrolCommit(c)
  \/ \E op \in {"prepare", "reset"}, u \in User : ReadTarget(c, op, u)
  \/ PrepareAgain(c) \/ SaveProof(c)
  \/ \E k \in DOMAIN token : ConsumeProof(c, k)
  \/ ResetLock(c) \/ ResetCommit(c)
  \/ Abort(c)

ANext ==
  \/ \E c \in Call : Request(c)
  \/ \E s \in DOMAIN session : Logout(s)
  \/ \E k \in DOMAIN token : Expire(k)
  \/ \E u \in User : ChangeAccount(u) \/ \E active \in BOOLEAN : SetState(u, active)

ASpec == AInit /\ [][ANext]_authVars

------------------------------------------------------------------------------
ATypeOK ==
  /\ user \in [User -> Account]
  /\ session \in Seq(Session) /\ Len(session) <= MaxSessions
  /\ token \in [1..MaxTokens -> Token]
  /\ call \in [Call -> Local]

\* A refresh token is used once: however its rotations interleave, a login has
\* one session that is not revoked, or none.
OneLivePerLogin ==
  \A s, t \in DOMAIN session :
    Live(s) /\ Live(t) /\ session[s].login = session[t].login => s = t

\* Whoever gets in has given the password since the account last changed (was
\* disabled, got a new password, enrolled or lost a second factor), also through
\* challenges, rotations and reads that were under way.
LoggedInSinceChange ==
  \A s \in DOMAIN session : Acceptable(s) => session[s].since = user[session[s].user].changes

\* A session that would be refused stays refused: neither enabling a user again, nor
\* the next enrolment or reset of a second factor, nor a rotation under way revives
\* one, although nothing has revoked its row.
NoneRevived == \A s \in DOMAIN session : ~Acceptable(s) => ~Acceptable(s)'

RefusedForGood == [][NoneRevived]_authVars

\* validate() reads three times, and accepts only a session that was acceptable
\* at one instant, the one in which its row was read.
AcceptedWasAcceptable ==
  \A c \in Call : call[c].pc = "accepted" => call[c].ok

\* A reset removes the enrolment that its proof was given for, although the
\* credential's version is the same again after the next enrolment.
ResetsWhatWasProved ==
  \A c \in Call : At(c, "reset", "commit") =>
    user[call[c].user].mfa /\ user[call[c].user].enrolment = call[c].of
===============================================================================
