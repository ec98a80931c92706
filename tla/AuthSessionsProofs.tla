-------------------------- MODULE AuthSessionsProofs --------------------------
(***************************************************************************)
(* Theorems about the login sessions, for any number of users, requests in *)
(* flight, sessions, tokens and versions.                                  *)
(***************************************************************************)
EXTENDS AuthSessions, SequenceTheorems, TLAPS

\* An account's version counts its changes; a credential takes one to enrol.
AccountInv ==
  \A u \in User : user[u].authz = user[u].changes + 1 /\ user[u].enrolment <= user[u].authz

\* What a row of a session says: the version it was issued for is the one the
\* password was given under, and its chain began no later than it did.
RowSound(r, n) ==
  r.authz = r.since + 1 /\ r.authz <= user[r.user].authz /\ r.login <= n

SessionInv == \A s \in DOMAIN session : RowSound(session[s], s)

TokenSound(t) ==
  t.kind # "gone" =>
    /\ t.user \in User /\ t.authz <= user[t.user].authz
    /\ t.kind = "challenge" => t.authz = t.since + 1
    /\ t.kind = "reset" /\ t.authz = user[t.user].authz => t.of = user[t.user].enrolment

TokenInv == \A k \in DOMAIN token : TokenSound(token[k])

\* A request with local variables l: whom it is about, since when, and for whose
\* credential.
OwnSound(l) ==
  l.op # "none" =>
    /\ l.user \in User /\ l.authz <= user[l.user].authz
    /\ l.op \in {"login", "complete"} => l.authz = l.since + 1
    /\ l.op \in SessionOp => /\ l.session \in DOMAIN session
                             /\ session[l.session].user = l.user
                             /\ session[l.session].authz = l.authz
    /\ l.pc = "user" => l.op \in SessionOp
    /\ l.op = "prepare" \/ (l.op = "reset" /\ l.pc = "lock") =>
         (l.authz = user[l.user].authz => l.of = user[l.user].enrolment)

\* What the locks of a transaction keep true.
LockSound(l) ==
  /\ l.pc = "insert" => l.op = "refresh" /\ Live(l.session)
  /\ l.pc = "commit" => l.op \in {"enrol", "reset"}
  /\ l.pc = "commit" /\ l.op = "reset" => user[l.user].mfa /\ user[l.user].enrolment = l.of

\* A session that was not acceptable when its row was read has an account that has
\* changed before, or lacks the second factor: both stay so.
ReadSound(l) ==
  /\ l.op = "validate" /\ l.pc \in {"user", "assure"} =>
       \/ l.ok \/ user[l.user].authz > l.authz
       \/ user[l.user].mfa /\ ~Assured(l.session)
  /\ l.pc = "accepted" => l.ok

Sound(l) == (l.op = "none" <=> l.pc = "idle") /\ OwnSound(l) /\ LockSound(l) /\ ReadSound(l)

CallInv == \A c \in Call : Sound(call[c])

\* One transaction has a row.
LockInv == \A c, d \in Call :
  /\ call[c].pc = "insert" /\ call[d].pc = "insert" /\ call[c].session = call[d].session => c = d
  /\ call[c].pc = "commit" /\ call[d].pc = "commit" /\ call[c].user = call[d].user => c = d

Inv == ATypeOK /\ AccountInv /\ SessionInv /\ TokenInv /\ CallInv /\ LockInv /\ OneLivePerLogin

------------------------------------------------------------------------------
(***************************************************************************)
(* The initial state, and helpers.                                         *)
(***************************************************************************)
LEMMA IdleSound == Idle \in Local /\ Sound(Idle)
<1>1. Idle \in Local  BY AuthAssumption DEF Idle, Local, Op, Pc, SessionId, Version
<1>2. Sound(Idle)  BY DEF Idle, Sound, OwnSound, LockSound, ReadSound, SessionOp
<1>. QED  BY <1>1, <1>2

LEMMA GoneSound == Gone \in Token /\ TokenSound(Gone)
BY AuthAssumption DEF Gone, Token, TokenSound, SessionId, Version

LEMMA InitHolds == AInit => Inv
<1>. SUFFICES ASSUME AInit PROVE Inv  OBVIOUS
<1>1. user \in [User -> Account] /\ AccountInv
  BY AuthAssumption DEF AInit, Account, Version, AccountInv
<1>2. session \in Seq(Session) /\ Len(session) = 0 /\ DOMAIN session = {}
  BY DEF AInit
<1>3. token \in [1..MaxTokens -> Token] /\ TokenInv
  BY GoneSound DEF AInit, TokenInv
<1>4. call \in [Call -> Local] /\ CallInv
  BY IdleSound DEF AInit, CallInv
<1>5. \A c \in Call : call[c].pc = "idle"  BY DEF AInit, Idle
<1>6. LockInv /\ OneLivePerLogin /\ SessionInv
  BY <1>2, <1>5 DEF LockInv, OneLivePerLogin, SessionInv
<1>7. Len(session) <= MaxSessions  BY <1>2, AuthAssumption
<1>. QED  BY <1>1, <1>2, <1>3, <1>4, <1>6, <1>7 DEF Inv, ATypeOK

\* Types of what is there.
LEMMA RowTypes ==
  ASSUME Inv
  PROVE  /\ Len(session) \in 0..MaxSessions /\ DOMAIN session = 1..Len(session)
         /\ \A s \in DOMAIN session : session[s] \in Session
<1>1. session \in Seq(Session) /\ Len(session) <= MaxSessions  BY DEF Inv, ATypeOK
<1>. QED  BY <1>1, LenProperties, ElementOfSeq, AuthAssumption

LEMMA Revoked ==
  ASSUME Inv, NEW ss
  PROVE  /\ Revoke(ss) \in Seq(Session) /\ Len(Revoke(ss)) = Len(session)
         /\ DOMAIN Revoke(ss) = DOMAIN session
         /\ \A s \in DOMAIN session :
              Revoke(ss)[s] = IF s \in ss THEN [session[s] EXCEPT !.revoked = TRUE] ELSE session[s]
<1> DEFINE n == Len(session)
<1>1. n \in Nat /\ DOMAIN session = 1..n /\ \A s \in 1..n : session[s] \in Session
  BY RowTypes
<1>2. \A s \in 1..n : [session[s] EXCEPT !.revoked = TRUE] \in Session
  BY <1>1 DEF Session
<1>3. Revoke(ss) \in [1..n -> Session]  BY <1>1, <1>2 DEF Revoke
<1>4. Revoke(ss) \in Seq(Session)  BY <1>1, <1>3, SeqDef
<1>5. DOMAIN Revoke(ss) = 1..n  BY <1>3
<1>6. Len(Revoke(ss)) = n  BY <1>1, <1>4, <1>5, LenProperties
<1>. QED  BY <1>1, <1>4, <1>5, <1>6 DEF Revoke

------------------------------------------------------------------------------
(***************************************************************************)
(* Tokens.                                                                 *)
(***************************************************************************)
Tokens == token' \in [1..MaxTokens -> Token] /\ \A k \in 1..MaxTokens : TokenSound(token'[k])

LEMMA SameTokens == Inv /\ UNCHANGED token => Tokens
BY DEF Inv, ATypeOK, TokenInv, Tokens

LEMMA TakenToken ==
  ASSUME Inv, NEW k \in DOMAIN token, token' = [token EXCEPT ![k] = Gone]
  PROVE  Tokens
BY GoneSound DEF Inv, ATypeOK, TokenInv, Tokens

LEMMA SavedToken ==
  ASSUME Inv, NEW t \in Token, TokenSound(t), Save(t)
  PROVE  Tokens
BY DEF Inv, ATypeOK, TokenInv, Tokens, Save

------------------------------------------------------------------------------
(***************************************************************************)
(* The kinds of steps.  One that changes a request's local variables and   *)
(* tokens only:                                                            *)
(***************************************************************************)
LEMMA LocalStep ==
  ASSUME Inv, NEW c \in Call, NEW l \in Local, Sound(l),
         l.pc = "insert" => ~SessionLocked(l.session),
         l.pc = "commit" => ~Locked(l.user),
         Goto(c, l), UNCHANGED <<user, session>>, Tokens
  PROVE  Inv'
<1>1. /\ call' = [call EXCEPT ![c] = l] /\ call \in [Call -> Local]
      /\ call'[c] = l /\ \A d \in Call \ {c} : call'[d] = call[d]
  BY DEF Goto, Inv, ATypeOK
<1>2. ATypeOK'  BY <1>1 DEF Inv, ATypeOK, Tokens
<1>3. AccountInv' /\ SessionInv' /\ OneLivePerLogin'
  BY DEF Inv, AccountInv, SessionInv, RowSound, OneLivePerLogin, Live
<1>4. TokenInv'  BY DEF Tokens, TokenInv, TokenSound
<1>5. CallInv'
  <2>. SUFFICES ASSUME NEW d \in Call PROVE Sound(call[d])'  BY DEF CallInv
  <2>1. Sound(call'[d])  BY <1>1 DEF Inv, CallInv
  <2>. QED  BY <2>1 DEF Sound, OwnSound, LockSound, ReadSound, Live, Assured
<1>6. LockInv'
  BY <1>1 DEF Inv, LockInv, SessionLocked, Locked
<1>. QED  BY <1>2, <1>3, <1>4, <1>5, <1>6 DEF Inv

LEMMA ReturnStep ==
  ASSUME Inv, NEW c \in Call, Return(c), UNCHANGED <<user, session>>, Tokens
  PROVE  Inv'
<1>1. Idle.pc = "idle"  BY DEF Idle
<1>. QED  BY <1>1, IdleSound, LocalStep DEF Return

LEMMA ExpireStep ==
  ASSUME Inv, UNCHANGED <<user, session, call>>, Tokens
  PROVE  Inv'
<1>1. ATypeOK'  BY DEF Inv, ATypeOK, Tokens
<1>2. AccountInv' /\ SessionInv' /\ OneLivePerLogin' /\ LockInv'
  BY DEF Inv, AccountInv, SessionInv, RowSound, OneLivePerLogin, Live, LockInv
<1>3. TokenInv'  BY DEF Tokens, TokenInv, TokenSound
<1>4. CallInv'  BY DEF Inv, CallInv, Sound, OwnSound, LockSound, ReadSound, Live, Assured
<1>. QED  BY <1>1, <1>2, <1>3, <1>4 DEF Inv

(***************************************************************************)
(* One that revokes some sessions, none of them locked, and may issue one: *)
(***************************************************************************)
LEMMA Unrevoked ==
  ASSUME Inv
  PROVE  session = Revoke({})
<1>1. Len(session) \in Nat /\ DOMAIN session = 1..Len(session) /\ session \in Seq(Session)
  BY RowTypes DEF Inv, ATypeOK
<1>2. Revoke({}) \in Seq(Session) /\ Len(Revoke({})) = Len(session)
  BY Revoked
<1>3. \A s \in 1..Len(session) : Revoke({})[s] = session[s]  BY <1>1, Revoked
<1>. QED  BY <1>1, <1>2, <1>3, SeqEqual

LEMMA RevokeStep ==
  ASSUME Inv, NEW ss, session' = Revoke(ss),
         \A d \in Call : call[d].pc = "insert" => call[d].session \notin ss,
         UNCHANGED <<user, token, call>>
  PROVE  Inv'
<1>1. /\ session' \in Seq(Session) /\ Len(session') = Len(session)
      /\ DOMAIN session' = DOMAIN session
      /\ \A s \in DOMAIN session :
           session'[s] = IF s \in ss THEN [session[s] EXCEPT !.revoked = TRUE] ELSE session[s]
  BY Revoked
<1>2. \A s \in DOMAIN session : session[s] \in Session  BY RowTypes
<1>3. \A s \in DOMAIN session :
        /\ session'[s].user = session[s].user /\ session'[s].authz = session[s].authz
        /\ session'[s].login = session[s].login /\ session'[s].since = session[s].since
        /\ session'[s].verified = session[s].verified
        /\ session[s].revoked => session'[s].revoked
        /\ s \notin ss => session'[s] = session[s]
  BY <1>1, <1>2 DEF Session
<1>4. ATypeOK'  BY <1>1 DEF Inv, ATypeOK
<1>5. AccountInv' /\ TokenInv' /\ LockInv'
  BY DEF Inv, AccountInv, TokenInv, TokenSound, LockInv
<1>6. SessionInv'  BY <1>1, <1>3 DEF Inv, SessionInv, RowSound
<1>7. OneLivePerLogin'  BY <1>1, <1>3 DEF Inv, OneLivePerLogin, Live
<1>8. CallInv'
  <2>. SUFFICES ASSUME NEW d \in Call PROVE Sound(call[d])'  BY DEF CallInv
  <2>1. Sound(call[d])  BY DEF Inv, CallInv
  <2>2. OwnSound(call[d])'  BY <2>1, <1>1, <1>3 DEF Sound, OwnSound
  <2>3. LockSound(call[d])'
    BY <2>1, <1>3, <1>1 DEF Sound, LockSound, OwnSound, SessionOp, Live
  <2>4. ReadSound(call[d])'
    BY <2>1, <1>3 DEF Sound, OwnSound, ReadSound, Assured, SessionOp
  <2>. QED  BY <2>1, <2>2, <2>3, <2>4 DEF Sound
<1>. QED  BY <1>4, <1>5, <1>6, <1>7, <1>8 DEF Inv

LEMMA AppendStep ==
  ASSUME Inv, NEW c \in Call, Return(c), UNCHANGED <<user, token>>,
         NEW ss, NEW r \in Session, session' = Append(Revoke(ss), r), Len(session) < MaxSessions,
         RowSound(r, Len(session) + 1),
         \A s \in DOMAIN session : Live(s) /\ session[s].login = r.login => s \in ss,
         \A d \in Call \ {c} : call[d].pc = "insert" => call[d].session \notin ss
  PROVE  Inv'
<1> DEFINE n == Len(session)
<1>1. n \in Nat /\ DOMAIN session = 1..n /\ \A s \in DOMAIN session : session[s] \in Session
  BY RowTypes
<1>2. /\ Revoke(ss) \in Seq(Session) /\ Len(Revoke(ss)) = n
      /\ \A s \in 1..n :
           Revoke(ss)[s] = IF s \in ss THEN [session[s] EXCEPT !.revoked = TRUE] ELSE session[s]
  BY <1>1, Revoked
<1>3. /\ session' \in Seq(Session) /\ Len(session') = n + 1 /\ DOMAIN session' = 1 .. n + 1
      /\ session'[n + 1] = r /\ \A s \in 1..n : session'[s] = Revoke(ss)[s]
  BY <1>1, <1>2, AppendProperties
<1>4. \A s \in 1..n :
        /\ session'[s].user = session[s].user /\ session'[s].authz = session[s].authz
        /\ session'[s].login = session[s].login /\ session'[s].since = session[s].since
        /\ session'[s].verified = session[s].verified
        /\ session[s].revoked => session'[s].revoked
        /\ s \in ss => session'[s].revoked
        /\ s \notin ss => session'[s] = session[s]
  <2>. SUFFICES ASSUME NEW s \in 1..n
                PROVE  /\ session'[s].user = session[s].user /\ session'[s].authz = session[s].authz
                       /\ session'[s].login = session[s].login /\ session'[s].since = session[s].since
                       /\ session'[s].verified = session[s].verified
                       /\ session[s].revoked => session'[s].revoked
                       /\ s \in ss => session'[s].revoked
                       /\ s \notin ss => session'[s] = session[s]
    OBVIOUS
  <2>1. session'[s] = IF s \in ss THEN [session[s] EXCEPT !.revoked = TRUE] ELSE session[s]
    BY <1>2, <1>3
  <2>2. session[s] \in Session  BY <1>1
  <2>. QED  BY <2>1, <2>2 DEF Session
<1>5. /\ call' = [call EXCEPT ![c] = Idle] /\ call' \in [Call -> Local] /\ call'[c] = Idle
      /\ \A d \in Call \ {c} : call'[d] = call[d]
  BY IdleSound DEF Return, Goto, Inv, ATypeOK
<1>6. ATypeOK'  BY <1>1, <1>3, <1>5, AuthAssumption DEF Inv, ATypeOK
<1>7. AccountInv' /\ TokenInv'
  BY DEF Inv, AccountInv, TokenInv, TokenSound
<1>8. LockInv'  BY <1>5 DEF Inv, LockInv, Idle
<1>9. SessionInv'
  <2>. SUFFICES ASSUME NEW s \in 1 .. n + 1 PROVE RowSound(session[s], s)'
    BY <1>3 DEF SessionInv
  <2>1. CASE s = n + 1  BY <2>1, <1>3 DEF RowSound
  <2>2. CASE s \in 1..n
    <3>1. RowSound(session[s], s)  BY <2>2, <1>1 DEF Inv, SessionInv
    <3>. QED  BY <2>2, <3>1, <1>4 DEF RowSound
  <2>3. s = n + 1 \/ s \in 1..n  BY <1>1
  <2>. QED  BY <2>1, <2>2, <2>3
<1>10. OneLivePerLogin'
  <2>. SUFFICES ASSUME NEW s \in 1 .. n + 1, NEW t \in 1 .. n + 1,
                       ~session'[s].revoked, ~session'[t].revoked,
                       session'[s].login = session'[t].login
                PROVE  s = t
    BY <1>3 DEF OneLivePerLogin, Live
  <2>1. \A i \in 1..n : ~session'[i].revoked => session'[i].login # r.login
    BY <1>1, <1>4 DEF Live
  <2>2. CASE s \in 1..n /\ t \in 1..n
    <3>1. Live(s) /\ Live(t) /\ session[s].login = session[t].login
      BY <2>2, <1>4 DEF Live
    <3>. QED  BY <2>2, <3>1, <1>1 DEF Inv, OneLivePerLogin
  <2>. QED  BY <1>1, <1>3, <2>1, <2>2
<1>11. CallInv'
  <2>. SUFFICES ASSUME NEW d \in Call PROVE Sound(call[d])'  BY DEF CallInv
  <2>1. Sound(call'[d])  BY <1>5, IdleSound DEF Inv, CallInv
  <2>2. \A s \in 1..n : s \in DOMAIN session'  BY <1>1, <1>3
  <2>3. OwnSound(call[d])'  BY <2>1, <2>2, <1>1, <1>4 DEF Sound, OwnSound
  <2>4. LockSound(call[d])'
    BY <2>1, <1>1, <1>4, <1>5 DEF Sound, LockSound, OwnSound, SessionOp, Live, Idle
  <2>5. ReadSound(call[d])'
    BY <2>1, <1>1, <1>4 DEF Sound, OwnSound, ReadSound, Assured, SessionOp
  <2>. QED  BY <2>1, <2>3, <2>4, <2>5 DEF Sound
<1>. QED  BY <1>6, <1>7, <1>8, <1>9, <1>10, <1>11 DEF Inv

(***************************************************************************)
(* One that changes an account that no transaction has locked, ends some   *)
(* requests and revokes some sessions:                                     *)
(***************************************************************************)
LEMMA AccountStep ==
  ASSUME Inv, NEW u \in User, NEW a \in Account, user' = [user EXCEPT ![u] = a],
         a.authz = user[u].authz + 1, a.changes = user[u].changes + 1,
         user[u].enrolment <= a.enrolment, a.enrolment <= a.authz,
         NEW ss, session' = Revoke(ss), UNCHANGED token,
         call' \in [Call -> Local], \A d \in Call : call'[d] = call[d] \/ call'[d] = Idle,
         \A d \in Call : call'[d].pc = "insert" => call'[d].session \notin ss,
         \A d \in Call : call'[d].pc = "commit" => call'[d].user # u
  PROVE  Inv'
<1>1. /\ session' \in Seq(Session) /\ Len(session') = Len(session)
      /\ DOMAIN session' = DOMAIN session
      /\ \A s \in DOMAIN session :
           session'[s] = IF s \in ss THEN [session[s] EXCEPT !.revoked = TRUE] ELSE session[s]
  BY Revoked
<1>2. \A s \in DOMAIN session : session[s] \in Session  BY RowTypes
<1>3. \A s \in DOMAIN session :
        /\ session'[s].user = session[s].user /\ session'[s].authz = session[s].authz
        /\ session'[s].login = session[s].login /\ session'[s].since = session[s].since
        /\ session'[s].verified = session[s].verified
        /\ session[s].revoked => session'[s].revoked
        /\ s \notin ss => session'[s] = session[s]
  BY <1>1, <1>2 DEF Session
<1>4. /\ user \in [User -> Account] /\ user'[u] = a
      /\ \A v \in User \ {u} : user'[v] = user[v]
  BY DEF Inv, ATypeOK
<1>5. \A v \in User : /\ user[v].authz \in Nat /\ user[v].enrolment \in Nat
                      /\ user'[v].authz \in Nat /\ user'[v].enrolment \in Nat
                      /\ user[v].authz <= user'[v].authz
  BY <1>4 DEF Account, Version
<1>6. ATypeOK'  BY <1>1 DEF Inv, ATypeOK
<1>7. AccountInv'  BY <1>4 DEF Inv, AccountInv, Account
<1>8. SessionInv'
  <2>. SUFFICES ASSUME NEW s \in DOMAIN session PROVE RowSound(session[s], s)'
    BY <1>1 DEF SessionInv
  <2>1. RowSound(session[s], s)  BY DEF Inv, SessionInv
  <2>2. session[s].user \in User /\ session[s].authz \in Nat  BY <1>2 DEF Session
  <2>. QED  BY <2>1, <2>2, <1>3, <1>5 DEF RowSound
<1>9. TokenInv'
  <2>. SUFFICES ASSUME NEW k \in DOMAIN token PROVE TokenSound(token[k])'  BY DEF TokenInv
  <2>1. TokenSound(token[k]) /\ token[k] \in Token  BY DEF Inv, ATypeOK, TokenInv
  <2>2. token[k].authz \in Nat  BY <2>1 DEF Token, Version
  <2>. QED  BY <2>1, <2>2, <1>4, <1>5 DEF TokenSound
<1>10. LockInv'  BY DEF Inv, LockInv, Idle
<1>11. OneLivePerLogin'  BY <1>1, <1>3 DEF Inv, OneLivePerLogin, Live
<1>12. CallInv'
  <2>. SUFFICES ASSUME NEW d \in Call PROVE Sound(call[d])'  BY DEF CallInv
  <2>1. Sound(call'[d]) /\ call'[d] \in Local  BY IdleSound DEF Inv, CallInv
  <2>2. call'[d].authz \in Nat  BY <2>1 DEF Local, Version
  <2>3. OwnSound(call[d])'
    BY <2>1, <2>2, <1>1, <1>3, <1>4, <1>5 DEF Sound, OwnSound
  <2>4. LockSound(call[d])'
    BY <2>1, <1>1, <1>3, <1>4 DEF Sound, LockSound, OwnSound, SessionOp, Live
  <2>5. ReadSound(call[d])'
    BY <2>1, <2>2, <1>3, <1>4, <1>5 DEF Sound, OwnSound, ReadSound, Assured, SessionOp
  <2>. QED  BY <2>1, <2>3, <2>4, <2>5 DEF Sound
<1>. QED  BY <1>6, <1>7, <1>8, <1>9, <1>10, <1>11, <1>12 DEF Inv

------------------------------------------------------------------------------
(***************************************************************************)
(* The actions.                                                            *)
(***************************************************************************)
LEMMA Known ==
  ASSUME Inv
  PROVE  /\ \A c \in Call : call[c] \in Local /\ Sound(call[c])
         /\ \A k \in DOMAIN token : k \in 1..MaxTokens /\ token[k] \in Token /\ TokenSound(token[k])
         /\ \A u \in User : /\ user[u] \in Account /\ user[u].authz = user[u].changes + 1
                            /\ user[u].enrolment <= user[u].authz
BY DEF Inv, ATypeOK, CallInv, TokenInv, AccountInv

LEMMA LoginLocal ==
  ASSUME Inv, NEW c \in Call,
         \/ \E u \in User : StartLogin(c, u)
         \/ PrepareChallenge(c)
         \/ \E k \in DOMAIN token : ConsumeChallenge(c, k)
  PROVE  Inv'
<1>1. call[c] \in Local /\ Sound(call[c])  BY Known
<1>2. ASSUME NEW u \in User, StartLogin(c, u) PROVE Inv'
  <2>0. user[u] \in Account /\ user[u].authz = user[u].changes + 1  BY Known
  <2> DEFINE l == [Idle EXCEPT !.op = "login", !.pc = "issue", !.user = u, !.authz = user[u].authz,
                               !.mfa = user[u].mfa, !.since = user[u].changes]
  <2>. /\ user[u].authz \in Version /\ user[u].mfa \in BOOLEAN /\ user[u].changes \in Nat
       /\ 0 \in Version /\ 0 \in SessionId
    BY <2>0, AuthAssumption DEF Account, Version, SessionId
  <2>1. l \in Local  BY DEF Local, Idle, Op, Pc
  <2>2. Sound(l)
    BY <2>0 DEF Idle, Sound, OwnSound, LockSound, ReadSound, SessionOp, Account
  <2>3. l.pc = "issue"  BY DEF Idle
  <2>4. Tokens /\ UNCHANGED <<user, session>>  BY <1>2, SameTokens DEF StartLogin
  <2>5. CASE Goto(c, l)  BY <2>1, <2>2, <2>3, <2>4, <2>5, LocalStep
  <2>6. CASE Return(c)  BY <2>4, <2>6, ReturnStep
  <2>. QED  BY <1>2, <2>5, <2>6 DEF StartLogin
<1>3. CASE PrepareChallenge(c)
  <2> DEFINE l == [call[c] EXCEPT !.pc = "save"]
  <2>1. l \in Local /\ l.pc = "save"  BY <1>1 DEF Local, Pc
  <2>2. Sound(l)
    BY <1>1, <1>3 DEF PrepareChallenge, At, Local, Sound, OwnSound, LockSound, ReadSound, SessionOp
  <2>3. Tokens /\ UNCHANGED <<user, session>>  BY <1>3, SameTokens DEF PrepareChallenge
  <2>4. CASE Advance(c, "save")  BY <2>1, <2>2, <2>3, <2>4, LocalStep DEF Advance
  <2>5. CASE Return(c)  BY <2>3, <2>5, ReturnStep
  <2>. QED  BY <1>3, <2>4, <2>5 DEF PrepareChallenge
<1>4. ASSUME NEW k \in DOMAIN token, ConsumeChallenge(c, k) PROVE Inv'
  <2>0. token[k] \in Token /\ TokenSound(token[k])  BY Known
  <2> DEFINE l == [Idle EXCEPT !.op = "complete", !.pc = "redeem", !.user = token[k].user,
                               !.authz = token[k].authz, !.since = token[k].since]
  <2>1. l \in Local /\ l.pc = "redeem"
    <3>1. /\ token[k].user \in User \union {None} /\ token[k].authz \in Version
          /\ token[k].since \in Nat
      BY <2>0 DEF Token
    <3>2. 0 \in Version /\ 0 \in SessionId  BY AuthAssumption DEF Version, SessionId
    <3>. QED  BY <3>1, <3>2 DEF Local, Idle, Op, Pc
  <2>2. token[k].kind = "challenge"  BY <1>4 DEF ConsumeChallenge, Take
  <2>3. Sound(l)
    BY <2>0, <2>2 DEF Idle, Sound, OwnSound, LockSound, ReadSound, SessionOp, TokenSound
  <2>4. Tokens /\ UNCHANGED <<user, session>> /\ Goto(c, l)
    BY <1>4, TakenToken DEF ConsumeChallenge, Take
  <2>. QED  BY <2>1, <2>3, <2>4, LocalStep
<1>. QED  BY <1>2, <1>3, <1>4

LEMMA SaveSteps ==
  ASSUME Inv, NEW c \in Call, SaveChallenge(c) \/ SaveEnrolment(c) \/ SaveProof(c)
  PROVE  Inv'
<1>1. call[c] \in Local /\ Sound(call[c])  BY Known
<1>2. Return(c) /\ UNCHANGED <<user, session>>
  BY DEF SaveChallenge, SaveEnrolment, SaveProof
<1>3. ASSUME NEW kind \in {"challenge", "enrolment", "reset"}
      PROVE  NewToken(c, kind) \in Token
  BY <1>1 DEF NewToken, Token, Local
<1>4. CASE SaveChallenge(c)
  <2>1. TokenSound(NewToken(c, "challenge"))
    BY <1>1, <1>4 DEF SaveChallenge, At, NewToken, TokenSound, Sound, OwnSound
  <2>. QED  BY <1>2, <1>3, <1>4, <2>1, SavedToken, ReturnStep DEF SaveChallenge
<1>5. CASE SaveEnrolment(c)
  <2>1. TokenSound(NewToken(c, "enrolment"))
    BY <1>1, <1>5 DEF SaveEnrolment, At, NewToken, TokenSound, Sound, OwnSound
  <2>. QED  BY <1>2, <1>3, <1>5, <2>1, SavedToken, ReturnStep DEF SaveEnrolment
<1>6. CASE SaveProof(c)
  <2>1. TokenSound(NewToken(c, "reset"))
    BY <1>1, <1>6 DEF SaveProof, At, NewToken, TokenSound, Sound, OwnSound
  <2>. QED  BY <1>2, <1>3, <1>6, <2>1, SavedToken, ReturnStep DEF SaveProof
<1>. QED  BY <1>4, <1>5, <1>6

LEMMA ReadSteps ==
  ASSUME Inv, NEW c \in Call,
         \/ \E op \in SessionOp, s \in DOMAIN session : ReadSession(c, op, s)
         \/ ReadUser(c) \/ CheckAssurance(c)
  PROVE  Inv'
<1>1. call[c] \in Local /\ Sound(call[c])  BY Known
<1>2. ASSUME NEW s \in DOMAIN session
      PROVE  /\ session[s] \in Session /\ session[s].authz <= user[session[s].user].authz
             /\ s \in SessionId
  BY RowTypes, AuthAssumption DEF Inv, SessionInv, RowSound, SessionId
<1>3. Tokens /\ UNCHANGED <<user, session>>
  BY SameTokens DEF ReadSession, ReadUser, CheckAssurance
<1>4. ASSUME NEW op \in SessionOp, NEW s \in DOMAIN session, ReadSession(c, op, s) PROVE Inv'
  <2> DEFINE l == [Idle EXCEPT !.op = op, !.pc = "user", !.session = s, !.user = session[s].user,
                               !.authz = session[s].authz, !.ok = op = "validate" /\ Acceptable(s)]
  <2>1. session[s].user \in User /\ session[s].authz \in Version /\ op \in Op
    BY <1>2 DEF Session, SessionOp, Op, Version
  <2>2. l \in Local /\ l.pc = "user" /\ l.op = op /\ l.user = session[s].user
        /\ l.session = s /\ l.authz = session[s].authz
    <3>1. (op = "validate" /\ Acceptable(s)) \in BOOLEAN  OBVIOUS
    <3>2. 0 \in Version /\ FALSE \in BOOLEAN /\ 0 \in Nat  BY AuthAssumption DEF Version
    <3>. QED  BY <1>2, <2>1, <3>1, <3>2 DEF Local, Idle, Pc
  <2>3. l.ok = (op = "validate" /\ Acceptable(s))  BY DEF Idle
  <2>4. user[l.user].authz \in Nat /\ l.authz \in Nat  BY <2>1, <2>2, Known DEF Account, Version
  <2>5. OwnSound(l) /\ LockSound(l)
    BY <1>2, <2>1, <2>2 DEF OwnSound, LockSound, SessionOp
  <2>6. ReadSound(l)
    <3>1. Live(s) /\ user[session[s].user].active  BY <1>4 DEF ReadSession
    <3>2. ASSUME ~Acceptable(s)
          PROVE  user[l.user].authz > l.authz \/ (user[l.user].mfa /\ ~Assured(s))
      BY <1>2, <2>2, <2>4, <3>1, <3>2 DEF Acceptable, Current
    <3>. QED  BY <2>2, <2>3, <3>2 DEF ReadSound
  <2>7. Sound(l)  BY <2>2, <2>5, <2>6 DEF Sound, SessionOp
  <2>. HIDE DEF l
  <2>8. Goto(c, l)  BY <1>4 DEF ReadSession, l
  <2>. QED  BY <1>3, <2>2, <2>7, <2>8, LocalStep
<1>5. CASE ReadUser(c)
  <2> DEFINE l == [call[c] EXCEPT !.pc = After(c),
                                  !.mfa = call[c].op = "refresh" /\ user[call[c].user].mfa]
  <2>1. CASE Return(c)  BY <1>3, <2>1, ReturnStep
  <2>2. CASE SameVersion(c) /\ Goto(c, l) /\ call[c].op \in SessionOp
    <3>1. After(c) \in {"rotate", "assure", "accepted", "again", "consume"}
          /\ (call[c].op # "validate" => After(c) \notin {"assure", "accepted"})
          /\ (After(c) = "accepted" => ~user[call[c].user].mfa)
      BY <2>2 DEF After, SessionOp
    <3>2. l \in Local /\ l.pc = After(c)
      <4>1. (call[c].op = "refresh" /\ user[call[c].user].mfa) \in BOOLEAN  OBVIOUS
      <4>. QED  BY <1>1, <3>1, <4>1 DEF Local, Pc
    <3>3. l.op = call[c].op /\ l.user = call[c].user /\ l.session = call[c].session
          /\ l.authz = call[c].authz /\ l.ok = call[c].ok /\ l.of = call[c].of
          /\ l.since = call[c].since
      BY <1>1 DEF Local
    <3>4. call[c].pc = "user"  BY <1>5 DEF ReadUser
    <3>5. OwnSound(l) /\ LockSound(l)
      BY <1>1, <2>2, <3>1, <3>2, <3>3, <3>4 DEF Sound, OwnSound, LockSound, SessionOp
    <3>6. call[c].authz \in Nat  BY <1>1 DEF Local, Version
    <3>7. ReadSound(l)
      BY <1>1, <2>2, <3>1, <3>2, <3>3, <3>4, <3>6 DEF Sound, ReadSound, SameVersion
    <3>8. Sound(l)  BY <2>2, <3>1, <3>2, <3>3, <3>5, <3>7 DEF Sound, SessionOp
    <3>. HIDE DEF l
    <3>. QED  BY <1>3, <2>2, <3>1, <3>2, <3>8, LocalStep
  <2>3. call[c].op \in SessionOp \/ Return(c)
    BY <1>1, <1>5 DEF ReadUser, Sound, OwnSound
  <2>. QED  BY <1>5, <2>1, <2>2, <2>3 DEF ReadUser
<1>6. CASE CheckAssurance(c)
  <2> DEFINE l == [call[c] EXCEPT !.pc = "accepted"]
  <2>1. CASE Return(c)  BY <1>3, <2>1, ReturnStep
  <2>2. CASE Acceptable(call[c].session) /\ user[call[c].user].mfa /\ Goto(c, l)
    <3>1. l \in Local /\ l.pc = "accepted"  BY <1>1 DEF Local, Pc
    <3>2. l.op = call[c].op /\ l.user = call[c].user /\ l.session = call[c].session
          /\ l.authz = call[c].authz /\ l.ok = call[c].ok
      BY <1>1 DEF Local
    <3>3. call[c].op = "validate" /\ call[c].pc = "assure"  BY <1>6 DEF CheckAssurance, At
    <3>4. OwnSound(l) /\ LockSound(l)
      BY <1>1, <3>1, <3>2, <3>3 DEF Sound, OwnSound, LockSound, SessionOp
    <3>5. l.ok
      <4>1. user[call[c].user].authz = call[c].authz /\ Assured(call[c].session)
        BY <1>1, <2>2, <3>3 DEF Acceptable, Current, Sound, OwnSound, SessionOp
      <4>2. call[c].authz \in Nat  BY <1>1 DEF Local, Version
      <4>. QED  BY <1>1, <3>2, <3>3, <4>1, <4>2 DEF Sound, ReadSound
    <3>6. Sound(l)  BY <3>1, <3>2, <3>3, <3>4, <3>5 DEF Sound, ReadSound
    <3>. HIDE DEF l
    <3>. QED  BY <1>3, <2>2, <3>1, <3>6, LocalStep
  <2>. QED  BY <1>6, <2>1, <2>2 DEF CheckAssurance, Advance
<1>. QED  BY <1>4, <1>5, <1>6

LEMMA AdvanceStep ==
  ASSUME Inv, NEW c \in Call, NEW pc \in Pc \ {"idle", "user", "assure", "accepted"},
         Advance(c, pc), UNCHANGED <<user, session>>, Tokens, call[c].op # "none",
         pc = "insert" => /\ call[c].op = "refresh" /\ Live(call[c].session)
                          /\ ~SessionLocked(call[c].session),
         pc = "commit" => call[c].op \in {"enrol", "reset"} /\ ~Locked(call[c].user),
         pc = "commit" /\ call[c].op = "reset" =>
           user[call[c].user].mfa /\ user[call[c].user].enrolment = call[c].of,
         pc = "lock" => call[c].op # "reset"
  PROVE  Inv'
<1> DEFINE l == [call[c] EXCEPT !.pc = pc]
<1>1. call[c] \in Local /\ Sound(call[c])  BY Known
<1>2. l \in Local /\ l.pc = pc /\ Goto(c, l)  BY <1>1 DEF Local, Advance
<1>3. l.op = call[c].op /\ l.user = call[c].user /\ l.session = call[c].session
      /\ l.authz = call[c].authz /\ l.of = call[c].of /\ l.since = call[c].since
  BY <1>1 DEF Local
<1>. HIDE DEF l
<1>4. OwnSound(l)  BY <1>1, <1>2, <1>3 DEF Sound, OwnSound
<1>5. LockSound(l) /\ ReadSound(l)  BY <1>2, <1>3 DEF LockSound, ReadSound
<1>6. Sound(l)  BY <1>2, <1>3, <1>4, <1>5 DEF Sound
<1>. QED  BY <1>2, <1>3, <1>6, LocalStep

LEMMA AdvanceSteps ==
  ASSUME Inv, NEW c \in Call,
         \/ RotateMatch(c) \/ RotateRevoke(c) \/ BeginAgain(c) \/ BeginReread(c)
         \/ EnrolLock(c) \/ PrepareAgain(c) \/ ResetLock(c)
         \/ \E k \in DOMAIN token : ConsumeEnrolment(c, k)
  PROVE  Inv'
<1>1. call[c] \in Local /\ Sound(call[c])  BY Known
<1>2. UNCHANGED <<user, session>> /\ call[c].op # "none"
  BY DEF RotateMatch, RotateRevoke, BeginAgain, BeginReread, ConsumeEnrolment, EnrolLock,
         PrepareAgain, ResetLock, At
<1>3. Tokens
  BY SameTokens, TakenToken
     DEF RotateMatch, RotateRevoke, BeginAgain, BeginReread, ConsumeEnrolment, EnrolLock,
         PrepareAgain, ResetLock, Take
<1>4. CASE Return(c)  BY <1>2, <1>3, <1>4, ReturnStep
<1>5. CASE RotateRevoke(c) /\ Advance(c, "insert") /\ StillLive(c)
  BY <1>2, <1>3, <1>5, AdvanceStep DEF RotateRevoke, At, StillLive, Pc
<1>6. CASE \E pc \in {"wait", "reread", "save"} : Advance(c, pc)
  BY <1>2, <1>3, <1>6, AdvanceStep DEF Pc
<1>7. CASE (\E k \in DOMAIN token : ConsumeEnrolment(c, k)) /\ Advance(c, "lock")
  BY <1>2, <1>3, <1>7, AdvanceStep DEF ConsumeEnrolment, At, Pc
<1>8. CASE EnrolLock(c) /\ Advance(c, "commit")
  BY <1>2, <1>3, <1>8, AdvanceStep DEF EnrolLock, At, Pc
<1>9. CASE ResetLock(c) /\ Advance(c, "commit") /\ SameTarget(c)
  <2>1. user[call[c].user].mfa /\ user[call[c].user].enrolment = call[c].of
    BY <1>1, <1>9 DEF ResetLock, At, SameTarget, Sound, OwnSound
  <2>. QED  BY <1>2, <1>3, <1>9, <2>1, AdvanceStep DEF ResetLock, At, Pc
<1>. QED
  BY <1>4, <1>5, <1>6, <1>7, <1>8, <1>9
     DEF RotateMatch, RotateRevoke, BeginAgain, BeginReread, ConsumeEnrolment, EnrolLock,
         PrepareAgain, ResetLock

LEMMA ResetLocal ==
  ASSUME Inv, NEW c \in Call,
         \/ \E op \in {"prepare", "reset"}, u \in User : ReadTarget(c, op, u)
         \/ \E k \in DOMAIN token : ConsumeProof(c, k)
  PROVE  Inv'
<1>1. call[c] \in Local /\ Sound(call[c])  BY Known
<1>2. \A k \in DOMAIN token : token[k] \in Token /\ TokenSound(token[k])  BY Known
<1>3. ASSUME NEW op \in {"prepare", "reset"}, NEW u \in User, ReadTarget(c, op, u) PROVE Inv'
  <2> DEFINE pc == IF op = "prepare" THEN "again" ELSE "consume"
             l == [Idle EXCEPT !.op = op, !.pc = pc, !.user = u, !.authz = user[u].authz,
                               !.of = user[u].enrolment]
  <2>1. user[u].authz \in Version /\ user[u].enrolment \in Version
    BY Known DEF Account, Version
  <2>2. l \in Local
    <3>1. Idle \in Local /\ op \in Op /\ pc \in Pc  BY IdleSound DEF Op, Pc
    <3>. HIDE DEF pc
    <3>. QED  BY <2>1, <3>1 DEF Local
  <2>3. l.op = op /\ l.pc = pc /\ l.user = u /\ l.authz = user[u].authz /\ l.of = user[u].enrolment
    BY DEF Idle
  <2>4. Goto(c, l) /\ UNCHANGED <<user, session>> /\ Tokens
    BY <1>3, SameTokens DEF ReadTarget
  <2>. HIDE DEF l
  <2>5. user[u].authz \in Nat  BY <2>1 DEF Version
  <2>6. Sound(l)
    BY <2>3, <2>5 DEF Sound, OwnSound, LockSound, ReadSound, SessionOp
  <2>. QED  BY <2>2, <2>3, <2>4, <2>6, LocalStep
<1>4. ASSUME NEW k \in DOMAIN token, ConsumeProof(c, k) PROVE Inv'
  <2> DEFINE l == [call[c] EXCEPT !.pc = "lock", !.of = token[k].of]
  <2>1. Tokens /\ UNCHANGED <<user, session>> /\ token[k].kind = "reset"
        /\ call[c].op = "reset"
    BY <1>4, TakenToken DEF ConsumeProof, Take, At
  <2>2. CASE Return(c)  BY <2>1, <2>2, ReturnStep
  <2>3. CASE SameProof(c, token[k]) /\ Goto(c, l)
    <3>1. l \in Local  BY <1>1, <1>2 DEF Local, Token, Pc
    <3>2. l.op = "reset" /\ l.pc = "lock" /\ l.user = call[c].user /\ l.authz = call[c].authz
          /\ l.of = token[k].of
      BY <1>1, <2>1 DEF Local
    <3>. HIDE DEF l
    <3>3. OwnSound(l)
      BY <1>1, <1>2, <2>1, <2>3, <3>2 DEF SameProof, TokenSound, Sound, OwnSound, SessionOp
    <3>4. Sound(l)  BY <3>2, <3>3 DEF Sound, LockSound, ReadSound
    <3>. QED  BY <2>1, <2>3, <3>1, <3>2, <3>4, LocalStep
  <2>. QED  BY <1>4, <2>2, <2>3 DEF ConsumeProof
<1>. QED  BY <1>3, <1>4

LEMMA IssueSteps ==
  ASSUME Inv, NEW c \in Call, IssueSession(c) \/ RedeemAndCreateSession(c)
  PROVE  Inv'
<1> DEFINE l == call[c]
           Row(authz, verified) ==
             [user |-> l.user, authz |-> authz, revoked |-> FALSE, verified |-> verified,
              login |-> Len(session) + 1, since |-> l.since]
<1>1. l \in Local /\ Sound(l)  BY Known
<1>2. l.op \in {"login", "complete"} /\ Return(c) /\ UNCHANGED <<user, token>>
  BY DEF IssueSession, RedeemAndCreateSession, At
<1>3. /\ l.user \in User /\ l.authz \in Nat /\ l.since \in Nat /\ l.authz = l.since + 1
      /\ l.authz <= user[l.user].authz /\ l.authz \in Version
  BY <1>1, <1>2 DEF Sound, OwnSound, Local, Version
<1>4. Len(session) \in Nat /\ DOMAIN session = 1..Len(session)  BY RowTypes
<1>5. \A s \in DOMAIN session : session[s].login # Len(session) + 1
  <2>. SUFFICES ASSUME NEW s \in DOMAIN session PROVE session[s].login # Len(session) + 1
    OBVIOUS
  <2>1. session[s].login <= s /\ session[s].login \in Nat
    BY RowTypes DEF Inv, SessionInv, RowSound, Session
  <2>. QED  BY <2>1, <1>4
<1>6. ASSUME NEW verified \in Version,
             Insert(l.user, l.authz, verified, Len(session) + 1, l.since, session)
      PROVE  Inv'
  <2> DEFINE r == Row(l.authz, verified)
  <2>1. session' = Append(Revoke({}), r) /\ Len(session) < MaxSessions
    BY <1>6, Unrevoked DEF Insert
  <2>2. l.authz \in 1..MaxVersion /\ Len(session) + 1 \in 1..MaxSessions
    BY <1>3, <1>4, <2>1, AuthAssumption DEF Version
  <2>3. r \in Session  BY <1>3, <2>2 DEF Session
  <2>4. RowSound(r, Len(session) + 1)  BY <1>3, <1>4 DEF RowSound
  <2>5. r.login = Len(session) + 1  OBVIOUS
  <2>. HIDE DEF r
  <2>. QED  BY <1>2, <1>5, <2>1, <2>3, <2>4, <2>5, AppendStep
<1>7. CASE IssueSession(c)
  <2>1. 0 \in Version  BY AuthAssumption DEF Version
  <2>. QED  BY <1>6, <1>7, <2>1 DEF IssueSession
<1>8. CASE RedeemAndCreateSession(c)
  <2>1. CASE Redeemable(l.user, l.authz)
    <3>1. user[l.user].authz = l.authz /\ user[l.user].enrolment \in Version
      BY <1>3, <2>1, Known DEF Redeemable, Current, Account
    <3>. QED  BY <1>6, <1>8, <2>1, <3>1 DEF RedeemAndCreateSession
  <2>2. CASE UNCHANGED session  BY <1>2, <2>2, SameTokens, ReturnStep
  <2>. QED  BY <1>8, <2>1, <2>2 DEF RedeemAndCreateSession
<1>. QED  BY <1>7, <1>8

LEMMA RotateSteps ==
  ASSUME Inv, NEW c \in Call, RotateInsert(c) \/ RotateWithAssurance(c)
  PROVE  Inv'
<1> DEFINE l == call[c]
           s == call[c].session
<1>1. l \in Local /\ Sound(l)  BY Known
<1>2. l.op = "refresh" /\ Return(c) /\ UNCHANGED <<user, token>>
  BY DEF RotateInsert, RotateWithAssurance, At
<1>3. s \in DOMAIN session /\ session[s].user = l.user /\ session[s].authz = l.authz
  BY <1>1, <1>2 DEF Sound, OwnSound, SessionOp
<1>4. /\ Len(session) \in Nat /\ DOMAIN session = 1..Len(session)
      /\ session[s] \in Session /\ RowSound(session[s], s)
  BY <1>3, RowTypes DEF Inv, SessionInv
<1>5. ASSUME NEW verified \in Version, Rotate(c, verified), Live(s),
             \A d \in Call \ {c} : call[d].pc = "insert" => call[d].session # s
      PROVE  Inv'
  <2> DEFINE r == [user |-> l.user, authz |-> l.authz, revoked |-> FALSE, verified |-> verified,
                   login |-> session[s].login, since |-> session[s].since]
  <2>1. session' = Append(Revoke({s}), r) /\ Len(Revoke({s})) < MaxSessions
    BY <1>5 DEF Rotate, Insert
  <2>2. Len(session) < MaxSessions  BY <2>1, Revoked
  <2>3. r \in Session  BY <1>3, <1>4 DEF Session
  <2>4. RowSound(r, Len(session) + 1)
    BY <1>3, <1>4 DEF RowSound, Session
  <2>5. \A t \in DOMAIN session : Live(t) /\ session[t].login = r.login => t \in {s}
    BY <1>3, <1>5 DEF Inv, OneLivePerLogin
  <2>6. \A d \in Call \ {c} : call[d].pc = "insert" => call[d].session \notin {s}
    BY <1>5
  <2>. HIDE DEF r
  <2>. QED  BY <1>2, <2>1, <2>2, <2>3, <2>4, <2>5, <2>6, AppendStep
<1>6. CASE RotateInsert(c)
  <2>1. Live(s) /\ l.pc = "insert"  BY <1>1, <1>6 DEF RotateInsert, At, Sound, LockSound
  <2>2. \A d \in Call \ {c} : call[d].pc = "insert" => call[d].session # s
    BY <2>1 DEF Inv, LockInv
  <2>3. 0 \in Version  BY AuthAssumption DEF Version
  <2>. QED  BY <1>5, <1>6, <2>1, <2>2, <2>3 DEF RotateInsert
<1>7. CASE RotateWithAssurance(c)
  <2>1. CASE UNCHANGED session  BY <1>2, <2>1, SameTokens, ReturnStep
  <2>2. CASE Rotatable(c) /\ Rotate(c, session[s].verified)
    <3>1. session[s].verified \in Version  BY <1>4 DEF Session
    <3>. QED  BY <1>5, <1>7, <2>2, <3>1 DEF RotateWithAssurance, Rotatable, SessionLocked
  <2>. QED  BY <1>7, <2>1, <2>2 DEF RotateWithAssurance
<1>. QED  BY <1>6, <1>7

LEMMA CommitSteps ==
  ASSUME Inv, NEW c \in Call, EnrolCommit(c) \/ ResetCommit(c)
  PROVE  Inv'
<1> DEFINE u == call[c].user
<1>1. call[c] \in Local /\ Sound(call[c]) /\ call[c].pc = "commit" /\ call[c].op # "none"
  BY Known DEF EnrolCommit, ResetCommit, At
<1>2. u \in User  BY <1>1 DEF Sound, OwnSound
<1>3. user[u] \in Account /\ user[u].enrolment <= user[u].authz /\ user \in [User -> Account]
  BY <1>2, Known DEF Inv, ATypeOK
<1>4. user[u].authz < MaxVersion /\ Return(c) /\ UNCHANGED token /\ RevokeAll(c, u)
  BY DEF EnrolCommit, ResetCommit
<1>5. /\ call' = [call EXCEPT ![c] = Idle] /\ call' \in [Call -> Local] /\ call'[c] = Idle
      /\ \A d \in Call \ {c} : call'[d] = call[d]
  BY <1>4, IdleSound DEF Return, Goto, Inv, ATypeOK
<1>6. /\ session' = Revoke(SessionsOf(u))
      /\ \A d \in Call : call'[d].pc = "insert" => call'[d].session \notin SessionsOf(u)
  BY <1>4, <1>5 DEF RevokeAll, Idle
<1>7. \A d \in Call : call'[d].pc = "commit" => call'[d].user # u
  BY <1>1, <1>5 DEF Inv, LockInv, Idle
<1>8. ASSUME NEW a \in Account, user' = [user EXCEPT ![u] = a], a.authz = user[u].authz + 1,
             a.changes = user[u].changes + 1, user[u].enrolment <= a.enrolment,
             a.enrolment <= a.authz
      PROVE  Inv'
  <2>1. \A d \in Call : call'[d] = call[d] \/ call'[d] = Idle  BY <1>5
  <2>2. call' \in [Call -> Local] /\ session' = Revoke(SessionsOf(u)) /\ UNCHANGED token
    BY <1>4, <1>5, <1>6
  <2>. HIDE DEF u
  <2>. QED  BY <1>2, <1>6, <1>7, <1>8, <2>1, <2>2, AccountStep
<1>9. /\ user[u].authz + 1 \in 1..MaxVersion /\ user[u].changes + 1 \in Nat
      /\ user[u].enrolment + 1 \in Version
  BY <1>3, <1>4, AuthAssumption DEF Account, Version
<1>10. CASE EnrolCommit(c)
  <2> DEFINE a == [user[u] EXCEPT !.mfa = TRUE, !.enrolment = @ + 1, !.authz = NextVersion(u),
                                  !.changes = @ + 1]
  <2>1. user' = [user EXCEPT ![u] = a]  BY <1>10 DEF EnrolCommit
  <2>2. a \in Account  BY <1>3, <1>9 DEF Account, NextVersion
  <2>3. /\ a.authz = user[u].authz + 1 /\ a.changes = user[u].changes + 1
        /\ user[u].enrolment <= a.enrolment /\ a.enrolment <= a.authz
    BY <1>3 DEF Account, NextVersion, Version
  <2>. HIDE DEF a
  <2>. QED  BY <1>8, <2>1, <2>2, <2>3
<1>11. CASE ResetCommit(c)
  <2> DEFINE a == [user[u] EXCEPT !.mfa = FALSE, !.authz = NextVersion(u), !.changes = @ + 1]
  <2>1. user' = [user EXCEPT ![u] = a]  BY <1>11 DEF ResetCommit
  <2>2. a \in Account  BY <1>3, <1>9 DEF Account, NextVersion
  <2>3. /\ a.authz = user[u].authz + 1 /\ a.changes = user[u].changes + 1
        /\ user[u].enrolment <= a.enrolment /\ a.enrolment <= a.authz
    BY <1>3 DEF Account, NextVersion, Version
  <2>. HIDE DEF a
  <2>. QED  BY <1>8, <2>1, <2>2, <2>3
<1>. QED  BY <1>10, <1>11

LEMMA AdministrationSteps ==
  ASSUME Inv, NEW u \in User, NEW active \in BOOLEAN, SetState(u, active) \/ ChangeAccount(u)
  PROVE  Inv'
<1>1. user[u] \in Account /\ user[u].enrolment <= user[u].authz /\ user \in [User -> Account]
  BY Known DEF Inv, ATypeOK
<1>2. ~Locked(u) /\ user[u].authz < MaxVersion /\ UNCHANGED <<session, token, call>>
  BY DEF SetState, ChangeAccount
<1>3. session' = Revoke({}) /\ call' \in [Call -> Local]
  BY <1>2, Unrevoked DEF Inv, ATypeOK
<1>4. \A d \in Call : call'[d] = call[d] /\ (call'[d].pc = "commit" => call'[d].user # u)
  BY <1>2 DEF Locked
<1>5. ASSUME NEW a \in Account, user' = [user EXCEPT ![u] = a], a.authz = user[u].authz + 1,
             a.changes = user[u].changes + 1, a.enrolment = user[u].enrolment
      PROVE  Inv'
  <2> DEFINE ss == {}
  <2>1. a.enrolment <= a.authz /\ user[u].enrolment <= a.enrolment
    BY <1>1, <1>5 DEF Account, Version
  <2>2. /\ \A d \in Call : call'[d] = call[d] \/ call'[d] = Idle
        /\ \A d \in Call : call'[d].pc = "insert" => call'[d].session \notin ss
        /\ \A d \in Call : call'[d].pc = "commit" => call'[d].user # u
        /\ session' = Revoke(ss) /\ UNCHANGED token
    BY <1>2, <1>3, <1>4
  <2>. HIDE DEF ss
  <2>. QED  BY <1>3, <1>5, <2>1, <2>2, AccountStep
<1>6. user[u].authz + 1 \in 1..MaxVersion /\ user[u].changes + 1 \in Nat
  BY <1>1, <1>2, AuthAssumption DEF Account
<1>7. CASE SetState(u, active)
  <2> DEFINE a == Switched(u, active)
  <2>1. user' = [user EXCEPT ![u] = a]  BY <1>7 DEF SetState
  <2>2. a \in Account /\ a.authz = user[u].authz + 1 /\ a.changes = user[u].changes + 1
        /\ a.enrolment = user[u].enrolment
    BY <1>1, <1>6 DEF Switched, Account, NextVersion
  <2>. QED  BY <1>5, <2>1, <2>2
<1>8. CASE ChangeAccount(u)
  <2> DEFINE a == [user[u] EXCEPT !.authz = NextVersion(u), !.changes = @ + 1]
  <2>1. user' = [user EXCEPT ![u] = a]  BY <1>8 DEF ChangeAccount
  <2>2. a \in Account /\ a.authz = user[u].authz + 1 /\ a.changes = user[u].changes + 1
        /\ a.enrolment = user[u].enrolment
    BY <1>1, <1>6 DEF Account, NextVersion
  <2>. HIDE DEF a
  <2>. QED  BY <1>5, <2>1, <2>2
<1>. QED  BY <1>7, <1>8

LEMMA StepHolds == Inv /\ [ANext]_authVars => Inv'
<1>. SUFFICES ASSUME Inv, [ANext]_authVars PROVE Inv'  OBVIOUS
<1>1. ASSUME NEW c \in Call, Abort(c) \/ Finish(c) PROVE Inv'
  BY <1>1, SameTokens, ReturnStep DEF Abort, Finish
<1>2. ASSUME NEW s \in DOMAIN session, Logout(s) PROVE Inv'
  <2>1. \A d \in Call : call[d].pc = "insert" => call[d].session \notin {s}
    BY <1>2 DEF Logout, SessionLocked
  <2>. QED  BY <1>2, <2>1, RevokeStep DEF Logout
<1>3. ASSUME NEW k \in DOMAIN token, Expire(k) PROVE Inv'
  BY <1>3, TakenToken, ExpireStep DEF Expire
<1>4. CASE UNCHANGED authVars
  BY <1>4, SameTokens, ExpireStep DEF authVars
<1>5. ASSUME NEW c \in Call, Request(c) PROVE Inv'
  BY <1>1, <1>5, LoginLocal, SaveSteps, ReadSteps, AdvanceSteps, ResetLocal, IssueSteps,
     RotateSteps, CommitSteps
     DEF Request
<1>. QED  BY <1>2, <1>3, <1>4, <1>5, AdministrationSteps DEF ANext

LEMMA InvHolds == ASpec => []Inv
<1>. QED  BY InitHolds, StepHolds, PTL DEF ASpec

------------------------------------------------------------------------------
\* Every row, token and request has its type; no version exceeds its bound.
THEOREM SessionTypeCorrect == ASpec => []ATypeOK
<1>1. Inv => ATypeOK  BY DEF Inv
<1>. QED  BY <1>1, InvHolds, PTL

\* However the rotations of a refresh token interleave, a login has at most one
\* session that is not revoked (AuthRepository.rotateSession and
\* MfaCredentialRepository.rotateSession).
THEOREM OneLivePerLoginCorrect == ASpec => []OneLivePerLogin
<1>1. Inv => OneLivePerLogin  BY DEF Inv
<1>. QED  BY <1>1, InvHolds, PTL

\* A session that the checks of validate() would let in stems from a login whose
\* password was checked after the account's last change.
THEOREM LoggedInSinceChangeCorrect == ASpec => []LoggedInSinceChange
<1>1. ASSUME Inv, NEW s \in DOMAIN session, Acceptable(s)
      PROVE  session[s].since = user[session[s].user].changes
  <2>1. session[s] \in Session /\ session[s].authz = session[s].since + 1
    BY <1>1, RowTypes DEF Inv, SessionInv, RowSound
  <2>2. session[s].user \in User /\ session[s].since \in Nat  BY <2>1 DEF Session
  <2>3. user[session[s].user].authz = session[s].authz  BY <1>1 DEF Acceptable, Current
  <2>4. /\ user[session[s].user].changes \in Nat
        /\ user[session[s].user].authz = user[session[s].user].changes + 1
    BY <1>1, <2>2, Known DEF Account
  <2>. QED  BY <2>1, <2>2, <2>3, <2>4
<1>2. Inv => LoggedInSinceChange  BY <1>1 DEF LoggedInSinceChange
<1>. QED  BY <1>2, InvHolds, PTL

\* What no step may do, for the next theorem: a row keeps all but its revocation,
\* and an account keeps its version only if it does not change.
LEMMA RowsKept ==
  ASSUME Inv, [ANext]_authVars, NEW s \in DOMAIN session
  PROVE  /\ session'[s].user = session[s].user /\ session'[s].authz = session[s].authz
         /\ session'[s].verified = session[s].verified
         /\ session[s].revoked => session'[s].revoked
<1>1. session[s] \in Session /\ session \in Seq(Session) /\ s \in 1..Len(session)
  BY RowTypes DEF Inv, ATypeOK
<1>2. ASSUME NEW ss
      PROVE  /\ Revoke(ss)[s].user = session[s].user /\ Revoke(ss)[s].authz = session[s].authz
             /\ Revoke(ss)[s].verified = session[s].verified
             /\ session[s].revoked => Revoke(ss)[s].revoked
             /\ Revoke(ss) \in Seq(Session) /\ s \in 1..Len(Revoke(ss))
  <2>1. /\ Revoke(ss) \in Seq(Session) /\ Len(Revoke(ss)) = Len(session)
        /\ Revoke(ss)[s] = IF s \in ss THEN [session[s] EXCEPT !.revoked = TRUE] ELSE session[s]
    BY Revoked
  <2>. QED  BY <1>1, <2>1 DEF Session
<1>3. ASSUME NEW old \in Seq(Session), NEW u, NEW authz, NEW verified, NEW login, NEW since,
             s \in 1..Len(old), Insert(u, authz, verified, login, since, old)
      PROVE  session'[s] = old[s]
  BY <1>3 DEF Insert
<1>4. CASE UNCHANGED session  BY <1>4
<1>5. ASSUME NEW ss, session' = Revoke(ss)
      PROVE  /\ session'[s].user = session[s].user /\ session'[s].authz = session[s].authz
             /\ session'[s].verified = session[s].verified
             /\ session[s].revoked => session'[s].revoked
  BY <1>2, <1>5
<1>6. ASSUME NEW c \in Call, IssueSession(c) \/ RedeemAndCreateSession(c)
      PROVE  session'[s] = session[s]
  BY <1>1, <1>3, <1>6 DEF IssueSession, RedeemAndCreateSession
<1>7. ASSUME NEW c \in Call, RotateInsert(c) \/ RotateWithAssurance(c)
      PROVE  session'[s] = session[s] \/ session'[s] = Revoke({call[c].session})[s]
  BY <1>2, <1>3, <1>7 DEF RotateInsert, RotateWithAssurance, Rotate
<1>8. ASSUME NEW c \in Call, EnrolCommit(c) \/ ResetCommit(c)
      PROVE  session' = Revoke(SessionsOf(call[c].user))
  BY <1>8 DEF EnrolCommit, ResetCommit, RevokeAll
<1>9. CASE \E r \in DOMAIN session : Logout(r)
  BY <1>5, <1>9 DEF Logout
<1>10. CASE \E c \in Call : Request(c)
  <2>1. PICK c \in Call : Request(c)  BY <1>10
  <2>2. \/ UNCHANGED session
        \/ IssueSession(c) \/ RedeemAndCreateSession(c)
        \/ RotateInsert(c) \/ RotateWithAssurance(c)
        \/ EnrolCommit(c) \/ ResetCommit(c)
    BY <2>1
       DEF Request, StartLogin, PrepareChallenge, SaveChallenge, ConsumeChallenge, ReadSession,
           ReadUser, CheckAssurance, Finish, RotateMatch, RotateRevoke, BeginAgain, BeginReread,
           SaveEnrolment, ConsumeEnrolment, EnrolLock, ReadTarget, PrepareAgain, SaveProof, ConsumeProof,
           ResetLock, Abort
  <2>3. CASE RotateInsert(c) \/ RotateWithAssurance(c)  BY <1>2, <1>7, <2>3
  <2>4. CASE EnrolCommit(c) \/ ResetCommit(c)  BY <1>5, <1>8, <2>4
  <2>. QED  BY <1>4, <1>6, <2>2, <2>3, <2>4
<1>. QED  BY <1>4, <1>9, <1>10 DEF ANext, Expire, SetState, ChangeAccount, authVars

LEMMA VersionMovesOn ==
  ASSUME Inv, [ANext]_authVars, NEW u \in User
  PROVE  user'[u] = user[u] \/ user'[u].authz = user[u].authz + 1
<1>1. user \in [User -> Account] /\ user[u] \in Account  BY DEF Inv, ATypeOK
<1>2. CASE UNCHANGED user  BY <1>2
<1>3. ASSUME NEW c \in Call, EnrolCommit(c) \/ ResetCommit(c)
      PROVE  user'[u] = user[u] \/ user'[u].authz = user[u].authz + 1
  <2> DEFINE v == call[c].user
  <2>1. CASE u # v  BY <1>1, <1>3, <2>1 DEF EnrolCommit, ResetCommit
  <2>2. CASE u = v /\ EnrolCommit(c)
    BY <1>1, <2>2 DEF EnrolCommit, NextVersion, Account
  <2>3. CASE u = v /\ ResetCommit(c)
    BY <1>1, <2>3 DEF ResetCommit, NextVersion, Account
  <2>. QED  BY <1>3, <2>1, <2>2, <2>3
<1>4. ASSUME NEW v \in User, NEW active \in BOOLEAN, SetState(v, active) \/ ChangeAccount(v)
      PROVE  user'[u] = user[u] \/ user'[u].authz = user[u].authz + 1
  <2>1. CASE SetState(v, active)
    BY <1>1, <2>1 DEF SetState, Switched, NextVersion, Account
  <2>2. CASE ChangeAccount(v)
    BY <1>1, <2>2 DEF ChangeAccount, NextVersion, Account
  <2>. QED  BY <1>4, <2>1, <2>2
<1>5. CASE \E c \in Call : Request(c)
  <2>1. PICK c \in Call : Request(c)  BY <1>5
  <2>2. UNCHANGED user \/ EnrolCommit(c) \/ ResetCommit(c)
    BY <2>1
       DEF Request, StartLogin, IssueSession, PrepareChallenge, SaveChallenge, ConsumeChallenge,
           RedeemAndCreateSession, ReadSession, ReadUser, CheckAssurance, Finish, RotateMatch,
           RotateRevoke, RotateInsert, RotateWithAssurance, BeginAgain, BeginReread,
           SaveEnrolment, ConsumeEnrolment, EnrolLock, ReadTarget, PrepareAgain, SaveProof, ConsumeProof, ResetLock, Abort
  <2>. QED  BY <1>2, <1>3, <2>2
<1>. QED  BY <1>2, <1>4, <1>5 DEF ANext, Expire, Logout, authVars

\* A session that would be refused is never accepted again, although its row may
\* not be revoked: a disabled user who is enabled, or an enrolment that is reset,
\* does not bring it back.
THEOREM RefusedForGoodCorrect == ASpec => RefusedForGood
<1>1. ASSUME Inv, [ANext]_authVars, NEW s \in DOMAIN session, ~Acceptable(s)
      PROVE  ~Acceptable(s)'
  <2> DEFINE u == session[s].user
  <2>1. u \in User /\ session[s].authz \in Nat /\ session[s].authz <= user[u].authz
    BY <1>1, RowTypes DEF Inv, SessionInv, RowSound, Session
  <2>2. user[u].authz \in Nat  BY <1>1, <2>1, Known DEF Account
  <2>3. user'[u] = user[u] \/ user'[u].authz = user[u].authz + 1
    BY <1>1, <2>1, VersionMovesOn
  <2>4. /\ session'[s].user = u /\ session'[s].authz = session[s].authz
        /\ session'[s].verified = session[s].verified
        /\ session[s].revoked => session'[s].revoked
    BY <1>1, RowsKept
  <2>. QED  BY <1>1, <2>1, <2>2, <2>3, <2>4 DEF Acceptable, Live, Current, Assured
<1>2. Inv /\ [ANext]_authVars => [NoneRevived]_authVars
  BY <1>1 DEF NoneRevived
<1>. QED  BY <1>2, InvHolds, PTL DEF ASpec, RefusedForGood

\* validate() accepts only a session that was acceptable when its row was read,
\* although the user and the second factor are read later.
THEOREM AcceptedWasAcceptableCorrect == ASpec => []AcceptedWasAcceptable
<1>1. Inv => AcceptedWasAcceptable
  BY DEF Inv, CallInv, Sound, ReadSound, AcceptedWasAcceptable
<1>. QED  BY <1>1, InvHolds, PTL

\* The transaction that resets a second factor removes the enrolment its proof was
\* given for, not a later one with the same version.
THEOREM ResetsWhatWasProvedCorrect == ASpec => []ResetsWhatWasProved
<1>1. Inv => ResetsWhatWasProved
  BY DEF Inv, CallInv, Sound, LockSound, ResetsWhatWasProved, At
<1>. QED  BY <1>1, InvHolds, PTL
===============================================================================
