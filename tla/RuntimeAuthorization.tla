------------------------- MODULE RuntimeAuthorization -------------------------
(***************************************************************************)
(* Live terminals and log streams: the gateway (Go, runtime-gateway/) has  *)
(* two ways to learn that a connection is no longer authorized.  It polls  *)
(* the control API every Poll ticks (session_status.go), and it reads a    *)
(* watch (session_watch.go) that the API ends when PostgreSQL notifies it  *)
(* of a change: validate, register a lease with the LISTEN connection,     *)
(* validate again, stream heartbeats (runtime-authorization-lease.ts).     *)
(*                                                                         *)
(* A tick is a second or so.  Expiries count down, so that 0 is over.      *)
(* Validation reads the session row (with its user) and then the grants;   *)
(* the answer of the gateway's first check and of the API's own status     *)
(* check only decide whether to go on, and are one read each.  The user of *)
(* all connections is the same; notifications about others abort nothing.  *)
(***************************************************************************)
EXTENDS Integers

CONSTANTS
  Conn,        \* connections, each of which is opened once
  Poll,        \* the ticker of watchRuntimeSession
  Timeout,     \* the timeout of runtimeSessionStatusClient
  MaxUntil,    \* bound on how long a grant lasts
  MaxInbox     \* bound on the notifications under way

ASSUME TimerAssumption ==
  /\ Timeout \in Nat \ {0} /\ Poll \in Nat /\ Timeout < Poll
  /\ MaxUntil \in Nat /\ MaxInbox \in Nat

VARIABLES
  push,      \* RUNTIME_PUSH_REVOCATION_ENABLED
  rights,    \* what the database says of the session and its grants
  link,      \* the LISTEN connection of the API
  inbox,     \* the notifications sent and not yet received
  gate,      \* gate[c]: the gateway's side of a connection
  api,       \* api[c]: the API's side of its watch
  lag        \* lag[c] (history): for how long it has outlived what it needs

runtimeVars == <<push, rights, link, inbox, gate, api, lag>>

\* current: the user is active and has the session's authzVersion.  open: the
\* session is not closed, and its cluster and namespace are still the ones it
\* was made for.  until: when the token, the session or the grant ends.
Rights == [current : BOOLEAN, open : BOOLEAN, until : 0..MaxUntil]

\* "cut" is a connection whose end the API has not noticed.
Link == {"none", "up", "cut"}

\* poll is where watchRuntimeSession is; "half" is between the reads of a check.
Gate == [at : {"idle", "subscribe", "relay", "closed"},
         poll : {"off", "asked", "half", "waiting"}, elapsed : 0..Poll]

\* at is where the request is; lease is "listener" when get() has returned.
Api == [at : {"off", "status", "listener", "session1", "grants1", "register", "session2",
              "grants2", "settle", "streaming", "ended", "refused"},
        lease : {"none", "listener", "live", "aborted"}, exp : 0..MaxUntil]

RInit ==
  /\ push \in BOOLEAN
  /\ rights \in [current : {TRUE}, open : {TRUE}, until : 1..MaxUntil]
  /\ link = "none" /\ inbox = 0
  /\ gate = [c \in Conn |-> [at |-> "idle", poll |-> "off", elapsed |-> 0]]
  /\ api = [c \in Conn |-> [at |-> "off", lease |-> "none", exp |-> 0]]
  /\ lag = [c \in Conn |-> [session |-> 0, grant |-> 0]]

Usable == rights.current /\ rights.open

Granted == rights.until > 0

Less(n) == IF n = 0 THEN 0 ELSE n - 1

\* The history counts up to one more than LagBounded allows.
Longer(n) == IF n > Poll + Timeout THEN n ELSE n + 1

------------------------------------------------------------------------------
(***************************************************************************)
(* Changes in the database.  The triggers announce those of users and of   *)
(* grants in the transaction that makes them; nothing announces that a     *)
(* session was closed, a cluster removed or a namespace created anew.      *)
(***************************************************************************)
Announce ==
  IF link = "up" THEN inbox < MaxInbox /\ inbox' = inbox + 1 ELSE UNCHANGED inbox

UserChanges ==
  /\ rights.current
  /\ rights' = [rights EXCEPT !.current = FALSE]
  /\ Announce
  /\ UNCHANGED <<push, link, gate, api, lag>>

GrantChanges(until) ==
  /\ until # rights.until
  /\ rights' = [rights EXCEPT !.until = until]
  /\ Announce
  /\ lag' = [c \in Conn |-> [lag[c] EXCEPT !.grant = IF until > 0 THEN 0 ELSE @]]
  /\ UNCHANGED <<push, link, gate, api>>

SessionCloses ==
  /\ rights.open
  /\ rights' = [rights EXCEPT !.open = FALSE]
  /\ UNCHANGED <<push, link, inbox, gate, api, lag>>

------------------------------------------------------------------------------
(***************************************************************************)
(* The LISTEN connection (authorization-invalidation.ts).  An aborted      *)
(* lease ends the watch that streams.                                      *)
(***************************************************************************)
Aborted(h) ==
  [h EXCEPT !.lease = "aborted", !.at = IF @ = "streaming" THEN "ended" ELSE @]

Connect ==
  /\ push /\ link = "none"
  /\ link' = "up"
  /\ UNCHANGED <<push, rights, inbox, gate, api, lag>>

Deliver ==
  /\ inbox > 0
  /\ inbox' = inbox - 1
  /\ api' = [c \in Conn |-> IF api[c].lease = "live" THEN Aborted(api[c]) ELSE api[c]]
  /\ UNCHANGED <<push, rights, link, gate, lag>>

LinkDies ==
  /\ link = "up"
  /\ link' = "cut"
  /\ UNCHANGED <<push, rights, inbox, gate, api, lag>>

\* invalidateAll(): no lease can be registered with this connection any more.
Invalidated(h) == IF h.lease \in {"listener", "live"} THEN Aborted(h) ELSE h

LinkDown ==
  /\ link # "none"
  /\ link' = "none" /\ inbox' = 0
  /\ api' = [c \in Conn |-> Invalidated(api[c])]
  /\ UNCHANGED <<push, rights, gate, lag>>

Crashed(h) ==
  [h EXCEPT !.lease = IF @ = "none" THEN @ ELSE "aborted",
            !.at = CASE @ = "off" -> @
                     [] @ \in {"streaming", "ended"} -> "ended"
                     [] OTHER -> "refused"]

ApiCrash ==
  /\ link' = "none" /\ inbox' = 0
  /\ api' = [c \in Conn |-> Crashed(api[c])]
  /\ UNCHANGED <<push, rights, gate, lag>>

------------------------------------------------------------------------------
(***************************************************************************)
(* The watch request in the API: watchGatewaySession, then                 *)
(* createRuntimeAuthorizationLease, then the stream of watchSession.       *)
(***************************************************************************)
Answering(c) == api[c].at \notin {"off", "streaming", "ended", "refused"}

Handle(c, h) ==
  /\ api' = [api EXCEPT ![c] = h]
  /\ UNCHANGED <<push, rights, link, inbox, gate, lag>>

Mut_Refused(h) == [h EXCEPT !.at = "refused"]

\* Whoever throws after registering closes the lease.
Refused(h) == [h EXCEPT !.at = "refused", !.lease = IF @ = "live" THEN "aborted" ELSE @]

Proceed(c, from, condition, to) ==
  /\ api[c].at = from
  /\ Handle(c, IF condition THEN [api[c] EXCEPT !.at = to] ELSE Refused(api[c]))

Status(c) == Proceed(c, "status", Usable /\ Granted, "listener")

\* Waits for a listener; whoever comes first connects.
GetListener(c) ==
  /\ api[c].at = "listener" /\ link # "none"
  /\ Handle(c, [api[c] EXCEPT !.at = "session1", !.lease = "listener"])

ValidateSession(c) == Proceed(c, "session1", Usable, "grants1")

\* effectiveExpiry
ValidateGrants(c) ==
  /\ api[c].at = "grants1"
  /\ Handle(c, IF Granted THEN [api[c] EXCEPT !.at = "register", !.exp = rights.until]
                          ELSE Refused(api[c]))

Register(c) ==
  /\ api[c].at = "register"
  /\ Handle(c, IF api[c].lease = "listener" /\ api[c].exp > 0
                 THEN [api[c] EXCEPT !.at = "session2", !.lease = "live"]
                 ELSE Refused(api[c]))

RevalidateSession(c) == Proceed(c, "session2", Usable, "grants2")

Mut_StillGranted(c) == Granted

\* final.payload, and final.payload.exp >= initial.payload.exp
StillGranted(c) == Granted /\ rights.until >= api[c].exp

RevalidateGrants(c) == Proceed(c, "grants2", StillGranted(c), "settle")

\* The lease is live and the response not destroyed: the first frame is written.
Settle(c) ==
  Proceed(c, "settle", api[c].lease = "live" /\ gate[c].at = "subscribe", "streaming")

\* A query or a connection fails.
Throw(c) == Answering(c) /\ Handle(c, Refused(api[c]))

ResponseCloses(c) ==
  /\ api[c].at = "streaming" /\ gate[c].at = "closed"
  /\ Handle(c, Aborted(api[c]))

LeaseExpires(c) ==
  /\ api[c].lease = "live" /\ api[c].exp = 0
  /\ Handle(c, Aborted(api[c]))

------------------------------------------------------------------------------
(***************************************************************************)
(* The gateway: TerminalWS and LogsWS.                                     *)
(***************************************************************************)
\* cancel(), conn.Close(): the goroutines of the connection end with it.
CloseConn(c) ==
  /\ gate' = [gate EXCEPT ![c] = [at |-> "closed", poll |-> "off", elapsed |-> 0]]
  /\ lag' = [lag EXCEPT ![c] = [session |-> 0, grant |-> 0]]

\* checkRuntimeSession, go watchRuntimeSession, subscribeRuntimeSession.
Open(c) ==
  /\ gate[c].at = "idle"
  /\ IF Usable /\ Granted
       THEN /\ gate' = [gate EXCEPT ![c] = [at |-> IF push THEN "subscribe" ELSE "relay",
                                            poll |-> "asked", elapsed |-> 0]]
            /\ UNCHANGED lag
       ELSE CloseConn(c)
  /\ api' = [api EXCEPT ![c].at = IF push /\ Usable /\ Granted THEN "status" ELSE @]
  /\ UNCHANGED <<push, rights, link, inbox>>

\* The first frame has come.
Subscribed(c) ==
  /\ gate[c].at = "subscribe" /\ api[c].at \in {"streaming", "ended"}
  /\ gate' = [gate EXCEPT ![c].at = "relay"]
  /\ UNCHANGED <<push, rights, link, inbox, api, lag>>

\* The watch is refused or not answered within its deadline, the token expires,
\* the client leaves, or the stream comes to its end.
Close(c) ==
  /\ gate[c].at \in {"subscribe", "relay"}
  /\ CloseConn(c)
  /\ UNCHANGED <<push, rights, link, inbox, api>>

\* EOF on the watch, or no heartbeat.
Eof(c) ==
  /\ gate[c].at = "relay" /\ api[c].at = "ended"
  /\ CloseConn(c)
  /\ UNCHANGED <<push, rights, link, inbox, api>>

------------------------------------------------------------------------------
Mut_OnInvalid(c) == gate' = [gate EXCEPT ![c].poll = "off"] /\ UNCHANGED lag

OnInvalid(c) == CloseConn(c)

Mut_Polled(c, to) == [gate[c] EXCEPT !.poll = to, !.elapsed = IF to = "waiting" THEN 0 ELSE @]

\* The ticker runs on, whatever a check takes.
Polled(c, to) == [gate[c] EXCEPT !.poll = to]

Check(c, from, condition, to) ==
  /\ gate[c].poll = from
  /\ IF condition THEN gate' = [gate EXCEPT ![c] = Polled(c, to)] /\ UNCHANGED lag
                  ELSE OnInvalid(c)
  /\ UNCHANGED <<push, rights, link, inbox, api>>

CheckSession(c) == Check(c, "asked", Usable, "half")

CheckGrants(c) == Check(c, "half", Granted, "waiting")

\* No answer, or not in time.
CheckFails(c) ==
  /\ gate[c].poll \in {"asked", "half"}
  /\ OnInvalid(c)
  /\ UNCHANGED <<push, rights, link, inbox, api>>

TickerFires(c) ==
  /\ gate[c].poll = "waiting" /\ gate[c].elapsed = Poll
  /\ gate' = [gate EXCEPT ![c].poll = "asked", ![c].elapsed = 0]
  /\ UNCHANGED <<push, rights, link, inbox, api, lag>>

\* Timers are on time: nothing waits beyond its deadline.
OnTime(c) ==
  /\ gate[c].poll \in {"asked", "half"} => gate[c].elapsed < Timeout
  /\ gate[c].poll = "waiting" => gate[c].elapsed < Poll
  /\ api[c].lease = "live" => api[c].exp > 0

Tick ==
  /\ \A c \in Conn : OnTime(c)
  /\ rights' = [rights EXCEPT !.until = Less(@)]
  /\ gate' = [c \in Conn |-> IF gate[c].poll = "off" THEN gate[c]
                                                     ELSE [gate[c] EXCEPT !.elapsed = @ + 1]]
  /\ api' = [c \in Conn |-> [api[c] EXCEPT !.exp = Less(@)]]
  /\ lag' = [c \in Conn |->
       [session |-> IF gate[c].at = "relay" /\ ~Usable THEN Longer(lag[c].session) ELSE 0,
        grant |-> IF gate[c].at = "relay" /\ ~Granted THEN Longer(lag[c].grant) ELSE 0]]
  /\ UNCHANGED <<push, link, inbox>>

------------------------------------------------------------------------------
Watch(c) ==
  \/ Status(c) \/ GetListener(c) \/ ValidateSession(c) \/ ValidateGrants(c) \/ Register(c)
  \/ RevalidateSession(c) \/ RevalidateGrants(c) \/ Settle(c) \/ Throw(c)
  \/ ResponseCloses(c) \/ LeaseExpires(c)

Polling(c) == CheckSession(c) \/ CheckGrants(c) \/ CheckFails(c)

Gateway(c) == Open(c) \/ Subscribed(c) \/ Close(c) \/ Eof(c) \/ Polling(c) \/ TickerFires(c)

RNext ==
  \/ UserChanges \/ SessionCloses
  \/ \E until \in 0..MaxUntil : GrantChanges(until)
  \/ Connect \/ Deliver \/ LinkDies \/ LinkDown \/ ApiCrash
  \/ \E c \in Conn : Watch(c) \/ Gateway(c)
  \/ Tick

RSpec == RInit /\ [][RNext]_runtimeVars

\* The goroutines of a connection run, a check ends by its timeout at the latest,
\* the end of a watch is read or its heartbeats missed, timers fire, time passes.
FairRSpec ==
  /\ RSpec
  /\ WF_runtimeVars(Tick)
  /\ \A c \in Conn : /\ WF_runtimeVars(Polling(c))
                     /\ WF_runtimeVars(TickerFires(c))
                     /\ WF_runtimeVars(Eof(c))
                     /\ WF_runtimeVars(LeaseExpires(c))

------------------------------------------------------------------------------
\* Types; a lease is live only while the API holds a listener.
RATypeOK ==
  /\ push \in BOOLEAN
  /\ rights \in Rights
  /\ link \in Link /\ inbox \in 0..MaxInbox
  /\ gate \in [Conn -> Gate]
  /\ api \in [Conn -> Api]
  /\ lag \in [Conn -> [session : 0 .. Poll + Timeout + 1, grant : 0 .. Poll + Timeout + 1]]
  /\ \A c \in Conn : api[c].lease = "live" => link # "none"

\* A stream outlives its session or its grant by one period of the poll and the
\* timeout of one check at most, with or without the watch, and whatever
\* notifications, connections and processes are lost.
LagBounded ==
  \A c \in Conn : lag[c].session <= Poll + Timeout /\ lag[c].grant <= Poll + Timeout

\* No announced change falls between validation and registration: a watch that
\* streams ends no later than its authorization, unless a notification is on its
\* way or the LISTEN connection is dead.
NoMissedRevocation ==
  \A c \in Conn : api[c].at = "streaming" /\ link = "up" /\ inbox = 0 =>
    rights.current /\ api[c].exp <= rights.until

\* Every lease that is registered belongs to a request that is being answered or
\* streamed: no way out of the handler leaves one behind.
NoOrphanLease ==
  \A c \in Conn : api[c].lease = "live" =>
    api[c].at \in {"session2", "grants2", "settle", "streaming"}

\* A stream whose session is gone for good, or whose watch has ended, is closed.
DoomedStreamsEnd ==
  \A c \in Conn :
    gate[c].at = "relay" /\ (~Usable \/ api[c].at = "ended") ~> gate[c].at = "closed"
===============================================================================
