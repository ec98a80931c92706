---------------------- MODULE RuntimeAuthorizationProofs ----------------------
(***************************************************************************)
(* Theorems about live connections, for any number of them, any period of  *)
(* the poll, any timeout shorter than it and any lifetime of a grant.      *)
(***************************************************************************)
EXTENDS RuntimeAuthorization, TLAPS

\* Fields have their types, apart from bounds that need an argument.
RecordTypes ==
  /\ push \in BOOLEAN /\ rights \in Rights /\ link \in Link /\ inbox \in 0..MaxInbox
  /\ gate \in [Conn -> Gate] /\ api \in [Conn -> Api]
  /\ lag \in [Conn -> [session : 0 .. Poll + Timeout + 1, grant : 0 .. Poll + Timeout + 1]]

\* A connection polls as long as it is open, and the history counts only for one
\* that relays.
PollState(c) ==
  /\ gate[c].poll = "off" <=> gate[c].at \in {"idle", "closed"}
  /\ gate[c].at # "relay" => lag[c].session = 0 /\ lag[c].grant = 0

\* Where the poll is in its period.
InTime(c) == gate[c].poll \in {"asked", "half"} => gate[c].elapsed <= Timeout

\* What is lost since the last look at it is lost for no longer than that: the
\* session is looked at first in a check, the grants last.
LagInv(c) ==
  /\ Usable => lag[c].session = 0
  /\ Granted => lag[c].grant = 0
  /\ gate[c].poll \in {"half", "waiting"} => lag[c].session <= gate[c].elapsed
  /\ gate[c].poll = "waiting" => lag[c].grant <= gate[c].elapsed
  /\ gate[c].poll = "asked" => lag[c].session <= Poll + gate[c].elapsed
  /\ gate[c].poll \in {"asked", "half"} => lag[c].grant <= Poll + gate[c].elapsed

GateInv == \A c \in Conn : PollState(c) /\ InTime(c) /\ LagInv(c)

\* A lease exists only with a listener and with the request it belongs to.
LeaseInv(c) ==
  /\ api[c].lease \in {"listener", "live"} => link # "none"
  /\ api[c].lease = "live" => api[c].at \in {"session2", "grants2", "settle", "streaming"}
  /\ api[c].at = "streaming" => api[c].lease = "live"
  /\ gate[c].at = "idle" => api[c].at = "off"

\* What has been validated since the lease was registered still holds, or its
\* change is announced and not yet received.
Validated(c) ==
  api[c].lease = "live" /\ link = "up" /\ inbox = 0 =>
    /\ api[c].at \in {"grants2", "settle", "streaming"} => rights.current
    /\ api[c].at \in {"settle", "streaming"} => api[c].exp <= rights.until

ApiInv == \A c \in Conn : LeaseInv(c) /\ Validated(c)

------------------------------------------------------------------------------
(***************************************************************************)
(* The initial state, and helpers.                                         *)
(***************************************************************************)
LEMMA InitHolds == RInit => RecordTypes /\ GateInv /\ ApiInv
<1>. SUFFICES ASSUME RInit PROVE RecordTypes /\ GateInv /\ ApiInv  OBVIOUS
<1>. USE TimerAssumption DEF RInit
<1>1. RecordTypes
  <2>1. rights \in Rights
    <3>1. 1..MaxUntil \subseteq 0..MaxUntil  OBVIOUS
    <3>. QED  BY <3>1 DEF Rights
  <2>2. gate \in [Conn -> Gate]  BY DEF Gate
  <2>3. api \in [Conn -> Api]  BY DEF Api
  <2>4. lag \in [Conn -> [session : 0 .. Poll + Timeout + 1, grant : 0 .. Poll + Timeout + 1]]  OBVIOUS
  <2>. QED  BY <2>1, <2>2, <2>3, <2>4 DEF RecordTypes, Link
<1>2. GateInv  BY DEF GateInv, PollState, InTime, LagInv
<1>3. ApiInv  BY DEF ApiInv, LeaseInv, Validated
<1>. QED  BY <1>1, <1>2, <1>3

\* A duration that counts down keeps its bound and its order.
LEMMA LessBounded ==
  ASSUME NEW m \in Nat, NEW n \in 0..m
  PROVE  Less(n) \in 0..m
BY DEF Less

LEMMA LessMonotone ==
  ASSUME NEW m \in Nat, NEW n \in Nat, m <= n
  PROVE  Less(m) <= Less(n)
BY DEF Less

\* The history stops one beyond the bound.
LEMMA LongerBounded ==
  ASSUME NEW n \in 0 .. Poll + Timeout + 1
  PROVE  Longer(n) \in 0 .. Poll + Timeout + 1 /\ Longer(n) <= n + 1
BY TimerAssumption DEF Longer

\* A lease that is aborted, refused, invalidated or whose process dies is not
\* live, and an answer that is not there yet becomes no other record than an Api.
LEMMA EndedTyped ==
  ASSUME NEW h \in Api
  PROVE  /\ Aborted(h) \in Api /\ Refused(h) \in Api /\ Invalidated(h) \in Api /\ Crashed(h) \in Api
BY DEF Api, Aborted, Refused, Invalidated, Crashed

LEMMA EndedNotLive ==
  ASSUME NEW h \in Api
  PROVE  /\ Aborted(h).lease = "aborted" /\ Refused(h).lease # "live"
         /\ Invalidated(h).lease \notin {"listener", "live"}
         /\ Crashed(h).lease \notin {"listener", "live"}
         /\ Aborted(h).at # "streaming" /\ Refused(h).at = "refused"
         /\ (h.at = "streaming" => h.lease = "live") => Invalidated(h).at # "streaming"
         /\ Crashed(h).at # "streaming"
         /\ h.at = "off" => Aborted(h).at = "off" /\ Invalidated(h).at = "off" /\ Crashed(h).at = "off"
         /\ Refused(h).lease = "listener" => h.lease = "listener"
BY DEF Api, Aborted, Refused, Invalidated, Crashed

------------------------------------------------------------------------------
(***************************************************************************)
(* Types.                                                                  *)
(***************************************************************************)
\* A change in the database may be announced.
LEMMA AnnounceTyped ==
  ASSUME RecordTypes, Announce
  PROVE  inbox' \in 0..MaxInbox /\ (link = "up" => inbox' > 0) /\ (link # "up" => inbox' = inbox)
BY TimerAssumption DEF RecordTypes, Announce

LEMMA DatabaseTypes ==
  ASSUME RecordTypes, \/ UserChanges \/ SessionCloses \/ \E until \in 0..MaxUntil : GrantChanges(until)
  PROVE  RecordTypes'
<1>. USE TimerAssumption
<1>1. CASE UserChanges  BY <1>1, AnnounceTyped DEF UserChanges, RecordTypes, Rights
<1>2. CASE SessionCloses  BY <1>2 DEF SessionCloses, RecordTypes, Rights
<1>3. ASSUME NEW until \in 0..MaxUntil, GrantChanges(until)
      PROVE  RecordTypes'
  <2>1. rights' \in Rights  BY <1>3 DEF GrantChanges, RecordTypes, Rights
  <2>2. \A c \in Conn : IF until > 0 THEN 0 \in 0 .. Poll + Timeout + 1 ELSE lag[c].grant \in 0 .. Poll + Timeout + 1
    BY DEF RecordTypes
  <2>3. lag' \in [Conn -> [session : 0 .. Poll + Timeout + 1, grant : 0 .. Poll + Timeout + 1]]
    BY <1>3, <2>2 DEF GrantChanges, RecordTypes
  <2>. QED  BY <1>3, <2>1, <2>3, AnnounceTyped DEF GrantChanges, RecordTypes
<1>. QED  BY <1>1, <1>2, <1>3

LEMMA LinkTypes ==
  ASSUME RecordTypes, Connect \/ Deliver \/ LinkDies \/ LinkDown \/ ApiCrash
  PROVE  RecordTypes'
<1>. USE TimerAssumption DEF RecordTypes, Link
<1>1. CASE Connect  BY <1>1 DEF Connect
<1>2. CASE Deliver  BY <1>2, EndedTyped DEF Deliver
<1>3. CASE LinkDies  BY <1>3 DEF LinkDies
<1>4. CASE LinkDown  BY <1>4, EndedTyped DEF LinkDown
<1>5. CASE ApiCrash  BY <1>5, EndedTyped DEF ApiCrash
<1>. QED  BY <1>1, <1>2, <1>3, <1>4, <1>5

\* Whatever a step of the watch request does is Handle with a record.
LEMMA WatchHandles ==
  ASSUME RecordTypes, NEW c \in Conn, Watch(c)
  PROVE  \E h \in Api : Handle(c, h)
<1>. USE DEF RecordTypes
<1>1. api[c] \in Api /\ Refused(api[c]) \in Api /\ Aborted(api[c]) \in Api  BY EndedTyped
<1>2. \A to \in {"listener", "session1", "grants1", "register", "session2", "grants2", "settle", "streaming"} :
        [api[c] EXCEPT !.at = to] \in Api
  BY <1>1 DEF Api
<1>3. CASE Status(c) \/ ValidateSession(c) \/ RevalidateSession(c) \/ RevalidateGrants(c) \/ Settle(c)
  BY <1>1, <1>2, <1>3 DEF Status, ValidateSession, RevalidateSession, RevalidateGrants, Settle, Proceed
<1>4. CASE GetListener(c)
  <2>1. [api[c] EXCEPT !.at = "session1", !.lease = "listener"] \in Api  BY <1>1 DEF Api
  <2>. QED  BY <1>4, <2>1 DEF GetListener
<1>5. CASE ValidateGrants(c)
  <2>1. [api[c] EXCEPT !.at = "register", !.exp = rights.until] \in Api  BY <1>1 DEF Api, Rights
  <2>. QED  BY <1>1, <1>5, <2>1 DEF ValidateGrants
<1>6. CASE Register(c)
  <2>1. [api[c] EXCEPT !.at = "session2", !.lease = "live"] \in Api  BY <1>1 DEF Api
  <2>. QED  BY <1>1, <1>6, <2>1 DEF Register
<1>7. CASE Throw(c) \/ ResponseCloses(c) \/ LeaseExpires(c)
  BY <1>1, <1>7 DEF Throw, ResponseCloses, LeaseExpires
<1>. QED  BY <1>3, <1>4, <1>5, <1>6, <1>7 DEF Watch

LEMMA HandleTypes ==
  ASSUME RecordTypes, NEW c \in Conn, NEW h \in Api, Handle(c, h)
  PROVE  RecordTypes'
BY DEF RecordTypes, Handle

\* CloseConn leaves a closed connection.
LEMMA CloseConnTyped ==
  ASSUME RecordTypes, NEW c \in Conn, CloseConn(c)
  PROVE  /\ gate' \in [Conn -> Gate]
         /\ lag' \in [Conn -> [session : 0 .. Poll + Timeout + 1, grant : 0 .. Poll + Timeout + 1]]
<1>. USE TimerAssumption
<1>1. [at |-> "closed", poll |-> "off", elapsed |-> 0] \in Gate  BY DEF Gate
<1>2. [session |-> 0, grant |-> 0] \in [session : 0 .. Poll + Timeout + 1, grant : 0 .. Poll + Timeout + 1]
  OBVIOUS
<1>. QED  BY <1>1, <1>2 DEF CloseConn, RecordTypes

LEMMA GatewayTypes ==
  ASSUME RecordTypes, NEW c \in Conn, Gateway(c)
  PROVE  RecordTypes'
<1>. USE TimerAssumption DEF RecordTypes
<1>0. gate[c] \in Gate /\ api[c] \in Api  OBVIOUS
<1>1. CASE Open(c)
  <2>1. [at |-> IF push THEN "subscribe" ELSE "relay", poll |-> "asked", elapsed |-> 0] \in Gate
    BY DEF Gate
  <2>2. [api[c] EXCEPT !.at = IF push /\ Usable /\ Granted THEN "status" ELSE @] \in Api
    BY <1>0 DEF Api
  <2>3. api' \in [Conn -> Api]  BY <1>1, <2>2 DEF Open
  <2>. QED  BY <1>1, <2>1, <2>3, CloseConnTyped DEF Open
<1>2. CASE Subscribed(c)
  <2>1. [gate[c] EXCEPT !.at = "relay"] \in Gate  BY <1>0 DEF Gate
  <2>. QED  BY <1>2, <2>1 DEF Subscribed
<1>3. CASE Close(c) \/ Eof(c)
  BY <1>3, CloseConnTyped DEF Close, Eof
<1>4. CASE Polling(c)
  <2>1. Polled(c, "half") \in Gate /\ Polled(c, "waiting") \in Gate  BY <1>0 DEF Polled, Gate
  <2>. QED  BY <1>4, <2>1, CloseConnTyped DEF Polling, CheckSession, CheckGrants, CheckFails, Check, OnInvalid
<1>5. CASE TickerFires(c)
  <2>1. [gate[c] EXCEPT !.poll = "asked", !.elapsed = 0] \in Gate
    <3>1. 0 \in 0..Poll  OBVIOUS
    <3>. QED  BY <1>0, <3>1 DEF Gate
  <2>2. gate' = [gate EXCEPT ![c] = [gate[c] EXCEPT !.poll = "asked", !.elapsed = 0]]
    BY <1>0, <1>5 DEF TickerFires, Gate
  <2>. QED  BY <1>5, <2>1, <2>2 DEF TickerFires
<1>. QED  BY <1>1, <1>2, <1>3, <1>4, <1>5 DEF Gateway

LEMMA TickTypes ==
  ASSUME RecordTypes, Tick
  PROVE  RecordTypes'
<1>. USE TimerAssumption DEF RecordTypes
<1>1. rights' \in Rights
  <2>1. Less(rights.until) \in 0..MaxUntil  BY LessBounded DEF Rights
  <2>. QED  BY <2>1 DEF Tick, Rights
<1>2. gate' \in [Conn -> Gate]
  <2>. SUFFICES ASSUME NEW c \in Conn
                PROVE  gate[c].poll # "off" => [gate[c] EXCEPT !.elapsed = @ + 1] \in Gate
    BY DEF Tick
  <2>1. gate[c] \in Gate /\ OnTime(c)  BY DEF Tick
  <2>2. gate[c].poll # "off" => gate[c].elapsed + 1 \in 0..Poll
    BY <2>1 DEF OnTime, Gate
  <2>. QED  BY <2>1, <2>2 DEF Gate
<1>3. api' \in [Conn -> Api]
  <2>1. \A c \in Conn : Less(api[c].exp) \in 0..MaxUntil  BY LessBounded DEF Api
  <2>2. \A c \in Conn : [api[c] EXCEPT !.exp = Less(@)] \in Api  BY <2>1 DEF Api
  <2>. QED  BY <2>2 DEF Tick
<1>4. lag' \in [Conn -> [session : 0 .. Poll + Timeout + 1, grant : 0 .. Poll + Timeout + 1]]
  <2>1. \A c \in Conn : Longer(lag[c].session) \in 0 .. Poll + Timeout + 1
                       /\ Longer(lag[c].grant) \in 0 .. Poll + Timeout + 1
    BY LongerBounded
  <2>. QED  BY <2>1 DEF Tick
<1>. QED  BY <1>1, <1>2, <1>3, <1>4 DEF Tick

LEMMA TypesInductive == RecordTypes /\ [RNext]_runtimeVars => RecordTypes'
<1>. SUFFICES ASSUME RecordTypes, [RNext]_runtimeVars PROVE RecordTypes'  OBVIOUS
<1>1. CASE UNCHANGED runtimeVars  BY <1>1 DEF RecordTypes, runtimeVars
<1>2. ASSUME NEW c \in Conn, Watch(c) PROVE RecordTypes'  BY <1>2, WatchHandles, HandleTypes
<1>3. ASSUME NEW c \in Conn, Gateway(c) PROVE RecordTypes'  BY <1>3, GatewayTypes
<1>. QED  BY <1>1, <1>2, <1>3, DatabaseTypes, LinkTypes, TickTypes DEF RNext

------------------------------------------------------------------------------
(***************************************************************************)
(* The poll.                                                               *)
(***************************************************************************)
\* The numbers and Booleans the invariant speaks of.
LEMMA GateValues ==
  ASSUME RecordTypes, NEW c \in Conn
  PROVE  /\ gate[c].elapsed \in Nat /\ gate[c].elapsed <= Poll
         /\ lag[c].session \in Nat /\ lag[c].grant \in Nat
         /\ gate[c].poll \in {"off", "asked", "half", "waiting"}
         /\ gate[c].at \in {"idle", "subscribe", "relay", "closed"}
         /\ rights.until \in Nat
BY TimerAssumption DEF RecordTypes, Gate, Rights

LEMMA GateUntouched ==
  ASSUME GateInv, UNCHANGED <<rights, gate, lag>>
  PROVE  GateInv'
BY DEF GateInv, PollState, InTime, LagInv, Usable, Granted

LEMMA DatabaseKeepsGate ==
  ASSUME RecordTypes, GateInv,
         \/ UserChanges \/ SessionCloses \/ \E until \in 0..MaxUntil : GrantChanges(until)
  PROVE  GateInv'
<1>. USE DEF GateInv, PollState, InTime, LagInv
<1>1. CASE UserChanges \/ SessionCloses
  <2>1. ~Usable' /\ (Granted' <=> Granted) /\ UNCHANGED <<gate, lag>>
    BY <1>1 DEF UserChanges, SessionCloses, RecordTypes, Rights, Usable, Granted
  <2>. QED  BY <2>1
<1>2. ASSUME NEW until \in 0..MaxUntil, GrantChanges(until)
      PROVE  GateInv'
  <2>1. (Usable' <=> Usable) /\ (Granted' <=> until > 0) /\ UNCHANGED gate
    BY <1>2 DEF GrantChanges, RecordTypes, Rights, Usable, Granted
  <2>2. \A c \in Conn : /\ lag'[c].session = lag[c].session
                        /\ lag'[c].grant = IF until > 0 THEN 0 ELSE lag[c].grant
    BY <1>2 DEF GrantChanges, RecordTypes
  <2>3. until = 0 => ~Granted'  BY <2>1
  <2>4. \A c \in Conn : lag'[c].grant \in Nat /\ lag'[c].grant <= lag[c].grant
    BY <2>2, GateValues
  <2>. SUFFICES ASSUME NEW c \in Conn PROVE PollState(c)' /\ InTime(c)' /\ LagInv(c)'  OBVIOUS
  <2>5. PollState(c)' /\ InTime(c)'  BY <2>1, <2>2
  <2>6. LagInv(c)'  BY <2>1, <2>2, <2>3, <2>4, GateValues, TimerAssumption
  <2>. QED  BY <2>5, <2>6
<1>. QED  BY <1>1, <1>2

LEMMA ClosingKeepsGate ==
  ASSUME RecordTypes, GateInv, NEW c \in Conn, CloseConn(c), UNCHANGED rights
  PROVE  GateInv'
<1>1. /\ gate'[c] = [at |-> "closed", poll |-> "off", elapsed |-> 0]
      /\ lag'[c] = [session |-> 0, grant |-> 0]
      /\ \A d \in Conn \ {c} : gate'[d] = gate[d] /\ lag'[d] = lag[d]
  BY DEF CloseConn, RecordTypes
<1>. QED  BY <1>1 DEF GateInv, PollState, InTime, LagInv, Usable, Granted

LEMMA GatewayKeepsGate ==
  ASSUME RecordTypes, GateInv, NEW c \in Conn, Gateway(c)
  PROVE  GateInv'
<1>. USE DEF GateInv, PollState, InTime, LagInv, Usable, Granted
<1>0. gate[c] \in Gate /\ UNCHANGED rights
  BY DEF RecordTypes, Gateway, Open, Subscribed, Close, Eof, Polling, CheckSession, CheckGrants,
         CheckFails, Check, TickerFires
<1>1. CASE Open(c)
  <2>1. CASE Usable /\ Granted
    <3>1. /\ gate'[c].poll = "asked" /\ gate'[c].elapsed = 0 /\ gate'[c].at \in {"subscribe", "relay"}
          /\ \A d \in Conn \ {c} : gate'[d] = gate[d]
          /\ lag' = lag /\ lag[c].session = 0 /\ lag[c].grant = 0
      BY <1>1, <2>1 DEF Open, RecordTypes
    <3>. QED  BY <1>0, <3>1, TimerAssumption
  <2>2. CASE ~(Usable /\ Granted)
    <3>1. CloseConn(c)  BY <1>1, <2>2 DEF Open
    <3>. QED  BY <1>0, <3>1, ClosingKeepsGate
  <2>. QED  BY <2>1, <2>2
<1>2. CASE Subscribed(c)
  <2>1. /\ gate[c].at = "subscribe" /\ gate'[c].at = "relay"
        /\ gate'[c].poll = gate[c].poll /\ gate'[c].elapsed = gate[c].elapsed
        /\ \A d \in Conn \ {c} : gate'[d] = gate[d]
        /\ lag' = lag
    BY <1>0, <1>2 DEF Subscribed, RecordTypes, Gate
  <2>. QED  BY <1>0, <2>1
<1>3. CASE Close(c) \/ Eof(c) \/ CheckFails(c)
  <2>1. CloseConn(c)  BY <1>3 DEF Close, Eof, CheckFails, OnInvalid
  <2>. QED  BY <1>0, <2>1, ClosingKeepsGate
<1>4. CASE CheckSession(c)
  <2>1. CASE Usable
    <3>1. /\ gate[c].poll = "asked" /\ gate'[c].poll = "half"
          /\ gate'[c].at = gate[c].at /\ gate'[c].elapsed = gate[c].elapsed
          /\ \A d \in Conn \ {c} : gate'[d] = gate[d]
          /\ lag' = lag /\ lag[c].session = 0
      BY <1>0, <1>4, <2>1 DEF CheckSession, Check, Polled, RecordTypes, Gate
    <3>. QED  BY <1>0, <3>1, GateValues
  <2>2. CASE ~Usable
    <3>1. CloseConn(c)  BY <1>4, <2>2 DEF CheckSession, Check, OnInvalid
    <3>. QED  BY <1>0, <3>1, ClosingKeepsGate
  <2>. QED  BY <2>1, <2>2
<1>5. CASE CheckGrants(c)
  <2>1. CASE Granted
    <3>1. /\ gate[c].poll = "half" /\ gate'[c].poll = "waiting"
          /\ gate'[c].at = gate[c].at /\ gate'[c].elapsed = gate[c].elapsed
          /\ \A d \in Conn \ {c} : gate'[d] = gate[d]
          /\ lag' = lag /\ lag[c].grant = 0
      BY <1>0, <1>5, <2>1 DEF CheckGrants, Check, Polled, RecordTypes, Gate
    <3>. QED  BY <1>0, <3>1, GateValues
  <2>2. CASE ~Granted
    <3>1. CloseConn(c)  BY <1>5, <2>2 DEF CheckGrants, Check, OnInvalid
    <3>. QED  BY <1>0, <3>1, ClosingKeepsGate
  <2>. QED  BY <2>1, <2>2
<1>6. CASE TickerFires(c)
  <2>1. /\ gate[c].poll = "waiting" /\ gate[c].elapsed = Poll
        /\ gate'[c].poll = "asked" /\ gate'[c].elapsed = 0 /\ gate'[c].at = gate[c].at
        /\ \A d \in Conn \ {c} : gate'[d] = gate[d]
        /\ lag' = lag
    BY <1>0, <1>6 DEF TickerFires, RecordTypes, Gate
  <2>. QED  BY <1>0, <2>1, GateValues, TimerAssumption
<1>. QED  BY <1>1, <1>2, <1>3, <1>4, <1>5, <1>6 DEF Gateway, Polling

LEMMA TickKeepsGate ==
  ASSUME RecordTypes, GateInv, Tick
  PROVE  GateInv'
<1>. SUFFICES ASSUME NEW c \in Conn PROVE PollState(c)' /\ InTime(c)' /\ LagInv(c)'
  BY DEF GateInv
<1>1. /\ gate'[c].poll = gate[c].poll /\ gate'[c].at = gate[c].at
      /\ gate'[c].elapsed = IF gate[c].poll = "off" THEN gate[c].elapsed ELSE gate[c].elapsed + 1
  BY DEF Tick, RecordTypes, Gate
<1>2. /\ lag'[c].session = IF gate[c].at = "relay" /\ ~Usable THEN Longer(lag[c].session) ELSE 0
      /\ lag'[c].grant = IF gate[c].at = "relay" /\ ~Granted THEN Longer(lag[c].grant) ELSE 0
  BY DEF Tick
<1>3. /\ Longer(lag[c].session) \in Nat /\ Longer(lag[c].session) <= lag[c].session + 1
      /\ Longer(lag[c].grant) \in Nat /\ Longer(lag[c].grant) <= lag[c].grant + 1
  <2>1. lag[c].session \in 0 .. Poll + Timeout + 1 /\ lag[c].grant \in 0 .. Poll + Timeout + 1
    BY DEF RecordTypes
  <2>. QED  BY <2>1, LongerBounded, TimerAssumption
<1>4. (Usable' <=> Usable) /\ (Granted' => Granted)
  BY GateValues DEF Tick, RecordTypes, Rights, Usable, Granted, Less
<1>5. PollState(c) /\ InTime(c) /\ LagInv(c)  BY DEF GateInv
<1>6. gate[c].poll \in {"asked", "half"} => gate[c].elapsed < Timeout
  BY DEF Tick, OnTime
<1>7. PollState(c)'  BY <1>1, <1>2, <1>5 DEF PollState
<1>8. InTime(c)'  BY <1>1, <1>6, GateValues, TimerAssumption DEF InTime
<1>9. LagInv(c)'
  <2>1. (Usable' => lag'[c].session = 0) /\ (Granted' => lag'[c].grant = 0)  BY <1>2, <1>4
  <2>2. lag'[c].session \in Nat /\ lag'[c].session <= lag[c].session + 1  BY <1>2, <1>3, GateValues
  <2>3. lag'[c].grant \in Nat /\ lag'[c].grant <= lag[c].grant + 1  BY <1>2, <1>3, GateValues
  <2>. QED  BY <1>1, <1>5, <2>1, <2>2, <2>3, GateValues, TimerAssumption DEF LagInv
<1>. QED  BY <1>7, <1>8, <1>9

LEMMA GateInductive == RecordTypes /\ GateInv /\ [RNext]_runtimeVars => GateInv'
<1>. SUFFICES ASSUME RecordTypes, GateInv, [RNext]_runtimeVars PROVE GateInv'  OBVIOUS
<1>1. CASE UNCHANGED runtimeVars  BY <1>1, GateUntouched DEF runtimeVars
<1>2. CASE Connect \/ Deliver \/ LinkDies \/ LinkDown \/ ApiCrash
  BY <1>2, GateUntouched DEF Connect, Deliver, LinkDies, LinkDown, ApiCrash
<1>3. ASSUME NEW c \in Conn, Watch(c) PROVE GateInv'
  BY <1>3, WatchHandles, GateUntouched DEF Handle
<1>4. ASSUME NEW c \in Conn, Gateway(c) PROVE GateInv'  BY <1>4, GatewayKeepsGate
<1>. QED  BY <1>1, <1>2, <1>3, <1>4, DatabaseKeepsGate, TickKeepsGate DEF RNext

------------------------------------------------------------------------------
(***************************************************************************)
(* The watch and its lease.                                                *)
(***************************************************************************)
LEMMA ApiUntouched ==
  ASSUME ApiInv, UNCHANGED <<rights, link, inbox, gate, api>>
  PROVE  ApiInv'
BY DEF ApiInv, LeaseInv, Validated

LEMMA DatabaseKeepsApi ==
  ASSUME RecordTypes, ApiInv,
         \/ UserChanges \/ SessionCloses \/ \E until \in 0..MaxUntil : GrantChanges(until)
  PROVE  ApiInv'
<1>1. CASE SessionCloses
  <2>1. rights'.current = rights.current /\ rights'.until = rights.until
    BY <1>1 DEF SessionCloses, RecordTypes, Rights
  <2>. QED  BY <1>1, <2>1 DEF SessionCloses, ApiInv, LeaseInv, Validated
<1>2. CASE UserChanges \/ \E until \in 0..MaxUntil : GrantChanges(until)
  <2>1. Announce /\ UNCHANGED <<link, gate, api>>  BY <1>2 DEF UserChanges, GrantChanges
  <2>2. ~(link' = "up" /\ inbox' = 0)  BY <2>1, AnnounceTyped
  <2>. QED  BY <2>1, <2>2 DEF ApiInv, LeaseInv, Validated
<1>. QED  BY <1>1, <1>2

\* With no lease alive there is nothing to validate.
LEMMA NoneLive ==
  ASSUME \A c \in Conn : /\ api'[c].lease = "live" => FALSE
                         /\ api'[c].lease = "listener" => link' # "none"
                         /\ api'[c].at # "streaming"
                         /\ gate'[c].at = "idle" => api'[c].at = "off"
  PROVE  ApiInv'
BY DEF ApiInv, LeaseInv, Validated

LEMMA LinkKeepsApi ==
  ASSUME RecordTypes, ApiInv, Connect \/ Deliver \/ LinkDies \/ LinkDown \/ ApiCrash
  PROVE  ApiInv'
<1>0. \A c \in Conn : api[c] \in Api /\ LeaseInv(c)  BY DEF RecordTypes, ApiInv
<1>1. CASE Connect \/ LinkDies
  <2>1. UNCHANGED <<rights, inbox, gate, api>> /\ link' # "none" /\ (link' = "up" => link = "none")
    BY <1>1 DEF Connect, LinkDies
  <2>. QED  BY <2>1 DEF ApiInv, LeaseInv, Validated
<1>2. CASE Deliver
  <2>1. \A c \in Conn : api'[c] = IF api[c].lease = "live" THEN Aborted(api[c]) ELSE api[c]
    BY <1>2 DEF Deliver
  <2>2. UNCHANGED <<link, gate>>  BY <1>2 DEF Deliver
  <2>. QED  BY <1>0, <2>1, <2>2, NoneLive, EndedNotLive DEF LeaseInv
<1>3. CASE LinkDown
  <2>1. UNCHANGED gate /\ \A c \in Conn : api'[c] = Invalidated(api[c])  BY <1>3 DEF LinkDown
  <2>. QED  BY <1>0, <2>1, NoneLive, EndedNotLive DEF LeaseInv
<1>4. CASE ApiCrash
  <2>1. UNCHANGED gate /\ \A c \in Conn : api'[c] = Crashed(api[c])  BY <1>4 DEF ApiCrash
  <2>. QED  BY <1>0, <2>1, NoneLive, EndedNotLive DEF LeaseInv
<1>. QED  BY <1>1, <1>2, <1>3, <1>4

\* One request goes on; the rest of the system stays as it is.
LEMMA HandleKeepsApi ==
  ASSUME RecordTypes, ApiInv, NEW c \in Conn, NEW h \in Api, Handle(c, h),
         h.lease \in {"listener", "live"} => link # "none",
         h.lease = "live" => h.at \in {"session2", "grants2", "settle", "streaming"},
         h.at = "streaming" => h.lease = "live",
         gate[c].at = "idle" => h.at = "off",
         h.lease = "live" /\ link = "up" /\ inbox = 0 =>
           /\ h.at \in {"grants2", "settle", "streaming"} => rights.current
           /\ h.at \in {"settle", "streaming"} => h.exp <= rights.until
  PROVE  ApiInv'
<1>1. /\ api'[c] = h /\ \A d \in Conn \ {c} : api'[d] = api[d]
      /\ UNCHANGED <<rights, link, inbox, gate>>
  BY DEF Handle, RecordTypes
<1>. QED  BY <1>1 DEF ApiInv, LeaseInv, Validated

\* So it may be refused or aborted,
LEMMA EndingKeepsApi ==
  ASSUME RecordTypes, ApiInv, NEW c \in Conn, api[c].at # "off",
         Handle(c, Refused(api[c])) \/ Handle(c, Aborted(api[c]))
  PROVE  ApiInv'
<1>1. api[c] \in Api /\ LeaseInv(c)  BY DEF RecordTypes, ApiInv
<1>2. Refused(api[c]) \in Api /\ Aborted(api[c]) \in Api  BY <1>1, EndedTyped
<1>3. gate[c].at # "idle"  BY <1>1 DEF LeaseInv
<1>4. CASE Handle(c, Refused(api[c]))
  BY <1>1, <1>2, <1>3, <1>4, EndedNotLive, HandleKeepsApi DEF LeaseInv
<1>5. CASE Handle(c, Aborted(api[c]))
  BY <1>1, <1>2, <1>3, <1>5, EndedNotLive, HandleKeepsApi DEF LeaseInv
<1>. QED  BY <1>4, <1>5

\* or proceed to where its lease, if it is alive, has been validated.
LEMMA ProceedKeepsApi ==
  ASSUME RecordTypes, ApiInv, NEW c \in Conn, NEW condition \in BOOLEAN,
         NEW from \in {"status", "session1", "session2", "grants2", "settle"},
         NEW to \in {"listener", "grants1", "grants2", "settle", "streaming"},
         Proceed(c, from, condition, to),
         condition /\ api[c].lease = "live" =>
           /\ to \in {"grants2", "settle", "streaming"}
           /\ link = "up" /\ inbox = 0 =>
                /\ to \in {"grants2", "settle", "streaming"} => rights.current
                /\ to \in {"settle", "streaming"} => api[c].exp <= rights.until,
         condition /\ to = "streaming" => api[c].lease = "live"
  PROVE  ApiInv'
<1>1. api[c] \in Api /\ api[c].at = from /\ LeaseInv(c)  BY DEF RecordTypes, ApiInv, Proceed
<1>2. CASE condition
  <2> DEFINE h == [api[c] EXCEPT !.at = to]
  <2>1. h \in Api /\ h.at = to /\ h.lease = api[c].lease /\ h.exp = api[c].exp  BY <1>1 DEF Api
  <2>2. Handle(c, h)  BY <1>2 DEF Proceed
  <2> HIDE DEF h
  <2>. QED  BY <1>1, <1>2, <2>1, <2>2, HandleKeepsApi DEF LeaseInv
<1>3. CASE ~condition
  BY <1>1, <1>3, EndingKeepsApi DEF Proceed
<1>. QED  BY <1>2, <1>3

LEMMA WatchKeepsApi ==
  ASSUME RecordTypes, ApiInv, NEW c \in Conn, Watch(c)
  PROVE  ApiInv'
<1>0. api[c] \in Api /\ LeaseInv(c) /\ Validated(c) /\ rights \in Rights  BY DEF RecordTypes, ApiInv
<1>. USE DEF LeaseInv
<1>1. CASE Status(c)
  <2>1. (Usable /\ Granted) \in BOOLEAN  OBVIOUS
  <2>. QED  BY <1>0, <1>1, <2>1, ProceedKeepsApi DEF Status, Proceed
<1>2. CASE GetListener(c)
  <2> DEFINE h == [api[c] EXCEPT !.at = "session1", !.lease = "listener"]
  <2>1. h \in Api /\ h.at = "session1" /\ h.lease = "listener"  BY <1>0 DEF Api
  <2>2. Handle(c, h) /\ link # "none" /\ gate[c].at # "idle"  BY <1>0, <1>2 DEF GetListener
  <2> HIDE DEF h
  <2>. QED  BY <2>1, <2>2, HandleKeepsApi
<1>3. CASE ValidateSession(c)
  <2>1. Usable \in BOOLEAN  BY <1>0 DEF Usable, Rights
  <2>. QED  BY <1>0, <1>3, <2>1, ProceedKeepsApi DEF ValidateSession, Proceed
<1>4. CASE ValidateGrants(c)
  <2> DEFINE h == [api[c] EXCEPT !.at = "register", !.exp = rights.until]
  <2>1. h \in Api /\ h.at = "register" /\ h.lease = api[c].lease  BY <1>0 DEF Api, Rights
  <2>2. CASE Granted
    <3>1. Handle(c, h) /\ api[c].at = "grants1"  BY <1>4, <2>2 DEF ValidateGrants
    <3> HIDE DEF h
    <3>. QED  BY <1>0, <2>1, <3>1, HandleKeepsApi
  <2>3. CASE ~Granted  BY <1>4, <2>3, EndingKeepsApi DEF ValidateGrants
  <2>. QED  BY <2>2, <2>3
<1>5. CASE Register(c)
  <2> DEFINE h == [api[c] EXCEPT !.at = "session2", !.lease = "live"]
  <2>1. h \in Api /\ h.at = "session2" /\ h.lease = "live"  BY <1>0 DEF Api
  <2>2. CASE api[c].lease = "listener" /\ api[c].exp > 0
    <3>1. Handle(c, h) /\ api[c].at = "register"  BY <1>5, <2>2 DEF Register
    <3> HIDE DEF h
    <3>. QED  BY <1>0, <2>1, <2>2, <3>1, HandleKeepsApi
  <2>3. CASE ~(api[c].lease = "listener" /\ api[c].exp > 0)  BY <1>5, <2>3, EndingKeepsApi DEF Register
  <2>. QED  BY <2>2, <2>3
<1>6. CASE RevalidateSession(c)
  <2>1. Usable \in BOOLEAN /\ (Usable => rights.current)  BY <1>0 DEF Usable, Rights
  <2>. QED  BY <1>6, <2>1, ProceedKeepsApi DEF RevalidateSession
<1>7. CASE RevalidateGrants(c)
  <2>1. /\ StillGranted(c) \in BOOLEAN /\ api[c].at = "grants2"
        /\ StillGranted(c) => api[c].exp <= rights.until
    BY <1>0, <1>7 DEF StillGranted, Granted, Api, Rights, RevalidateGrants, Proceed
  <2>. QED  BY <1>0, <1>7, <2>1, ProceedKeepsApi DEF RevalidateGrants, Validated
<1>8. CASE Settle(c)
  <2>1. (api[c].lease = "live" /\ gate[c].at = "subscribe") \in BOOLEAN /\ api[c].at = "settle"
    BY <1>8 DEF Settle, Proceed
  <2>. QED  BY <1>0, <1>8, <2>1, ProceedKeepsApi DEF Settle, Validated
<1>9. CASE Throw(c) \/ ResponseCloses(c) \/ LeaseExpires(c)
  BY <1>0, <1>9, EndingKeepsApi DEF Throw, ResponseCloses, LeaseExpires, Answering
<1>. QED  BY <1>1, <1>2, <1>3, <1>4, <1>5, <1>6, <1>7, <1>8, <1>9 DEF Watch

LEMMA GatewayKeepsApi ==
  ASSUME RecordTypes, ApiInv, NEW c \in Conn, Gateway(c)
  PROVE  ApiInv'
<1>0. /\ UNCHANGED <<rights, link, inbox>> /\ api[c] \in Api
      /\ \A d \in Conn : gate'[d].at = "idle" => gate[d].at = "idle"
  <2>1. gate \in [Conn -> Gate] /\ api[c] \in Api  BY DEF RecordTypes
  <2>2. UNCHANGED <<rights, link, inbox>>
    BY DEF Gateway, Open, Subscribed, Close, Eof, Polling, CheckSession, CheckGrants, CheckFails,
           Check, TickerFires
  <2>3. ASSUME NEW g, gate' = [gate EXCEPT ![c] = g], g.at # "idle" \/ g.at = gate[c].at
        PROVE  \A d \in Conn : gate'[d].at = "idle" => gate[d].at = "idle"
    BY <2>1, <2>3
  <2>4. CloseConn(c) => \A d \in Conn : gate'[d].at = "idle" => gate[d].at = "idle"
    BY <2>3 DEF CloseConn
  <2>5. CASE Open(c)  BY <2>1, <2>2, <2>3, <2>4, <2>5 DEF Open
  <2>6. CASE Subscribed(c) \/ TickerFires(c)
    BY <2>1, <2>2, <2>6 DEF Subscribed, TickerFires, Gate
  <2>7. CASE Polling(c)
    <3>1. ASSUME NEW to, gate' = [gate EXCEPT ![c] = Polled(c, to)]
          PROVE  \A d \in Conn : gate'[d].at = "idle" => gate[d].at = "idle"
      BY <2>1, <3>1 DEF Polled, Gate
    <3>2. CloseConn(c) \/ \E to : gate' = [gate EXCEPT ![c] = Polled(c, to)]
      BY <2>7 DEF Polling, CheckSession, CheckGrants, CheckFails, Check, OnInvalid
    <3>. QED  BY <2>1, <2>2, <2>4, <3>1, <3>2
  <2>8. CASE Close(c) \/ Eof(c)  BY <2>1, <2>2, <2>4, <2>8 DEF Close, Eof
  <2>. QED  BY <2>5, <2>6, <2>7, <2>8 DEF Gateway
<1>1. CASE Open(c)
  <2>1. gate[c].at = "idle" /\ gate'[c].at # "idle"  BY <1>1 DEF Open, CloseConn, RecordTypes
  <2>2. /\ api'[c].lease = api[c].lease /\ api'[c].at \in {"off", "status"}
        /\ \A d \in Conn \ {c} : api'[d] = api[d]
    BY <1>0, <1>1, <2>1 DEF Open, RecordTypes, Api, ApiInv, LeaseInv
  <2>. QED  BY <1>0, <2>1, <2>2 DEF ApiInv, LeaseInv, Validated
<1>2. CASE ~Open(c)
  <2>1. UNCHANGED api
    BY <1>2 DEF Gateway, Subscribed, Close, Eof, Polling, CheckSession, CheckGrants, CheckFails, Check, TickerFires
  <2>. QED  BY <1>0, <2>1 DEF ApiInv, LeaseInv, Validated
<1>. QED  BY <1>1, <1>2

LEMMA TickKeepsApi ==
  ASSUME RecordTypes, ApiInv, Tick
  PROVE  ApiInv'
<1>. SUFFICES ASSUME NEW c \in Conn PROVE LeaseInv(c)' /\ Validated(c)'
  BY DEF ApiInv
<1>1. /\ api'[c].at = api[c].at /\ api'[c].lease = api[c].lease /\ api'[c].exp = Less(api[c].exp)
      /\ rights'.current = rights.current /\ rights'.until = Less(rights.until)
      /\ UNCHANGED <<link, inbox>>
  BY DEF Tick, RecordTypes, Rights, Api
<1>2. gate'[c].at = gate[c].at  BY DEF Tick, RecordTypes, Gate
<1>3. api[c].exp <= rights.until => Less(api[c].exp) <= Less(rights.until)
  BY LessMonotone DEF RecordTypes, Api, Rights
<1>. QED  BY <1>1, <1>2, <1>3 DEF ApiInv, LeaseInv, Validated

LEMMA ApiInductive == RecordTypes /\ ApiInv /\ [RNext]_runtimeVars => ApiInv'
<1>. SUFFICES ASSUME RecordTypes, ApiInv, [RNext]_runtimeVars PROVE ApiInv'  OBVIOUS
<1>1. CASE UNCHANGED runtimeVars  BY <1>1, ApiUntouched DEF runtimeVars
<1>2. ASSUME NEW c \in Conn, Watch(c) PROVE ApiInv'  BY <1>2, WatchKeepsApi
<1>3. ASSUME NEW c \in Conn, Gateway(c) PROVE ApiInv'  BY <1>3, GatewayKeepsApi
<1>. QED  BY <1>1, <1>2, <1>3, DatabaseKeepsApi, LinkKeepsApi, TickKeepsApi DEF RNext

------------------------------------------------------------------------------
(***************************************************************************)
(* The theorems.                                                           *)
(***************************************************************************)
LEMMA RuntimeInvariant == RSpec => [](RecordTypes /\ GateInv /\ ApiInv)
<1>1. RecordTypes /\ GateInv /\ ApiInv /\ [RNext]_runtimeVars => (RecordTypes /\ GateInv /\ ApiInv)'
  BY TypesInductive, GateInductive, ApiInductive
<1>. QED  BY <1>1, InitHolds, PTL DEF RSpec

\* The fields keep their types, and no lease is live without a listener
\* (LinkDown, ApiCrash and Register of runtime-authorization-lease.ts).
THEOREM RuntimeTypeCorrect == RSpec => []RATypeOK
<1>1. RecordTypes /\ ApiInv => RATypeOK  BY DEF RecordTypes, ApiInv, LeaseInv, RATypeOK
<1>. QED  BY <1>1, RuntimeInvariant, PTL

\* No stream outlives its session or its grant by more than a period of the poll
\* and a timeout, whatever is lost on the way of a notification.
THEOREM LagBoundedCorrect == RSpec => []LagBounded
<1>1. RecordTypes /\ GateInv => LagBounded
  <2>. SUFFICES ASSUME RecordTypes, GateInv, NEW c \in Conn
                PROVE  lag[c].session <= Poll + Timeout /\ lag[c].grant <= Poll + Timeout
    BY DEF LagBounded
  <2>1. PollState(c) /\ InTime(c) /\ LagInv(c)  BY DEF GateInv
  <2>. QED  BY <2>1, GateValues, TimerAssumption DEF PollState, InTime, LagInv
<1>. QED  BY <1>1, RuntimeInvariant, PTL

\* A revocation between validation and registration is not missed: the second
\* validation or the notification finds it.
THEOREM NoMissedRevocationCorrect == RSpec => []NoMissedRevocation
<1>1. RecordTypes /\ ApiInv => NoMissedRevocation
  BY DEF ApiInv, LeaseInv, Validated, NoMissedRevocation
<1>. QED  BY <1>1, RuntimeInvariant, PTL

\* Every way out of the watch request closes the lease it has registered.
THEOREM NoOrphanLeaseCorrect == RSpec => []NoOrphanLease
<1>1. ApiInv => NoOrphanLease  BY DEF ApiInv, LeaseInv, NoOrphanLease
<1>. QED  BY <1>1, RuntimeInvariant, PTL
==============================================================================
