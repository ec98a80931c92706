------------------------ MODULE ClusterEventSyncProofs ------------------------
(***************************************************************************)
(* Theorems about the watches and the syncs of a cluster, for any number   *)
(* of starts in flight, watch targets, changes and faults.                 *)
(***************************************************************************)
EXTENDS ClusterEventSync, TLAPS

------------------------------------------------------------------------------
(***************************************************************************)
(* Types.                                                                  *)
(***************************************************************************)
LEMMA FirstKind == 1 \in Kind /\ 0 \in Version
BY EventAssumption DEF Kind, Version

LEMMA NoCallTyped == NoCall \in Call
BY FirstKind DEF NoCall, Call

LEMMA NoSyncTyped == NoSync \in SyncState
BY EventAssumption DEF NoSync, SyncState

LEMMA InitTyped == EInit => ETypeOK
<1>. SUFFICES ASSUME EInit PROVE ETypeOK  OBVIOUS
<1>1. live \in [Kind -> Version] /\ db \in [Kind -> Version] /\ synced \in [Kind -> Version]
  BY FirstKind DEF EInit
<1>2. call \in [Start -> Call] /\ sync \in [Sync -> SyncState]
  BY NoCallTyped, NoSyncTyped DEF EInit
<1>3. faults \in 0..MaxFaults  BY EventAssumption DEF EInit
<1>. QED  BY <1>1, <1>2, <1>3 DEF EInit, ETypeOK

LEMMA FaultTyped == ETypeOK /\ Fault => faults' \in 0..MaxFaults
BY EventAssumption DEF ETypeOK, Fault

LEMMA DieTyped ==
  ASSUME ETypeOK, Die, faults' \in 0..MaxFaults
  PROVE  ETypeOK'
BY NoCallTyped, NoSyncTyped DEF ETypeOK, Die, clusterVars

LEMMA AskForSyncTyped == ETypeOK /\ AskForSync => sync' \in [Sync -> SyncState]
<1>. SUFFICES ASSUME ETypeOK, AskForSync PROVE sync' \in [Sync -> SyncState]  OBVIOUS
<1>1. [at |-> 1, listed |-> None] \in SyncState  BY EventAssumption DEF SyncState
<1>. QED  BY <1>1 DEF ETypeOK, AskForSync

LEMMA NextKindTyped ==
  ASSUME ETypeOK, NEW i \in Sync, Active(i)
  PROVE  [at |-> NextKind(i), listed |-> None] \in SyncState /\ sync[i].at \in Kind
<1>1. sync[i].at \in 1..Kinds  BY EventAssumption DEF ETypeOK, SyncState, Active
<1>2. NextKind(i) \in 0..Kinds  BY <1>1, EventAssumption DEF NextKind
<1>. QED  BY <1>1, <1>2 DEF SyncState, Kind

\* Steps of the syncs and of the cluster.
LEMMA SyncStepTyped ==
  ASSUME ETypeOK,
         \/ Ask \/ RunSync \/ MutateWrite
         \/ \E i \in Sync : ListKind(i) \/ WriteKind(i) \/ SkipKind(i)
         \/ \E k \in Kind : Change(k) \/ Mutate(k)
  PROVE  ETypeOK'
<1>. USE DEF clusterVars, watchVars, syncVars
<1>1. CASE Ask  BY <1>1, AskForSyncTyped DEF Ask, ETypeOK
<1>2. CASE RunSync
  <2>1. sync' \in [Sync -> SyncState]  BY <1>2, AskForSyncTyped DEF RunSync, ETypeOK
  <2>2. faults' \in 0..MaxFaults  BY <1>2, FaultTyped DEF RunSync, ETypeOK
  <2>. QED  BY <1>2, <2>1, <2>2 DEF RunSync, ETypeOK
<1>3. CASE MutateWrite
  <2>1. db' \in [Kind -> Version]  BY <1>3 DEF MutateWrite, ETypeOK
  <2>. QED  BY <1>3, <2>1, AskForSyncTyped DEF MutateWrite, ETypeOK
<1>4. ASSUME NEW i \in Sync, ListKind(i) PROVE ETypeOK'
  <2>1. live[sync[i].at] \in Version  BY <1>4, NextKindTyped DEF ListKind, ETypeOK
  <2>2. sync' \in [Sync -> SyncState]  BY <1>4, <2>1 DEF ListKind, ETypeOK, SyncState
  <2>. QED  BY <1>4, <2>2 DEF ListKind, ETypeOK
<1>5. ASSUME NEW i \in Sync, WriteKind(i) PROVE ETypeOK'
  <2>1. sync[i].listed \in Version  BY <1>5 DEF WriteKind, ETypeOK, SyncState
  <2>2. sync' \in [Sync -> SyncState]  BY <1>5, NextKindTyped DEF WriteKind, ETypeOK
  <2>. QED  BY <1>5, <2>1, <2>2 DEF WriteKind, ETypeOK
<1>6. ASSUME NEW i \in Sync, SkipKind(i) PROVE ETypeOK'
  <2>1. sync' \in [Sync -> SyncState]  BY <1>6, NextKindTyped DEF SkipKind, ETypeOK
  <2>. QED  BY <1>6, <2>1, FaultTyped DEF SkipKind, ETypeOK
<1>7. ASSUME NEW k \in Kind, ChangeKind(k)
      PROVE  /\ live' \in [Kind -> Version] /\ unread' \subseteq Kind
             /\ live[k] + 1 \in Version
  BY <1>7, EventAssumption DEF ChangeKind, ETypeOK, Version
<1>8. ASSUME NEW k \in Kind, Change(k) PROVE ETypeOK'
  BY <1>7, <1>8 DEF Change, ETypeOK
<1>9. ASSUME NEW k \in Kind, Mutate(k) PROVE ETypeOK'
  BY <1>7, <1>9 DEF Mutate, ETypeOK
<1>. QED  BY <1>1, <1>2, <1>3, <1>4, <1>5, <1>6, <1>8, <1>9

\* A start that goes on keeps the types.
LEMMA GoOnTyped ==
  ASSUME ETypeOK, NEW s \in Start, NEW opened, opened \subseteq (Start \union {Watches}) \X Kind,
         GoOn(s, opened)
  PROVE  /\ stream' \subseteq (Start \union {Watches}) \X Kind
         /\ current' \in Start \union {Watches, None}
         /\ call' \in [Start -> Call]
<1>1. CASE call[s].kind < Kinds
  <2>1. call[s].kind + 1 \in Kind  BY <1>1, EventAssumption DEF ETypeOK, Call, Kind
  <2>2. call' \in [Start -> Call]  BY <1>1, <2>1 DEF GoOn, ETypeOK, Call
  <2>. QED  BY <1>1, <2>2 DEF GoOn, ETypeOK
<1>2. CASE ~(call[s].kind < Kinds)
  <2>1. call' \in [Start -> Call]  BY <1>2, NoCallTyped DEF GoOn, ETypeOK
  <2>2. stream' \subseteq (Start \union {Watches}) \X Kind  BY <1>2 DEF GoOn
  <2>. QED  BY <1>2, <2>1, <2>2 DEF GoOn
<1>. QED  BY <1>1, <1>2

\* Steps of a start.
LEMMA StartStepTyped ==
  ASSUME ETypeOK, NEW s \in Start, StartStep(s)
  PROVE  ETypeOK'
<1>. USE DEF clusterVars, syncVars, At
<1>1. ASSUME TakeGeneration(s)
      PROVE  /\ stream' \subseteq (Start \union {Watches}) \X Kind /\ unread' \subseteq Kind
             /\ current' \in Start /\ call' \in [Start -> Call] /\ timer' \in BOOLEAN
  BY <1>1 DEF TakeGeneration, StopWatches, ETypeOK, Call
<1>2. ASSUME Superseded(s)
      PROVE  /\ stream' \subseteq (Start \union {Watches}) \X Kind
             /\ call' \in [Start -> Call] /\ UNCHANGED <<unread, current, timer>>
  BY <1>2, NoCallTyped DEF Superseded, ETypeOK
<1>3. CASE Boot(s)
  <2>1. faults' \in 0..MaxFaults  BY <1>3, FaultTyped DEF Boot, ETypeOK
  <2>. QED  BY <1>1, <1>3, <2>1 DEF Boot, ETypeOK
<1>4. CASE Request(s)
  <2>1. [NoCall EXCEPT !.pc = "ensure"] \in Call  BY NoCallTyped DEF Call
  <2>. QED  BY <1>4, <2>1 DEF Request, ETypeOK
<1>5. CASE TimerFires(s)
  <2>1. [NoCall EXCEPT !.pc = "ensure", !.timed = TRUE] \in Call  BY NoCallTyped DEF Call
  <2>. QED  BY <1>5, <2>1 DEF TimerFires, ETypeOK
<1>6. CASE Ensure(s)  BY <1>1, <1>6 DEF Ensure, ETypeOK
<1>7. CASE Config(s)
  <2>1. [call[s] EXCEPT !.pc = "open"] \in Call  BY DEF ETypeOK, Call
  <2>. QED  BY <1>7, <2>1, NoCallTyped DEF Config, ETypeOK
<1>8. CASE ConfigFails(s)
  <2>1. faults' \in 0..MaxFaults  BY <1>8, FaultTyped DEF ConfigFails
  <2>2. CASE Die  BY <2>1, <2>2, DieTyped
  <2>3. CASE ~call[s].timed
    <3>1. call' = [call EXCEPT ![s] = NoCall] \/ Die  BY <1>8, <2>3 DEF ConfigFails
    <3>. QED  BY <1>8, <2>1, <2>2, <2>3, <3>1, NoCallTyped DEF ConfigFails, ETypeOK
  <2>. QED  BY <1>8, <2>2, <2>3 DEF ConfigFails
<1>9. CASE Open(s)
  <2>1. call[s].kind \in Kind  BY DEF ETypeOK, Call
  <2>2. CASE current = s /\ GoOn(s, stream \union {<<s, call[s].kind>>}) /\ UNCHANGED timer
             /\ unread' = unread \union {call[s].kind}
    <3>1. stream \union {<<s, call[s].kind>>} \subseteq (Start \union {Watches}) \X Kind
      BY <2>1 DEF ETypeOK
    <3>2. unread' \subseteq Kind  BY <2>1, <2>2 DEF ETypeOK
    <3>. QED  BY <1>9, <2>2, <3>1, <3>2, GoOnTyped DEF Open, ETypeOK
  <2>3. CASE Superseded(s)  BY <1>2, <1>9, <2>3 DEF Open, ETypeOK
  <2>. QED  BY <1>9, <2>2, <2>3 DEF Open
<1>10. CASE OpenFails(s)
  <2>1. faults' \in 0..MaxFaults  BY <1>10, FaultTyped DEF OpenFails
  <2>2. CASE GoOn(s, stream) /\ ScheduleRestart(s) /\ UNCHANGED unread
    <3>1. stream \subseteq (Start \union {Watches}) \X Kind  BY DEF ETypeOK
    <3>2. timer' \in BOOLEAN  BY <2>2 DEF ETypeOK, ScheduleRestart
    <3>. QED  BY <1>10, <2>1, <2>2, <3>1, <3>2, GoOnTyped DEF OpenFails, ETypeOK
  <2>3. CASE Superseded(s)  BY <1>2, <1>10, <2>1, <2>3 DEF OpenFails, ETypeOK
  <2>. QED  BY <1>10, <2>2, <2>3 DEF OpenFails
<1>. QED  BY <1>3, <1>4, <1>5, <1>6, <1>7, <1>8, <1>9, <1>10 DEF StartStep

LEMMA NextTyped == ETypeOK /\ [ENext]_eventVars => ETypeOK'
<1>. SUFFICES ASSUME ETypeOK, [ENext]_eventVars PROVE ETypeOK'  OBVIOUS
<1>1. CASE \/ Ask \/ RunSync \/ MutateWrite
           \/ \E i \in Sync : ListKind(i) \/ WriteKind(i) \/ SkipKind(i)
           \/ \E k \in Kind : Change(k) \/ Mutate(k)
  BY <1>1, SyncStepTyped
<1>2. CASE Crash
  BY <1>2, DieTyped, FaultTyped DEF Crash
<1>3. ASSUME NEW s \in Start, StartStep(s) PROVE ETypeOK'
  BY <1>3, StartStepTyped
<1>4. ASSUME NEW k \in Kind, Event(k) PROVE ETypeOK'
  BY <1>4 DEF Event, ETypeOK, clusterVars
<1>5. ASSUME NEW o \in Start \union {Watches}, NEW k \in Kind, End(o, k) PROVE ETypeOK'
  BY <1>5 DEF End, ETypeOK, ScheduleRestart, clusterVars, syncVars
<1>6. CASE UNCHANGED eventVars
  BY <1>6 DEF eventVars, ETypeOK
<1>. QED  BY <1>1, <1>2, <1>3, <1>4, <1>5, <1>6 DEF ENext

\* The state keeps its types.
THEOREM SyncTypeCorrect == ESpec => []ETypeOK
<1>1. EInit => ETypeOK  BY InitTyped
<1>2. ETypeOK /\ [ENext]_eventVars => ETypeOK'  BY NextTyped
<1>. QED  BY <1>1, <1>2, PTL DEF ESpec

------------------------------------------------------------------------------
(***************************************************************************)
(* Watches.  A stream is held by the start that has yet to come back from  *)
(* an await, or by this.watches of the current generation; a start of the  *)
(* current generation has not come through; and before it opens the first  *)
(* watch it is at the first target.                                        *)
(***************************************************************************)
StreamInv ==
  \A w \in stream : IF w[1] = Watches THEN current = Watches ELSE At(w[1], "open")

StartInv ==
  /\ current \in Start => At(current, "config") \/ At(current, "open")
  /\ \A s \in Start : call[s].kind # 1 => At(s, "open")

\* Somebody is about to watch k, or does.
Tended(k) ==
  \/ <<current, k>> \in stream
  \/ timer \/ \E s \in Start : At(s, "ensure") /\ call[s].timed
  \/ current \in Start /\ (At(current, "config") \/ k >= call[current].kind)

WatchInv == ETypeOK /\ StreamInv /\ StartInv /\ WatchTended

LEMMA InitWatched == EInit => WatchInv
<1>1. EInit => StreamInv /\ StartInv /\ WatchTended
  BY StartAssumption DEF EInit, StreamInv, StartInv, WatchTended, NoCall
<1>. QED  BY <1>1, InitTyped DEF WatchInv

\* The owner of a stream.
LEMMA StreamOwner ==
  ASSUME ETypeOK, NEW w \in stream
  PROVE  w[1] \in Start \union {Watches} /\ w[2] \in Kind /\ w = <<w[1], w[2]>>
BY DEF ETypeOK

\* Nothing that the watches depend on changes.
LEMMA WatchesUnchanged ==
  ASSUME WatchInv, ETypeOK', UNCHANGED <<stream, current, call, timer>>
  PROVE  WatchInv'
BY DEF WatchInv, StreamInv, StartInv, WatchTended, At

LEMMA DieWatched ==
  ASSUME Die, ETypeOK'
  PROVE  WatchInv'
<1>1. StreamInv'  BY DEF Die, StreamInv
<1>2. StartInv'  BY StartAssumption DEF Die, StartInv, NoCall
<1>3. WatchTended'  BY DEF Die, WatchTended
<1>. QED  BY <1>1, <1>2, <1>3 DEF WatchInv

\* A start that is not opening a watch holds no stream.
LEMMA HoldsNothing ==
  ASSUME WatchInv, NEW s \in Start, ~At(s, "open"), NEW w \in stream
  PROVE  w[1] # s
BY StartAssumption DEF WatchInv, StreamInv

LEMMA TakeGenerationWatched ==
  ASSUME WatchInv, NEW s \in Start, TakeGeneration(s), call[s].pc \in {"idle", "ensure"}, ETypeOK'
  PROVE  WatchInv'
<1>. USE DEF At
<1>1. /\ stream' = stream \ StreamsOf(Watches) /\ current' = s
      /\ call' = [call EXCEPT ![s].pc = "config"] /\ call \in [Start -> Call]
  BY DEF TakeGeneration, StopWatches, WatchInv, ETypeOK
<1>2. call'[s].pc = "config" /\ call'[s].kind = 1 /\ \A r \in Start \ {s} : call'[r] = call[r]
  BY <1>1 DEF WatchInv, StartInv, Call
<1>3. StreamInv'
  <2>. SUFFICES ASSUME NEW w \in stream' PROVE w[1] # Watches /\ call'[w[1]].pc = "open"
    BY DEF StreamInv
  <2>1. w \in stream /\ w[1] # Watches  BY <1>1 DEF StreamsOf
  <2>2. w[1] \in Start /\ w[1] # s  BY <2>1, StreamOwner, HoldsNothing DEF WatchInv
  <2>. QED  BY <1>2, <2>1, <2>2 DEF WatchInv, StreamInv
<1>4. StartInv'  BY <1>1, <1>2 DEF WatchInv, StartInv
<1>5. WatchTended'  BY <1>1, <1>2 DEF WatchTended
<1>. QED  BY <1>3, <1>4, <1>5 DEF WatchInv

\* A start comes back from an await and finds its generation over.
LEMMA SupersededWatched ==
  ASSUME WatchInv, NEW s \in Start, At(s, "open"), current # s, Superseded(s), ETypeOK'
  PROVE  WatchInv'
<1>. USE DEF At
<1>1. /\ call' = [call EXCEPT ![s] = NoCall] /\ call \in [Start -> Call]
      /\ stream' = stream \ StreamsOf(s) /\ UNCHANGED <<current, timer>>
  BY DEF Superseded, WatchInv, ETypeOK
<1>2. call'[s] = NoCall /\ \A r \in Start \ {s} : call'[r] = call[r]  BY <1>1
<1>3. StreamInv'
  <2>. SUFFICES ASSUME NEW w \in stream'
                PROVE  IF w[1] = Watches THEN current = Watches ELSE call'[w[1]].pc = "open"
    BY <1>1 DEF StreamInv
  <2>1. w \in stream /\ w[1] # s  BY <1>1 DEF StreamsOf
  <2>. QED  BY <1>2, <2>1, StreamOwner DEF WatchInv, StreamInv
<1>4. StartInv'  BY <1>1, <1>2 DEF WatchInv, StartInv, NoCall
<1>5. WatchTended'
  <2>. SUFFICES ASSUME current # None, NEW k \in Kind PROVE Tended(k)'
    BY <1>1 DEF WatchTended, Tended
  <2>1. Tended(k)  BY DEF WatchInv, WatchTended, Tended
  <2>2. <<current, k>> \in stream => <<current, k>> \in stream'  BY <1>1 DEF StreamsOf
  <2>3. ASSUME NEW r \in Start, call[r].pc = "ensure", call[r].timed
        PROVE  call'[r].pc = "ensure" /\ call'[r].timed
    BY <1>2, <2>3
  <2>. QED  BY <1>1, <1>2, <2>1, <2>2, <2>3 DEF Tended
<1>. QED  BY <1>3, <1>4, <1>5 DEF WatchInv

\* The next target, or the handles are handed over: only the target of this step
\* may be left without a watch, and then the timer is set.
LEMMA GoOnWatched ==
  ASSUME WatchInv, NEW s \in Start, At(s, "open"), current = s, NEW opened,
         opened \in {stream, stream \union {<<s, call[s].kind>>}}, GoOn(s, opened),
         timer' \/ (UNCHANGED timer /\ <<s, call[s].kind>> \in opened), ETypeOK'
  PROVE  WatchInv'
<1>. USE DEF At
<1>1. call \in [Start -> Call] /\ call[s].kind \in Kind  BY DEF WatchInv, ETypeOK, Call
<1>2. \A w \in opened : w[1] \in Start /\ w[2] \in Kind /\ w = <<w[1], w[2]>>
                        /\ call[w[1]].pc = "open"
  <2>1. \A w \in stream : w[1] # Watches  BY StartAssumption DEF WatchInv, StreamInv
  <2>. QED  BY <1>1, <2>1, StreamOwner DEF WatchInv, StreamInv
<1>3. CASE call[s].kind < Kinds
  <2>1. /\ call' = [call EXCEPT ![s].kind = call[s].kind + 1]
        /\ stream' = opened /\ current' = s
    BY <1>3 DEF GoOn
  <2>2. /\ call'[s] = [call[s] EXCEPT !.kind = call[s].kind + 1]
        /\ call'[s].pc = "open" /\ call'[s].kind = call[s].kind + 1
        /\ \A r \in Start \ {s} : call'[r] = call[r]
    BY <1>1, <2>1 DEF Call
  <2>3. StreamInv'  BY <1>2, <2>1, <2>2, StartAssumption DEF StreamInv
  <2>4. StartInv'  BY <2>1, <2>2 DEF WatchInv, StartInv
  <2>5. WatchTended'
    <3>. SUFFICES ASSUME NEW k \in Kind, ~timer' PROVE Tended(k)'  BY DEF WatchTended, Tended
    <3>1. Tended(k) /\ ~timer /\ <<s, call[s].kind>> \in opened
      BY StartAssumption DEF WatchInv, WatchTended, Tended
    <3>2. CASE k = call[s].kind  BY <2>1, <3>1, <3>2 DEF Tended
    <3>3. CASE k # call[s].kind
      <4>1. k >= call[s].kind => k >= call[s].kind + 1  BY <1>1, <3>3 DEF Kind
      <4>2. \A r \in Start : call[r].pc = "ensure" => call'[r] = call[r]  BY <2>2
      <4>. QED  BY <2>1, <2>2, <3>1, <4>1, <4>2 DEF Tended
    <3>. QED  BY <3>2, <3>3
  <2>. QED  BY <2>3, <2>4, <2>5 DEF WatchInv
<1>4. CASE ~(call[s].kind < Kinds)
  <2>1. /\ call' = [call EXCEPT ![s] = NoCall] /\ current' = Watches
        /\ stream' = {<<IF w[1] = s THEN Watches ELSE w[1], w[2]>> : w \in opened}
    BY <1>4 DEF GoOn
  <2>2. call'[s] = NoCall /\ \A r \in Start \ {s} : call'[r] = call[r]  BY <1>1, <2>1
  <2>3. StreamInv'
    <3>. SUFFICES ASSUME NEW w \in opened, w[1] # s PROVE call'[w[1]].pc = "open"
      BY <2>1 DEF StreamInv
    <3>. QED  BY <1>2, <2>2
  <2>4. StartInv'  BY <2>1, <2>2, StartAssumption DEF WatchInv, StartInv, NoCall
  <2>5. WatchTended'
    <3>. SUFFICES ASSUME NEW k \in Kind, ~timer' PROVE Tended(k)'  BY DEF WatchTended, Tended
    <3>1. Tended(k) /\ ~timer /\ <<s, call[s].kind>> \in opened
      BY StartAssumption DEF WatchInv, WatchTended, Tended
    <3>2. k >= call[s].kind => k = call[s].kind  BY <1>1, <1>4, EventAssumption DEF Kind
    <3>3. <<s, k>> \in opened => <<Watches, k>> \in stream'  BY <2>1
    <3>4. \A r \in Start : call[r].pc = "ensure" => call'[r] = call[r]  BY <2>2
    <3>. QED  BY <2>1, <3>1, <3>2, <3>3, <3>4 DEF Tended
  <2>. QED  BY <2>3, <2>4, <2>5 DEF WatchInv
<1>. QED  BY <1>3, <1>4

LEMMA StartStepWatched ==
  ASSUME WatchInv, NEW s \in Start, StartStep(s), ETypeOK'
  PROVE  WatchInv'
<1>. USE DEF At
<1>0. call \in [Start -> Call]  BY DEF WatchInv, ETypeOK
\* A start that waits for its kubeconfig, at first or again.
<1>1. ASSUME NEW c, c = NoCall \/ c.kind = 1, c.pc \in {"ensure", "idle"}, call[s].pc \in {"idle", "ensure", "config"},
             call' = [call EXCEPT ![s] = c], UNCHANGED stream,
             current # s, UNCHANGED current, timer => timer' \/ (c.pc = "ensure" /\ c.timed),
             call[s].pc = "ensure" /\ call[s].timed => current = None
      PROVE  WatchInv'
  <2>1. call'[s] = c /\ \A r \in Start \ {s} : call'[r] = call[r]  BY <1>0, <1>1
  <2>2. c.kind = 1  BY <1>1 DEF NoCall
  <2>3. StreamInv'
    <3>. SUFFICES ASSUME NEW w \in stream
                  PROVE  IF w[1] = Watches THEN current = Watches ELSE call'[w[1]].pc = "open"
      BY <1>1 DEF StreamInv
    <3>1. w[1] # s  BY <1>1, HoldsNothing
    <3>. QED  BY <2>1, <3>1, StreamOwner DEF WatchInv, StreamInv
  <2>4. StartInv'  BY <1>1, <2>1, <2>2 DEF WatchInv, StartInv
  <2>5. WatchTended'
    <3>. SUFFICES ASSUME current # None, NEW k \in Kind PROVE Tended(k)'
      BY <1>1 DEF WatchTended, Tended
    <3>1. Tended(k)  BY DEF WatchInv, WatchTended, Tended
    <3>. QED  BY <1>1, <2>1, <3>1 DEF Tended
  <2>. QED  BY <2>3, <2>4, <2>5 DEF WatchInv
<1>2. CASE Boot(s)
  <2>1. TakeGeneration(s) \/ UNCHANGED <<stream, current, call, timer>>  BY <1>2 DEF Boot
  <2>. QED  BY <1>2, <2>1, TakeGenerationWatched, WatchesUnchanged DEF Boot
<1>3. CASE Request(s)
  <2>1. current # s  BY <1>3 DEF Request, WatchInv, StartInv
  <2>. QED  BY <1>1, <1>3, <2>1 DEF Request, NoCall
<1>4. CASE TimerFires(s)
  <2>1. current # s  BY <1>4 DEF TimerFires, WatchInv, StartInv
  <2>. QED  BY <1>1, <1>4, <2>1 DEF TimerFires, NoCall
<1>5. CASE Ensure(s)  BY <1>5, TakeGenerationWatched DEF Ensure
<1>6. CASE Config(s)
  <2>1. CASE current = s
    <3>1. /\ call'[s] = [call[s] EXCEPT !.pc = "open"] /\ UNCHANGED <<stream, current, timer>>
          /\ \A r \in Start \ {s} : call'[r] = call[r]
      BY <1>0, <1>6, <2>1 DEF Config
    <3>2. call'[s].pc = "open" /\ call'[s].kind = 1  BY <1>6, <1>0, <3>1 DEF Config, WatchInv, StartInv, Call
    <3>3. StreamInv'  BY <3>1, <3>2, StreamOwner DEF WatchInv, StreamInv
    <3>4. StartInv'  BY <2>1, <3>1, <3>2 DEF WatchInv, StartInv
    <3>5. \A k \in Kind : k >= 1  BY DEF Kind
    <3>6. WatchTended'  BY <2>1, <3>1, <3>2, <3>5 DEF WatchTended
    <3>. QED  BY <3>3, <3>4, <3>6 DEF WatchInv
  <2>2. CASE current # s  BY <1>1, <1>6, <2>2 DEF Config, NoCall
  <2>. QED  BY <2>1, <2>2
<1>7. CASE ConfigFails(s)
  <2>1. CASE Die  BY <2>1, DieWatched
  <2>2. CASE ~Die /\ current = s
    <3>1. /\ call'[s] = NoCall /\ current' = None /\ UNCHANGED <<stream, timer>>
          /\ \A r \in Start \ {s} : call'[r] = call[r]
      BY <1>0, <1>7, <2>2 DEF ConfigFails
    <3>2. StreamInv'
      <4>. SUFFICES ASSUME NEW w \in stream PROVE w[1] # Watches /\ call'[w[1]].pc = "open"
        BY <3>1 DEF StreamInv
      <4>1. w[1] # s  BY <1>7, HoldsNothing DEF ConfigFails
      <4>. QED  BY <2>2, <3>1, <4>1, StreamOwner, StartAssumption DEF WatchInv, StreamInv
    <3>3. StartInv'  BY <3>1, StartAssumption DEF WatchInv, StartInv, NoCall
    <3>. QED  BY <3>1, <3>2, <3>3 DEF WatchInv, WatchTended
  <2>3. CASE ~Die /\ current # s
    <3>1. /\ ~call[s].timed /\ call' = [call EXCEPT ![s] = NoCall]
          /\ UNCHANGED <<stream, current, timer>> /\ call[s].pc \in {"ensure", "config"}
      BY <1>7, <2>3 DEF ConfigFails
    <3>2. NoCall.pc = "idle"  BY DEF NoCall
    <3>. QED  BY <1>1, <2>3, <3>1, <3>2
  <2>. QED  BY <2>1, <2>2, <2>3
<1>8. CASE Open(s)
  <2>1. <<s, call[s].kind>> \in stream \union {<<s, call[s].kind>>}  OBVIOUS
  <2>. QED  BY <1>8, <2>1, GoOnWatched, SupersededWatched DEF Open
<1>9. CASE OpenFails(s)
  <2>1. CASE current = s /\ ScheduleRestart(s) /\ GoOn(s, stream)
    <3>1. timer'  BY <2>1 DEF ScheduleRestart
    <3>. QED  BY <1>9, <2>1, <3>1, GoOnWatched DEF OpenFails
  <2>. QED  BY <1>9, <2>1, SupersededWatched DEF OpenFails
<1>. QED  BY <1>2, <1>3, <1>4, <1>5, <1>6, <1>7, <1>8, <1>9 DEF StartStep

LEMMA EndWatched ==
  ASSUME WatchInv, NEW o \in Start \union {Watches}, NEW k \in Kind, End(o, k), ETypeOK'
  PROVE  WatchInv'
<1>1. /\ stream' = stream \ {<<o, k>>} /\ UNCHANGED <<call, current>>
      /\ timer \/ o = current => timer'
  BY DEF End, ScheduleRestart
<1>2. StreamInv' /\ StartInv'  BY <1>1 DEF WatchInv, StreamInv, StartInv, At
<1>3. WatchTended'
  <2>. SUFFICES ASSUME current # None, NEW j \in Kind PROVE Tended(j)'
    BY <1>1 DEF WatchTended, Tended
  <2>1. Tended(j)  BY DEF WatchInv, WatchTended, Tended
  <2>2. o # current => (<<current, j>> \in stream => <<current, j>> \in stream')  BY <1>1
  <2>. QED  BY <1>1, <2>1, <2>2 DEF Tended, At
<1>. QED  BY <1>2, <1>3 DEF WatchInv

LEMMA NextWatched == WatchInv /\ [ENext]_eventVars => WatchInv'
<1>. SUFFICES ASSUME WatchInv, [ENext]_eventVars PROVE WatchInv'  OBVIOUS
<1>0. ETypeOK'  BY NextTyped DEF WatchInv
<1>1. CASE \/ Ask \/ RunSync \/ MutateWrite
           \/ \E i \in Sync : ListKind(i) \/ WriteKind(i) \/ SkipKind(i)
           \/ \E k \in Kind : Change(k) \/ Mutate(k) \/ Event(k)
           \/ UNCHANGED eventVars
  <2>1. UNCHANGED <<stream, current, call, timer>>
    BY <1>1 DEF Ask, RunSync, MutateWrite, ListKind, WriteKind, SkipKind, Change, Mutate, Event,
                watchVars, eventVars
  <2>. QED  BY <1>0, <2>1, WatchesUnchanged
<1>2. CASE Crash  BY <1>0, <1>2, DieWatched DEF Crash
<1>3. ASSUME NEW s \in Start, StartStep(s) PROVE WatchInv'  BY <1>0, <1>3, StartStepWatched
<1>4. ASSUME NEW o \in Start \union {Watches}, NEW k \in Kind, End(o, k) PROVE WatchInv'
  BY <1>0, <1>4, EndWatched
<1>. QED  BY <1>1, <1>2, <1>3, <1>4 DEF ENext

LEMMA WatchInvariant == ESpec => []WatchInv
<1>1. EInit => WatchInv  BY InitWatched
<1>2. WatchInv /\ [ENext]_eventVars => WatchInv'  BY NextWatched
<1>. QED  BY <1>1, <1>2, PTL DEF ESpec

\* However many starts overtake each other, the streams of a generation that is
\* over are open only until the start that opened them comes back from its await.
THEOREM NoStrayStreamCorrect == ESpec => []NoStrayStream
<1>1. WatchInv => NoStrayStream
  BY StreamOwner DEF WatchInv, StreamInv, NoStrayStream
<1>. QED  BY <1>1, WatchInvariant, PTL

\* Once a start has come through, every target is watched or about to be, whatever
\* watch is refused, ends or is overtaken; a start that cannot read the kubeconfig
\* gives up, and the property says nothing of the cluster until the next start.
THEOREM WatchTendedCorrect == ESpec => []WatchTended
<1>1. WatchInv => WatchTended  BY DEF WatchInv
<1>. QED  BY <1>1, WatchInvariant, PTL

------------------------------------------------------------------------------
(***************************************************************************)
(* Syncs.  At most one is going on, so what it has listed of a kind is no  *)
(* older than what an earlier one has written, and no newer than the kind. *)
(***************************************************************************)
OneSync == \A i, j \in Sync : Active(i) /\ Active(j) => i = j

ListInv ==
  \A i \in Sync : Active(i) /\ sync[i].listed # None =>
    synced[sync[i].at] <= sync[i].listed /\ sync[i].listed <= live[sync[i].at]

SyncInv == ETypeOK /\ OneSync /\ ListInv /\ \A k \in Kind : synced[k] <= live[k]

LEMMA InitSynced == EInit => SyncInv
<1>. SUFFICES ASSUME EInit PROVE SyncInv  OBVIOUS
<1>1. \A i \in Sync : ~Active(i)  BY DEF EInit, Active, NoSync
<1>2. \A k \in Kind : synced[k] = 0 /\ live[k] \in Nat
  BY DEF EInit, Version
<1>. QED  BY <1>1, <1>2, InitTyped DEF SyncInv, OneSync, ListInv

\* Whoever asks, the only sync is the one that was going on, or a new one.
LEMMA AskForSyncSynced ==
  ASSUME SyncInv, AskForSync, UNCHANGED <<live, synced>>, ETypeOK'
  PROVE  SyncInv'
<1>1. CASE sync' = sync  BY <1>1 DEF SyncInv, OneSync, ListInv, Active
<1>2. ASSUME NEW i \in Sync, \A j \in Sync : ~Active(j), sync' = [sync EXCEPT ![i] = [at |-> 1, listed |-> None]]
      PROVE  SyncInv'
  <2>1. sync'[i].listed = None /\ \A j \in Sync \ {i} : sync'[j] = sync[j]
    BY <1>2 DEF SyncInv, ETypeOK
  <2>. QED  BY <1>2, <2>1 DEF SyncInv, OneSync, ListInv, Active
<1>. QED  BY <1>1, <1>2 DEF AskForSync

\* The sync lists, writes, or leaves a kind.
LEMMA KindStepSynced ==
  ASSUME SyncInv, NEW i \in Sync, ListKind(i) \/ WriteKind(i) \/ SkipKind(i), ETypeOK'
  PROVE  SyncInv' /\ \A k \in Kind : synced'[k] >= synced[k]
<1>1. /\ \A k \in Kind : synced[k] \in Nat /\ live[k] \in Nat
      /\ sync \in [Sync -> SyncState] /\ Active(i) /\ live' = live
  BY DEF SyncInv, ETypeOK, Version, ListKind, WriteKind, SkipKind, clusterVars
<1>2. sync[i].at \in Kind  BY <1>1, NextKindTyped DEF SyncInv
<1>3. \A j \in Sync \ {i} : ~Active(j) /\ sync'[j] = sync[j]
  BY <1>1 DEF SyncInv, OneSync, ListKind, WriteKind, SkipKind
<1>4. OneSync'  BY <1>3 DEF OneSync, Active
<1>5. CASE ListKind(i)
  <2>1. /\ sync'[i].listed = live[sync[i].at] /\ sync'[i].at = sync[i].at /\ synced' = synced
    BY <1>1, <1>5 DEF ListKind, SyncState, clusterVars
  <2>2. ListInv'
    <3>. SUFFICES ASSUME NEW j \in Sync, Active(j)'
                  PROVE  synced'[sync'[j].at] <= sync'[j].listed /\ sync'[j].listed <= live'[sync'[j].at]
      BY DEF ListInv
    <3>1. j = i  BY <1>3 DEF Active
    <3>. QED  BY <1>1, <1>2, <2>1, <3>1 DEF SyncInv
  <2>. QED  BY <1>1, <1>4, <2>1, <2>2 DEF SyncInv
<1>6. CASE WriteKind(i)
  <2>1. /\ sync'[i].listed = None /\ synced' = [synced EXCEPT ![sync[i].at] = sync[i].listed]
        /\ sync[i].listed # None
    BY <1>1, <1>6 DEF WriteKind
  <2>2. sync[i].listed \in Nat /\ synced[sync[i].at] <= sync[i].listed /\ sync[i].listed <= live[sync[i].at]
    BY <1>1, <2>1 DEF SyncInv, ListInv, SyncState, Version
  <2>3. ListInv'  BY <1>3, <2>1 DEF ListInv, Active
  <2>4. \A k \in Kind : synced'[k] >= synced[k] /\ synced'[k] <= live'[k]
    BY <1>1, <2>1, <2>2 DEF SyncInv, ETypeOK
  <2>. QED  BY <1>4, <2>3, <2>4 DEF SyncInv
<1>7. CASE SkipKind(i)
  <2>1. sync'[i].listed = None /\ synced' = synced
    BY <1>1, <1>7 DEF SkipKind, clusterVars
  <2>2. ListInv'  BY <1>3, <2>1 DEF ListInv, Active
  <2>. QED  BY <1>1, <1>4, <2>1, <2>2 DEF SyncInv
<1>. QED  BY <1>5, <1>6, <1>7

LEMMA NextSynced ==
  SyncInv /\ [ENext]_eventVars => SyncInv' /\ \A k \in Kind : synced'[k] >= synced[k]
<1>. SUFFICES ASSUME SyncInv, [ENext]_eventVars
              PROVE  SyncInv' /\ \A k \in Kind : synced'[k] >= synced[k]
  OBVIOUS
<1>0. ETypeOK' /\ \A k \in Kind : synced[k] \in Nat /\ live[k] \in Nat
  BY NextTyped DEF SyncInv, ETypeOK, Version
<1>. USE DEF clusterVars, watchVars, syncVars
<1>1. ASSUME UNCHANGED <<live, synced>>, AskForSync \/ UNCHANGED sync
      PROVE  SyncInv' /\ \A k \in Kind : synced'[k] >= synced[k]
  <2>1. CASE UNCHANGED sync  BY <1>0, <1>1, <2>1 DEF SyncInv, OneSync, ListInv, Active
  <2>. QED  BY <1>0, <1>1, <2>1, AskForSyncSynced
<1>2. CASE Ask \/ RunSync \/ MutateWrite  BY <1>1, <1>2 DEF Ask, RunSync, MutateWrite
<1>3. ASSUME NEW i \in Sync, ListKind(i) \/ WriteKind(i) \/ SkipKind(i)
      PROVE  SyncInv' /\ \A k \in Kind : synced'[k] >= synced[k]
  BY <1>0, <1>3, KindStepSynced
<1>4. ASSUME NEW k \in Kind, Change(k) \/ Mutate(k)
      PROVE  SyncInv' /\ \A j \in Kind : synced'[j] >= synced[j]
  <2>1. /\ live' = [live EXCEPT ![k] = live[k] + 1] /\ UNCHANGED <<synced, sync>>
    BY <1>4 DEF Change, Mutate, ChangeKind
  <2>2. \A j \in Kind : live'[j] >= live[j] /\ live'[j] \in Nat
    BY <1>0, <2>1 DEF SyncInv, ETypeOK
  <2>3. ListInv'
    <3>. SUFFICES ASSUME NEW i \in Sync, Active(i), sync[i].listed # None
                  PROVE  synced[sync[i].at] <= sync[i].listed /\ sync[i].listed <= live'[sync[i].at]
      BY <2>1 DEF ListInv, Active
    <3>1. sync[i].at \in Kind  BY NextKindTyped DEF SyncInv
    <3>2. sync[i].listed \in Nat  BY DEF SyncInv, ETypeOK, SyncState, Version
    <3>. QED  BY <1>0, <2>2, <3>1, <3>2 DEF SyncInv, ListInv
  <2>. QED  BY <1>0, <2>1, <2>2, <2>3 DEF SyncInv, OneSync, Active
<1>5. ASSUME Die PROVE SyncInv' /\ \A k \in Kind : synced'[k] >= synced[k]
  <2>1. \A i \in Sync : ~Active(i)'  BY <1>5 DEF Die, Active, NoSync
  <2>. QED  BY <1>0, <1>5, <2>1 DEF Die, SyncInv, OneSync, ListInv
<1>6. ASSUME NEW s \in Start, StartStep(s)
      PROVE  SyncInv' /\ \A k \in Kind : synced'[k] >= synced[k]
  BY <1>1, <1>5, <1>6
     DEF StartStep, Boot, Request, TimerFires, Ensure, Config, ConfigFails, Open, OpenFails
<1>7. CASE Crash  BY <1>5, <1>7 DEF Crash
<1>8. CASE \/ \E k \in Kind : Event(k)
           \/ \E o \in Start \union {Watches}, k \in Kind : End(o, k)
           \/ UNCHANGED eventVars
  BY <1>1, <1>8 DEF Event, End, eventVars
<1>. QED  BY <1>2, <1>3, <1>4, <1>6, <1>7, <1>8 DEF ENext

\* No sync replaces what a sync has written by what was listed earlier, for any
\* number of callers, kinds and changes.
THEOREM SyncsNeverGoBackCorrect == ESpec => SyncsNeverGoBack
<1>1. EInit => SyncInv  BY InitSynced
<1>2. SyncInv /\ [ENext]_eventVars => SyncInv'  BY NextSynced
<1>3. SyncInv /\ [ENext]_eventVars => [\A k \in Kind : synced'[k] >= synced[k]]_eventVars
  BY NextSynced
<1>. QED  BY <1>1, <1>2, <1>3, PTL DEF ESpec, SyncsNeverGoBack
===============================================================================
