--------------------------- MODULE ClusterEventSync ---------------------------
(***************************************************************************)
(* How the records of a cluster follow the cluster: the watches of         *)
(* cluster-event-sync.service.ts, whose events ask for a full sync, and    *)
(* the syncs of cluster-sync.service.ts, which are shared by everybody who *)
(* asks while one is going on.                                             *)
(*                                                                         *)
(* Both services keep their state per cluster; this is the state of one    *)
(* cluster, which stays registered, in one process.  A step runs from one  *)
(* await to the next.  Reading the kubeconfig belongs to the step that     *)
(* asks for a sync.                                                        *)
(*                                                                         *)
(* The objects of a kind are a version number.  watchGenerations is only   *)
(* ever compared for equality with the generation a call has taken, so     *)
(* what is kept is whose generation is the current one.  Delays have no    *)
(* length, restartFailures gives one only and is left out, and so is the   *)
(* dirty flag: a list request may ask for a sync at any time.              *)
(***************************************************************************)
EXTENDS Naturals

CONSTANTS
  Start,        \* calls of ensureClusterWatching and startForCluster in flight
  Watches,      \* the owner of the streams in this.watches
  Sync,         \* syncs that may be going on at the same time
  Kinds,        \* watch targets, and kinds a sync lists, both in this order
  MaxChanges,   \* bound on the changes of each kind
  MaxFaults,    \* bound on crashes and failed calls
  None

ASSUME StartAssumption == Watches \notin Start /\ None \notin Start \union {Watches}
ASSUME EventAssumption == /\ Kinds \in Nat \ {0} /\ MaxChanges \in Nat /\ MaxFaults \in Nat
                          /\ None \notin Nat

Kind == 1..Kinds
Version == 0..MaxChanges

VARIABLES
  live,      \* live[k]: the objects of kind k in the cluster
  db,        \* db[k]: their records
  synced,    \* history: synced[k], what a sync last wrote
  stream,    \* <<o, k>>: an open watch of kind k; o, a start or Watches, holds its handle
  unread,    \* kinds with an event on its way on the stream of the current generation
  current,   \* whose generation is the current one: a start in progress, Watches
             \* once it has finished, or None
  call,      \* call[s]: where start s is
  timer,     \* restartTimers
  debounce,  \* debounceTimers
  sync,      \* sync[i]: where sync i is
  console,   \* a change made through the console whose record is yet to be written
  booting,   \* start() is yet to come
  faults

clusterVars == <<live, db, synced>>
watchVars == <<stream, unread, current, call, timer, booting>>
syncVars == <<debounce, sync, console>>
eventVars == <<live, db, synced, stream, unread, current, call, timer, debounce, sync, console, booting, faults>>

Call == [pc : {"idle", "ensure", "config", "open"}, kind : Kind, timed : BOOLEAN]
NoCall == [pc |-> "idle", kind |-> 1, timed |-> FALSE]

\* at: the kind it is at, 0 when it is over.  listed: what the list returned.
SyncState == [at : 0..Kinds, listed : Version \union {None}]
NoSync == [at |-> 0, listed |-> None]

EInit ==
  /\ live \in [Kind -> {0, 1} \intersect Version] /\ db = [k \in Kind |-> 0] /\ synced = db
  /\ stream = {} /\ unread = {} /\ current = None
  /\ call = [s \in Start |-> NoCall]
  /\ timer = FALSE /\ debounce = FALSE
  /\ sync = [i \in Sync |-> NoSync]
  /\ console = None /\ booting = TRUE /\ faults = 0

Fault == faults < MaxFaults /\ faults' = faults + 1

StreamsOf(o) == {w \in stream : w[1] = o}

\* The process ends: its connections and its memory are gone.
Die ==
  /\ stream' = {} /\ unread' = {} /\ current' = None
  /\ call' = [s \in Start |-> NoCall]
  /\ timer' = FALSE /\ debounce' = FALSE
  /\ sync' = [i \in Sync |-> NoSync]
  /\ console' = None /\ booting' = TRUE
  /\ UNCHANGED clusterVars

Crash == Fault /\ Die

------------------------------------------------------------------------------
(***************************************************************************)
(* Syncs.  Whoever asks while one is going on shares it.                   *)
(***************************************************************************)
Active(i) == sync[i].at # 0

Mut_AskForSync == \E i \in Sync : ~Active(i) /\ sync' = [sync EXCEPT ![i] = [at |-> 1, listed |-> None]]

AskForSync ==
  \/ /\ \A i \in Sync : ~Active(i)
     /\ \E i \in Sync : sync' = [sync EXCEPT ![i] = [at |-> 1, listed |-> None]]
  \/ /\ \E i \in Sync : Active(i)
     /\ sync' = sync

Mut_NextKind(i) == IF sync[i].at + 1 >= Kinds THEN 0 ELSE sync[i].at + 1

NextKind(i) == IF sync[i].at = Kinds THEN 0 ELSE sync[i].at + 1

\* The auto-sync's interval, a list request, the sync button.
Ask ==
  /\ \A i \in Sync : ~Active(i)
  /\ AskForSync
  /\ UNCHANGED <<clusterVars, watchVars, debounce, console, faults>>

ListKind(i) ==
  /\ Active(i) /\ sync[i].listed = None
  /\ sync' = [sync EXCEPT ![i].listed = live[sync[i].at]]
  /\ UNCHANGED <<clusterVars, watchVars, debounce, console, faults>>

WriteKind(i) ==
  /\ Active(i) /\ sync[i].listed # None
  /\ db' = [db EXCEPT ![sync[i].at] = sync[i].listed]
  /\ synced' = [synced EXCEPT ![sync[i].at] = sync[i].listed]
  /\ sync' = [sync EXCEPT ![i] = [at |-> NextKind(i), listed |-> None]]
  /\ UNCHANGED <<live, watchVars, debounce, console, faults>>

\* The error of a kind is recorded, and the next kind is next.
SkipKind(i) ==
  /\ Active(i) /\ Fault
  /\ sync' = [sync EXCEPT ![i] = [at |-> NextKind(i), listed |-> None]]
  /\ UNCHANGED <<clusterVars, watchVars, debounce, console>>

\* The debounce timer; its errors are caught.
RunSync ==
  /\ debounce /\ debounce' = FALSE
  /\ \/ AskForSync /\ UNCHANGED faults
     \/ Fault /\ UNCHANGED sync
  /\ UNCHANGED <<clusterVars, watchVars, console>>

------------------------------------------------------------------------------
(***************************************************************************)
(* The cluster changes, by itself or through the console, which writes its *)
(* record and then asks for a sync.                                        *)
(***************************************************************************)
ChangeKind(k) ==
  /\ live[k] < MaxChanges
  /\ live' = [live EXCEPT ![k] = @ + 1]
  /\ unread' = IF <<current, k>> \in stream THEN unread \union {k} ELSE unread

Change(k) ==
  /\ ChangeKind(k)
  /\ UNCHANGED <<db, synced, stream, current, call, timer, booting, syncVars, faults>>

Mutate(k) ==
  /\ console = None
  /\ ChangeKind(k)
  /\ console' = [kind |-> k, version |-> live[k] + 1]
  /\ UNCHANGED <<db, synced, stream, current, call, timer, booting, debounce, sync, faults>>

MutateWrite ==
  /\ console # None
  /\ db' = [db EXCEPT ![console.kind] = console.version]
  /\ console' = None
  /\ AskForSync
  /\ UNCHANGED <<live, synced, watchVars, debounce, faults>>

------------------------------------------------------------------------------
(***************************************************************************)
(* startForCluster: stops what is there and takes the next generation,     *)
(* then opens one watch after the other, and after every await looks       *)
(* whether its generation is still the current one.                        *)
(***************************************************************************)
At(s, pc) == call[s].pc = pc

\* Asks for the restart of the watches of o, when o is of the current generation.
Mut_ScheduleRestart(o) == timer' = (timer \/ (o = current /\ o = Watches))

ScheduleRestart(o) == timer' = (timer \/ o = current)

\* stopForCluster
StopWatches == stream' = stream \ StreamsOf(Watches) /\ unread' = {} /\ timer' = FALSE

TakeGeneration(s) ==
  /\ StopWatches
  /\ current' = s
  /\ call' = [call EXCEPT ![s].pc = "config"]

\* start(), which catches all errors
Boot(s) ==
  /\ booting /\ At(s, "idle")
  /\ booting' = FALSE
  /\ \/ TakeGeneration(s) /\ UNCHANGED faults
     \/ Fault /\ UNCHANGED <<stream, unread, current, call, timer>>
  /\ UNCHANGED <<clusterVars, syncVars>>

\* The cluster is saved or enabled: errors are caught.
Request(s) ==
  /\ At(s, "idle")
  /\ call' = [call EXCEPT ![s] = [NoCall EXCEPT !.pc = "ensure"]]
  /\ UNCHANGED <<clusterVars, syncVars, stream, unread, current, timer, booting, faults>>

\* The restart timer: errors are not caught.
TimerFires(s) ==
  /\ timer /\ At(s, "idle")
  /\ timer' = FALSE
  /\ call' = [call EXCEPT ![s] = [NoCall EXCEPT !.pc = "ensure", !.timed = TRUE]]
  /\ UNCHANGED <<clusterVars, syncVars, stream, unread, current, booting, faults>>

\* ensureClusterWatching has read the kubeconfig.
Ensure(s) ==
  /\ At(s, "ensure")
  /\ TakeGeneration(s)
  /\ UNCHANGED <<clusterVars, syncVars, booting, faults>>

Config(s) ==
  /\ At(s, "config")
  /\ call' = [call EXCEPT ![s] = IF current = s THEN [@ EXCEPT !.pc = "open"] ELSE NoCall]
  /\ UNCHANGED <<clusterVars, syncVars, stream, unread, current, timer, booting, faults>>

\* The kubeconfig cannot be read: nobody catches the rejection of a timed call.
ConfigFails(s) ==
  /\ call[s].pc \in {"ensure", "config"} /\ Fault
  /\ \/ call[s].timed /\ Die
     \/ /\ ~call[s].timed
        /\ call' = [call EXCEPT ![s] = NoCall]
        /\ current' = IF current = s THEN None ELSE current
        /\ UNCHANGED <<clusterVars, syncVars, stream, unread, timer, booting>>

\* After its last target a start hands its handles over, those of watches that
\* have ended included.  opened: the streams as this step leaves them.
GoOn(s, opened) ==
  IF call[s].kind < Kinds
    THEN /\ call' = [call EXCEPT ![s].kind = @ + 1]
         /\ stream' = opened /\ UNCHANGED current
    ELSE /\ call' = [call EXCEPT ![s] = NoCall]
         /\ stream' = {<<IF w[1] = s THEN Watches ELSE w[1], w[2]>> : w \in opened}
         /\ current' = Watches

Mut_Superseded(s) ==
  /\ call' = [call EXCEPT ![s] = NoCall]
  /\ UNCHANGED <<stream, unread, current, timer>>

\* The late handle and the earlier ones are aborted.
Superseded(s) ==
  /\ call' = [call EXCEPT ![s] = NoCall]
  /\ stream' = stream \ StreamsOf(s)
  /\ UNCHANGED <<unread, current, timer>>

\* An opened watch first tells of all objects there are.
Open(s) ==
  /\ At(s, "open")
  /\ \/ /\ current = s
        /\ unread' = unread \union {call[s].kind}
        /\ GoOn(s, stream \union {<<s, call[s].kind>>})
        /\ UNCHANGED timer
     \/ current # s /\ Superseded(s)
  /\ UNCHANGED <<clusterVars, syncVars, booting, faults>>

OpenFails(s) ==
  /\ At(s, "open") /\ Fault
  /\ \/ /\ current = s
        /\ ScheduleRestart(s)
        /\ GoOn(s, stream)
        /\ UNCHANGED unread
     \/ current # s /\ Superseded(s)
  /\ UNCHANGED <<clusterVars, syncVars, booting>>

------------------------------------------------------------------------------
(***************************************************************************)
(* The callbacks of a watch, which an earlier generation's ignore.         *)
(***************************************************************************)
Event(k) ==
  /\ k \in unread /\ <<current, k>> \in stream
  /\ unread' = unread \ {k}
  /\ debounce' = TRUE
  /\ UNCHANGED <<clusterVars, stream, current, call, timer, booting, sync, console, faults>>

End(o, k) ==
  /\ <<o, k>> \in stream
  /\ stream' = stream \ {<<o, k>>}
  /\ unread' = IF o = current THEN unread \ {k} ELSE unread
  /\ ScheduleRestart(o)
  /\ UNCHANGED <<clusterVars, syncVars, current, call, booting, faults>>

StartStep(s) ==
  \/ Boot(s) \/ Request(s) \/ TimerFires(s) \/ Ensure(s)
  \/ Config(s) \/ ConfigFails(s) \/ Open(s) \/ OpenFails(s)

ENext ==
  \/ Ask \/ RunSync \/ MutateWrite \/ Crash
  \/ \E i \in Sync : ListKind(i) \/ WriteKind(i) \/ SkipKind(i)
  \/ \E k \in Kind : Change(k) \/ Mutate(k) \/ Event(k)
  \/ \E s \in Start : StartStep(s)
  \/ \E o \in Start \union {Watches}, k \in Kind : End(o, k)

ESpec == EInit /\ [][ENext]_eventVars

\* The interval of the auto-sync, and syncs that go on.
FairESpec ==
  /\ ESpec
  /\ WF_eventVars(Ask)
  /\ \A i \in Sync : WF_eventVars(ListKind(i) \/ WriteKind(i))

------------------------------------------------------------------------------
\* Types of the cluster, its records, the watches and the syncs.
ETypeOK ==
  /\ live \in [Kind -> Version] /\ db \in [Kind -> Version] /\ synced \in [Kind -> Version]
  /\ stream \subseteq (Start \union {Watches}) \X Kind /\ unread \subseteq Kind
  /\ current \in Start \union {Watches, None}
  /\ call \in [Start -> Call]
  /\ timer \in BOOLEAN /\ debounce \in BOOLEAN /\ booting \in BOOLEAN
  /\ sync \in [Sync -> SyncState]
  /\ console \in [kind : Kind, version : Version] \union {None}
  /\ faults \in 0..MaxFaults

\* "Aborts late watch handles from obsolete startup generations": a stream of a
\* generation that is over is open only while the start that opened it has yet to
\* come back from an await, however many starts overtake each other.
NoStrayStream ==
  \A w \in stream : w[1] = current \/ (w[1] \in Start /\ At(w[1], "open"))

\* Once a start has come through, a kind that is not watched is about to be: its
\* watch may be refused or end at any moment, the others being opened or not.  Nothing
\* is claimed after a start that could not read the kubeconfig (current = None): it
\* has stopped the old watches and leaves nothing behind.
WatchTended ==
  current # None => \A k \in Kind :
    \/ <<current, k>> \in stream
    \/ timer \/ \E s \in Start : At(s, "ensure") /\ call[s].timed
    \/ current \in Start /\ (At(current, "config") \/ k >= call[current].kind)

\* No sync replaces what a sync has written by what was listed earlier, whoever
\* asks for one and when.
SyncsNeverGoBack == [][\A k \in Kind : synced'[k] >= synced[k]]_eventVars

\* The records end up as the cluster is, although events are lost while a watch is
\* down, and a sync that was asked for may be one that has listed the kind before.
EventuallySynced == <>[](\A k \in Kind : db[k] = live[k])
===============================================================================
