--------------------- MODULE KubernetesUpdateTasksProofs ---------------------
(***************************************************************************)
(* Theorems about the durable queue, for every number of rows, set of      *)
(* workers, lease and preflight validity.                                  *)
(***************************************************************************)
EXTENDS KubernetesUpdateTasks, TLAPS, WellFoundedInduction

\* Tasks are numbered in order of creation.
LEMMA TaskIsNat == Task \subseteq Nat /\ Task \subseteq Int
BY BoundAssumption DEF Task

\* A set of natural numbers that is not empty has a least element.
LEMMA LeastElement ==
  ASSUME NEW S, S \subseteq Nat, S # {}
  PROVE  \E m \in S : \A n \in S : m <= n
<1> DEFINE R == OpToRel(<, Nat)
<1>1. \E m \in S : \A n \in S : <<n, m>> \notin R
  <2> HIDE DEF R
  <2>1. IsWellFoundedOn(R, Nat)  BY NatLessThanWellFounded DEF R
  <2>. QED  BY <2>1, WFMin
<1>2. \A m, n \in Nat : n < m => <<n, m>> \in R  BY DEF OpToRel
<1> HIDE DEF R
<1>3. PICK m \in S : \A n \in S : <<n, m>> \notin R  BY <1>1
<1>4. \A n \in S : n \in Nat /\ m \in Nat /\ ~(n < m)  BY <1>2, <1>3
<1>. QED  BY <1>4

\* The row an INSERT fills is one that no earlier submission created.
LEMMA NextTaskIsNew ==
  ASSUME \E t \in Task : ~Exists(t)
  PROVE  NextTask \in Task /\ ~Exists(NextTask) /\ \A u \in Task : u < NextTask => Exists(u)
<1> DEFINE S == {t \in Task : ~Exists(t)}
<1>1. PICK m \in S : \A n \in S : m <= n
  <2>1. S \subseteq Nat /\ S # {}  BY TaskIsNat
  <2> HIDE DEF S
  <2>. QED  BY <2>1, LeastElement
<1>2. m \in Task /\ ~Exists(m) /\ \A u \in Task : u < m => Exists(u)  BY <1>1, TaskIsNat
<1>. QED  BY <1>2 DEF NextTask

\* A submitted row is a row of the table.
LEMMA QueuedRowTyped ==
  ASSUME NEW action \in Action, NEW payload \in Payload, NEW ttl \in 0..Ttl, NEW valid \in BOOLEAN
  PROVE  QueuedRow(action, payload, ttl, valid) \in Row
<1>. USE BoundAssumption DEF Row, Status, Phase
<1>1. NoRow \in Row  BY DEF NoRow, Action
<1>2. \A x \in Row, n \in 0..Ttl :
        [x EXCEPT !.action = action, !.status = "queued", !.slot = TRUE,
                  !.ttl = n, !.valid = valid, !.payload = payload] \in Row
  OBVIOUS
<1>3. ttl \in 0..Ttl  OBVIOUS
<1> HIDE DEF Row
<1>. QED  BY <1>1, <1>2, <1>3 DEF QueuedRow

\* So is a finished one, whatever outcome finish accepts.
LEMMA FinishedRowTyped ==
  ASSUME NEW r \in Row, NEW status \in {"succeeded", "failed"},
         NEW phase \in TerminalPhase(status), NEW result \in Result \union {Null}
  PROVE  FinishedRow(r, status, phase, result) \in Row
<1>1. phase \in Phase  BY DEF TerminalPhase, Phase
<1>2. \A x \in Result \union {Null} :
        [r EXCEPT !.status = status, !.phase = phase, !.slot = FALSE, !.lease = Null,
                  !.result = x] \in Row
  BY <1>1 DEF Row, Status
<1>3. (IF result = Null THEN r.result ELSE result) \in Result \union {Null}  BY DEF Row
<1>. QED  BY <1>2, <1>3 DEF FinishedRow

\* And a claimed one.
LEMMA ClaimedRowTyped ==
  ASSUME NEW r \in Row, NEW w \in Worker
  PROVE  ClaimedRow(r, w) \in Row
<1>1. Lease \in -1 .. Lease /\ r.attempt + 1 \in Nat  BY BoundAssumption DEF Row
<1>2. \A l \in -1 .. Lease, n \in Nat :
        [r EXCEPT !.status = "running", !.phase = "working", !.claimedBy = w, !.lease = l,
                  !.attempt = n] \in Row
  BY DEF Row, Status, Phase
<1>. QED  BY <1>1, <1>2 DEF ClaimedRow

\* And a row after a tick of the clock.
LEMMA TickedRowTyped ==
  ASSUME NEW r \in Row
  PROVE  [r EXCEPT !.lease = LeaseAfterTick(@), !.ttl = TtlAfterTick(@)] \in Row
<1>1. LeaseAfterTick(r.lease) \in (-1 .. Lease) \union {Null}
  BY BoundAssumption, NullAssumption DEF LeaseAfterTick, Row
<1>2. TtlAfterTick(r.ttl) \in 0 .. Ttl  BY BoundAssumption DEF TtlAfterTick, Row
<1>3. \A l \in (-1 .. Lease) \union {Null}, n \in 0 .. Ttl :
        [r EXCEPT !.lease = l, !.ttl = n] \in Row
  BY DEF Row
<1>. QED  BY <1>1, <1>2, <1>3

------------------------------------------------------------------------------
(***************************************************************************)
(* Type correctness.                                                       *)
(***************************************************************************)
RowTypes == row \in [Task -> Row]

ClaimTypes ==
  /\ claim \in [Worker -> Claim]
  /\ \A w \in Worker : claim[w].step \in {"claim", "reject"} =>
       claim[w].task \in Task /\ claim[w].seen \in {"queued", "running"}

\* A running row has an owner, a lease, and the phase of a task at work.
RunningRow(r) ==
  r.status = "running" => r.lease \in -1..Lease /\ r.claimedBy \in Worker /\ r.phase = "working"

TypeInv == RowTypes /\ ClaimTypes /\ \A t \in Task : RunningRow(row[t])

\* What one step does to one row, with the condition under which it does it.
RowStep(t) ==
  \/ row'[t] = row[t]
  \/ /\ SlotFree /\ ~Exists(t) /\ t = NextTask
     /\ \E action \in Action, payload \in Payload, ttl \in 0..Ttl, valid \in BOOLEAN :
          row'[t] = QueuedRow(action, payload, ttl, valid)
  \/ Claimable(t) /\ row'[t] = RejectedRow(row[t])
  \/ /\ Claimable(t)
     /\ \E w \in Worker : /\ claim[w].step = "claim" /\ claim[w].attempt = row[t].attempt
                         /\ row'[t] = ClaimedRow(row[t], w)
  \/ \E w \in Worker :
       /\ LeaseHeld(t, w)
       /\ \/ row'[t] = [row[t] EXCEPT !.lease = Lease]
          \/ \E backup \in Backup : row'[t] = [row[t] EXCEPT !.backup = backup]
          \/ \E status \in {"succeeded", "failed"}, result \in Result \union {Null} :
               \E phase \in TerminalPhase(status) : row'[t] = FinishedRow(row[t], status, phase, result)
  \/ /\ row[t].action = "preflight" /\ row[t].status = "succeeded"
     /\ \E result \in Result :
          row'[t] = [row[t] EXCEPT !.status = "failed", !.phase = "failed", !.slot = FALSE,
                                   !.result = result]
  \/ row'[t] = [row[t] EXCEPT !.lease = LeaseAfterTick(@), !.ttl = TtlAfterTick(@)]

\* Every step does one of these to every row, and keeps the table a table.
LEMMA StepsOnRows ==
  ASSUME TypeInv, Next
  PROVE  row' = [t \in Task |-> row'[t]] /\ \A t \in Task : RowStep(t)
<1>. USE DEF TypeInv, RowTypes
<1>1. ASSUME NEW action \in Action, NEW payload \in Payload, NEW ttl \in 0..Ttl, NEW valid \in BOOLEAN,
             Submit(action, payload, ttl, valid)
      PROVE  row' = [t \in Task |-> row'[t]] /\ \A t \in Task : RowStep(t)
  <2>1. NextTask \in Task /\ ~Exists(NextTask)  BY <1>1, NextTaskIsNew DEF Submit
  <2>2. row' = [row EXCEPT ![NextTask] = QueuedRow(action, payload, ttl, valid)] /\ SlotFree
    BY <1>1 DEF Submit
  <2>. QED  BY <2>1, <2>2 DEF RowStep
<1>2. ASSUME NEW w \in Worker, ClaimReject(w)
      PROVE  row' = [t \in Task |-> row'[t]] /\ \A t \in Task : RowStep(t)
  BY <1>2 DEF ClaimReject, ClaimTypes, Unchanged, RowStep
<1>3. ASSUME NEW w \in Worker, ClaimWon(w)
      PROVE  row' = [t \in Task |-> row'[t]] /\ \A t \in Task : RowStep(t)
  BY <1>3 DEF ClaimWon, ClaimTypes, Unchanged, RowStep
<1>4. ASSUME NEW t \in Task, NEW w \in Worker, Heartbeat(t, w)
      PROVE  row' = [u \in Task |-> row'[u]] /\ \A u \in Task : RowStep(u)
  BY <1>4 DEF Heartbeat, RowStep
<1>5. ASSUME NEW t \in Task, NEW w \in Worker, NEW backup \in Backup, RecordBackup(t, w, backup)
      PROVE  row' = [u \in Task |-> row'[u]] /\ \A u \in Task : RowStep(u)
  BY <1>5 DEF RecordBackup, RowStep
<1>6. ASSUME NEW t \in Task, NEW w \in Worker, NEW status \in {"succeeded", "failed"},
             NEW phase \in Phase, NEW result \in Result \union {Null},
             Finish(t, w, status, phase, result)
      PROVE  row' = [u \in Task |-> row'[u]] /\ \A u \in Task : RowStep(u)
  BY <1>6 DEF Finish, RowStep
<1>7. ASSUME NEW t \in Task, NEW result \in Result, InvalidatePreflight(t, result)
      PROVE  row' = [u \in Task |-> row'[u]] /\ \A u \in Task : RowStep(u)
  BY <1>7 DEF InvalidatePreflight, RowStep
<1>8. CASE Tick
  BY <1>8 DEF Tick, RowStep
<1>9. CASE UNCHANGED row
  BY <1>9 DEF RowStep
<1>. QED
  BY <1>1, <1>2, <1>3, <1>4, <1>5, <1>6, <1>7, <1>8, <1>9
  DEF Next, ClaimStep, ClaimRead, ClaimNone, ClaimLost, ClaimAbandoned

LEMMA RowTyped ==
  ASSUME NEW t \in Task, row[t] \in Row, RunningRow(row[t]), RowStep(t)
  PROVE  row'[t] \in Row /\ RunningRow(row'[t])
<1>1. CASE row'[t] = row[t]
  BY <1>1
<1>2. CASE \E action \in Action, payload \in Payload, ttl \in 0..Ttl, valid \in BOOLEAN :
             row'[t] = QueuedRow(action, payload, ttl, valid)
  <2>1. row'[t] \in Row  BY <1>2, QueuedRowTyped
  <2>2. RunningRow(row'[t])  BY <1>2 DEF QueuedRow, NoRow, RunningRow
  <2>. QED  BY <2>1, <2>2
<1>3. CASE row'[t] = RejectedRow(row[t])
  <2>1. row'[t] \in Row  BY <1>3 DEF RejectedRow, Row, Status, Phase
  <2>2. RunningRow(row'[t])  BY <1>3 DEF RejectedRow, RunningRow, Row
  <2>. QED  BY <2>1, <2>2
<1>4. CASE \E w \in Worker : row'[t] = ClaimedRow(row[t], w)
  <2>1. row'[t] \in Row  BY <1>4, ClaimedRowTyped
  <2>2. RunningRow(row'[t])  BY <1>4, BoundAssumption DEF ClaimedRow, RunningRow, Row
  <2>. QED  BY <2>1, <2>2
<1>5. CASE row'[t] = [row[t] EXCEPT !.lease = Lease]
  <2>1. row'[t] \in Row  BY <1>5, BoundAssumption DEF Row
  <2>2. RunningRow(row'[t])  BY <1>5, BoundAssumption DEF RunningRow, Row
  <2>. QED  BY <2>1, <2>2
<1>6. CASE \E backup \in Backup : row'[t] = [row[t] EXCEPT !.backup = backup]
  <2>1. row'[t] \in Row  BY <1>6 DEF Row
  <2>2. RunningRow(row'[t])  BY <1>6 DEF RunningRow, Row
  <2>. QED  BY <2>1, <2>2
<1>7. CASE \E status \in {"succeeded", "failed"}, result \in Result \union {Null} :
             \E phase \in TerminalPhase(status) : row'[t] = FinishedRow(row[t], status, phase, result)
  <2>1. row'[t] \in Row  BY <1>7, FinishedRowTyped
  <2>2. RunningRow(row'[t])  BY <1>7 DEF FinishedRow, RunningRow, Row
  <2>. QED  BY <2>1, <2>2
<1>8. CASE \E result \in Result :
             row'[t] = [row[t] EXCEPT !.status = "failed", !.phase = "failed", !.slot = FALSE,
                                      !.result = result]
  <2>1. row'[t] \in Row  BY <1>8 DEF Row, Status, Phase
  <2>2. RunningRow(row'[t])  BY <1>8 DEF RunningRow, Row
  <2>. QED  BY <2>1, <2>2
<1>9. CASE row'[t] = [row[t] EXCEPT !.lease = LeaseAfterTick(@), !.ttl = TtlAfterTick(@)]
  <2>1. row'[t] \in Row  BY <1>9, TickedRowTyped
  <2>2. RunningRow(row'[t])  BY <1>9, BoundAssumption DEF LeaseAfterTick, RunningRow, Row
  <2>. QED  BY <2>1, <2>2
<1>. QED  BY <1>1, <1>2, <1>3, <1>4, <1>5, <1>6, <1>7, <1>8, <1>9 DEF RowStep

\* What claimNext remembers between its read and its write.
LEMMA ClaimsTyped ==
  ASSUME TypeInv, [Next]_queueVars
  PROVE  ClaimTypes'
<1>. USE DEF TypeInv, RowTypes, ClaimTypes
<1>1. NoClaim \in Claim /\ [NoClaim EXCEPT !.step = "again"] \in Claim
      /\ NoClaim.step = "none" /\ [NoClaim EXCEPT !.step = "again"].step = "again"
  BY DEF NoClaim, Claim, Status
<1>2. CASE UNCHANGED claim
  BY <1>2
<1>3. ASSUME NEW w \in Worker, ClaimRead(w)
      PROVE  ClaimTypes'
  <2>1. PICK t \in Task : /\ Oldest(t)
                         /\ claim' = [claim EXCEPT ![w] =
                              [step |-> IF Acceptable(t) THEN "claim" ELSE "reject", task |-> t,
                               seen |-> row[t].status, attempt |-> row[t].attempt]]
    BY <1>3 DEF ClaimRead
  <2>2. row[t].status \in {"queued", "running"} /\ row[t].attempt \in Nat
    BY <2>1 DEF Oldest, Claimable, Row
  <2>3. [step |-> IF Acceptable(t) THEN "claim" ELSE "reject", task |-> t,
         seen |-> row[t].status, attempt |-> row[t].attempt] \in Claim
    BY <2>2 DEF Claim, Status
  <2>. QED  BY <2>1, <2>2, <2>3
<1>4. ASSUME NEW w \in Worker,
             \/ claim' = [claim EXCEPT ![w] = NoClaim]
             \/ claim' = [claim EXCEPT ![w] = [NoClaim EXCEPT !.step = "again"]]
      PROVE  ClaimTypes'
  BY <1>1, <1>4
<1>. QED
  BY <1>2, <1>3, <1>4
  DEF Next, ClaimStep, ClaimNone, ClaimReject, ClaimWon, ClaimLost, ClaimAbandoned, Submit,
      Heartbeat, RecordBackup, Finish, InvalidatePreflight, Tick, queueVars

LEMMA InitTyped == Init => TypeInv
<1>. SUFFICES ASSUME Init PROVE TypeInv  OBVIOUS
<1>1. NoRow \in Row /\ RunningRow(NoRow)
  BY BoundAssumption DEF NoRow, Row, Action, Status, Phase, RunningRow
<1>2. NoClaim \in Claim /\ NoClaim.step = "none"
  BY DEF NoClaim, Claim, Status
<1>. QED  BY <1>1, <1>2 DEF Init, TypeInv, RowTypes, ClaimTypes

LEMMA TypeInductive ==
  ASSUME TypeInv, [Next]_queueVars
  PROVE  TypeInv'
<1>1. ClaimTypes'  BY ClaimsTyped
<1>2. CASE Next
  <2>1. row' = [t \in Task |-> row'[t]] /\ \A t \in Task : RowStep(t)  BY <1>2, StepsOnRows
  <2>2. \A t \in Task : row'[t] \in Row /\ RunningRow(row'[t])
    BY <2>1, RowTyped DEF TypeInv, RowTypes
  <2>. QED  BY <1>1, <2>1, <2>2 DEF TypeInv, RowTypes
<1>3. CASE UNCHANGED queueVars
  BY <1>1, <1>3 DEF TypeInv, RowTypes, queueVars
<1>. QED  BY <1>2, <1>3

LEMMA TypeInvariant == Spec => []TypeInv
BY InitTyped, TypeInductive, PTL DEF Spec

\* Type correctness: no operation leaves a row or a claim in progress outside
\* its type, and a running row always has an owner and a lease.
THEOREM TypeCorrect == Spec => []TypeOK
<1>1. TypeInv => TypeOK  BY DEF TypeInv, RowTypes, ClaimTypes, RunningRow, TypeOK
<1>. QED  BY <1>1, TypeInvariant, PTL

------------------------------------------------------------------------------
(***************************************************************************)
(* The active slot.  That the slot column follows the status is inductive  *)
(* by itself; that only one row is active needs it, because submit looks   *)
(* at the column and not at the status.                                    *)
(***************************************************************************)
SlotInv == SlotMatchesStatus /\ OneActiveTask

\* A step makes no row active that was not, except a row submitted while the
\* slot was free; and it keeps the column in line with the status.
LEMMA SlotStep ==
  ASSUME NEW t \in Task, row[t] \in Row, row[t].slot <=> Active(t), RowStep(t)
  PROVE  /\ row'[t].slot <=> Active(t)'
         /\ Active(t)' => Active(t) \/ (SlotFree /\ t = NextTask)
<1>. USE DEF Active
<1>1. CASE row'[t] = row[t]
  BY <1>1
<1>2. CASE /\ SlotFree /\ t = NextTask
           /\ \E action \in Action, payload \in Payload, ttl \in 0..Ttl, valid \in BOOLEAN :
                row'[t] = QueuedRow(action, payload, ttl, valid)
  BY <1>2 DEF QueuedRow, NoRow
<1>3. CASE row'[t] = RejectedRow(row[t])
  BY <1>3 DEF RejectedRow, Row
<1>4. CASE Claimable(t) /\ \E w \in Worker : row'[t] = ClaimedRow(row[t], w)
  BY <1>4 DEF ClaimedRow, Claimable, Row
<1>5. CASE row'[t] = [row[t] EXCEPT !.lease = Lease]
  BY <1>5 DEF Row
<1>6. CASE \E backup \in Backup : row'[t] = [row[t] EXCEPT !.backup = backup]
  BY <1>6 DEF Row
<1>7. CASE \E status \in {"succeeded", "failed"}, result \in Result \union {Null} :
             \E phase \in TerminalPhase(status) : row'[t] = FinishedRow(row[t], status, phase, result)
  BY <1>7 DEF FinishedRow, Row
<1>8. CASE \E result \in Result :
             row'[t] = [row[t] EXCEPT !.status = "failed", !.phase = "failed", !.slot = FALSE,
                                      !.result = result]
  BY <1>8 DEF Row
<1>9. CASE row'[t] = [row[t] EXCEPT !.lease = LeaseAfterTick(@), !.ttl = TtlAfterTick(@)]
  BY <1>9 DEF Row
<1>. QED  BY <1>1, <1>2, <1>3, <1>4, <1>5, <1>6, <1>7, <1>8, <1>9 DEF RowStep

LEMMA SlotInductive ==
  ASSUME TypeInv, SlotInv, [Next]_queueVars
  PROVE  SlotInv'
<1>1. CASE Next
  <2>1. \A t \in Task : RowStep(t)  BY <1>1, StepsOnRows
  <2>2. \A t \in Task : /\ row'[t].slot <=> Active(t)'
                        /\ Active(t)' => Active(t) \/ (SlotFree /\ t = NextTask)
    BY <2>1, SlotStep DEF TypeInv, RowTypes, SlotInv, SlotMatchesStatus
  <2>3. SlotMatchesStatus'  BY <2>2 DEF SlotMatchesStatus
  <2>4. ASSUME NEW t \in Task, NEW u \in Task, Active(t)', Active(u)'
        PROVE  t = u
    <3>1. CASE SlotFree
      BY <2>2, <2>4, <3>1 DEF SlotInv, SlotMatchesStatus, SlotFree
    <3>2. CASE ~SlotFree
      BY <2>2, <2>4, <3>2 DEF SlotInv, OneActiveTask
    <3>. QED  BY <3>1, <3>2
  <2>. QED  BY <2>3, <2>4 DEF SlotInv, OneActiveTask
<1>2. CASE UNCHANGED queueVars
  BY <1>2 DEF SlotInv, SlotMatchesStatus, OneActiveTask, Active, queueVars
<1>. QED  BY <1>1, <1>2

LEMMA SlotInvariant == Spec => []SlotInv
<1>1. Init => SlotInv
  BY DEF Init, NoRow, SlotInv, SlotMatchesStatus, OneActiveTask, Active
<1>. QED  BY <1>1, SlotInductive, TypeInvariant, PTL DEF Spec

\* The activeSlot column says which rows are queued or running: every handler
\* that ends a task frees the slot, and none frees it earlier.
THEOREM SlotColumnCorrect == Spec => []SlotMatchesStatus
<1>1. SlotInv => SlotMatchesStatus  BY DEF SlotInv
<1>. QED  BY <1>1, SlotInvariant, PTL

\* At most one preflight, install or rollback is queued or running, whatever the
\* workers and the API processes do.
THEOREM OneActiveCorrect == Spec => []OneActiveTask
<1>1. SlotInv => OneActiveTask  BY DEF SlotInv
<1>. QED  BY <1>1, SlotInvariant, PTL

------------------------------------------------------------------------------
(***************************************************************************)
(* Action properties: what one step may never do to a row.                 *)
(***************************************************************************)
LEMMA FenceStep ==
  ASSUME TypeInv, [Next]_queueVars, NEW t \in Task,
         row[t].status = "running",
         row'[t].attempt # row[t].attempt \/ row'[t].phase = "rejected"
  PROVE  row[t].lease = -1
<1>. USE DEF TypeInv, RowTypes
<1>1. row[t] \in Row /\ row[t].lease \in -1..Lease /\ row[t].phase = "working"
  BY DEF RunningRow
<1>2. Claimable(t) => row[t].lease = -1
  BY <1>1 DEF Claimable, LeaseExpired
<1>3. row' # row  BY <1>1
<1>4. RowStep(t)  BY <1>3, StepsOnRows DEF queueVars
<1>5. CASE Claimable(t)
  BY <1>2, <1>5
<1>6. CASE \E w \in Worker : row'[t] = [row[t] EXCEPT !.lease = Lease]
  BY <1>1, <1>6 DEF Row
<1>7. CASE \E backup \in Backup : row'[t] = [row[t] EXCEPT !.backup = backup]
  BY <1>1, <1>7 DEF Row
<1>8. CASE \E status \in {"succeeded", "failed"}, result \in Result \union {Null} :
             \E phase \in TerminalPhase(status) : row'[t] = FinishedRow(row[t], status, phase, result)
  BY <1>1, <1>8 DEF FinishedRow, TerminalPhase, Row
<1>9. CASE row'[t] = [row[t] EXCEPT !.lease = LeaseAfterTick(@), !.ttl = TtlAfterTick(@)]
  BY <1>1, <1>9 DEF Row
<1>. QED  BY <1>1, <1>4, <1>5, <1>6, <1>7, <1>8, <1>9 DEF RowStep, Exists

\* A running task changes hands, or is rejected, only after the lease of the
\* worker that holds it has expired.
THEOREM LeaseFencesCorrect == Spec => LeaseFences
<1>1. ASSUME TypeInv, [Next]_queueVars
      PROVE  [\A t \in Task :
                /\ row[t].status = "running"
                /\ row'[t].attempt # row[t].attempt \/ row'[t].phase = "rejected"
                => row[t].lease = -1]_queueVars
  BY <1>1, FenceStep
<1>. QED  BY <1>1, TypeInvariant, PTL DEF Spec, LeaseFences

LEMMA FinalStep ==
  ASSUME TypeInv, [Next]_queueVars, NEW t \in Task,
         row[t].status \in {"succeeded", "failed"}, row'[t].status # row[t].status
  PROVE  /\ row[t].action = "preflight" /\ row[t].status = "succeeded"
         /\ row'[t].status = "failed"
<1>. USE DEF TypeInv, RowTypes
<1>1. row[t] \in Row /\ ~Claimable(t) /\ Exists(t) /\ \A w \in Worker : ~LeaseHeld(t, w)
  BY DEF Claimable, Exists, LeaseHeld
<1>2. row' # row  OBVIOUS
<1>3. RowStep(t)  BY <1>2, StepsOnRows DEF queueVars
<1>4. row'[t] # [row[t] EXCEPT !.lease = LeaseAfterTick(@), !.ttl = TtlAfterTick(@)]
  BY <1>1 DEF Row
<1>. QED  BY <1>1, <1>3, <1>4 DEF RowStep, Row

\* A task that ended is never reopened: a late worker or a second claim cannot
\* change its outcome, and only a succeeded preflight may still be failed.
THEOREM OutcomeFinalCorrect == Spec => OutcomeFinal
<1>1. ASSUME TypeInv, [Next]_queueVars
      PROVE  [\A t \in Task :
                row[t].status \in {"succeeded", "failed"} /\ row'[t].status # row[t].status
                => /\ row[t].action = "preflight" /\ row[t].status = "succeeded"
                   /\ row'[t].status = "failed"]_queueVars
  BY <1>1, FinalStep
<1>. QED  BY <1>1, TypeInvariant, PTL DEF Spec, OutcomeFinal

------------------------------------------------------------------------------
(***************************************************************************)
(* The attempts of a task are bounded by the validity of its preflight.    *)
(* An attempt stands for a whole lease that has passed, and one tick more, *)
(* before the next claim may read the task; the validity that is left when *)
(* it does is at least one tick.                                           *)
(***************************************************************************)
Span == Lease + 1

BudgetRow(r) ==
  /\ r.attempt * Span <= Ttl + Lease
  /\ r.status = "queued" => r.attempt = 0
  /\ r.status = "running" /\ r.ttl > 0 => r.attempt * Span + r.ttl <= Ttl + r.lease + 1

\* A claim about to be written has read a task with an attempt to spare.
BudgetClaims == \A w \in Worker : claim[w].step = "claim" => claim[w].attempt * Span < Ttl

BudgetInv == BudgetClaims /\ \A t \in Task : BudgetRow(row[t])

LEMMA SpanIsNat == Span \in Nat \ {0} /\ \A n \in Nat : n * Span \in Nat /\ (n + 1) * Span = n * Span + Span
BY BoundAssumption DEF Span

LEMMA BudgetStep ==
  ASSUME NEW t \in Task, row[t] \in Row, RunningRow(row[t]), BudgetRow(row[t]), BudgetClaims, RowStep(t)
  PROVE  BudgetRow(row'[t])
<1>. DEFINE a == row[t].attempt
<1>0. /\ a \in Nat /\ a * Span \in Nat /\ (a + 1) * Span = a * Span + Span
      /\ Ttl \in Nat \ {0} /\ Lease \in Nat \ {0} /\ Span = Lease + 1 /\ row[t].ttl \in 0..Ttl
  BY SpanIsNat, BoundAssumption DEF Row, Span
<1>. USE DEF BudgetRow
<1>1. CASE row'[t] = row[t]
  BY <1>1
<1>2. CASE \E action \in Action, payload \in Payload, ttl \in 0..Ttl, valid \in BOOLEAN :
             row'[t] = QueuedRow(action, payload, ttl, valid)
  <2>1. row'[t].attempt = 0 /\ row'[t].status = "queued"  BY <1>2 DEF QueuedRow, NoRow
  <2>2. 0 * Span = 0  BY SpanIsNat
  <2>. QED  BY <1>0, <2>1, <2>2
<1>3. CASE row'[t] = RejectedRow(row[t])
  BY <1>3 DEF RejectedRow, Row
<1>4. CASE /\ Claimable(t)
           /\ \E w \in Worker : /\ claim[w].step = "claim" /\ claim[w].attempt = row[t].attempt
                               /\ row'[t] = ClaimedRow(row[t], w)
  <2>1. /\ row'[t].attempt = a + 1 /\ row'[t].status = "running"
        /\ row'[t].lease = Lease /\ row'[t].ttl = row[t].ttl
    BY <1>4 DEF ClaimedRow, Row
  <2>2. a * Span < Ttl  BY <1>4 DEF BudgetClaims
  <2>3. ASSUME row[t].ttl > 0 PROVE a * Span + row[t].ttl <= Ttl
    <3>1. CASE row[t].status = "queued"
      <4>1. a = 0  BY <3>1
      <4>2. a * Span = 0  BY <4>1, SpanIsNat
      <4>3. \A x \in Int : x <= Ttl => 0 + x <= Ttl  BY <1>0
      <4>4. row[t].ttl \in Int /\ row[t].ttl <= Ttl  BY <1>0
      <4>. HIDE DEF a
      <4>. QED  BY <4>2, <4>3, <4>4
    <3>2. CASE row[t].status = "running" /\ LeaseExpired(t)
      <4>1. row[t].lease = -1  BY <3>2, <1>0 DEF RunningRow, LeaseExpired
      <4>. QED  BY <1>0, <2>3, <3>2, <4>1
    <3>. QED  BY <1>4, <3>1, <3>2 DEF Claimable
  <2>4. (a + 1) * Span <= Ttl + Lease  BY <1>0, <2>2
  <2>5. row[t].ttl > 0 => (a + 1) * Span + row[t].ttl <= Ttl + Lease + 1  BY <1>0, <2>3
  <2>. QED  BY <2>1, <2>4, <2>5
<1>5. CASE \E w \in Worker : LeaseHeld(t, w) /\ row'[t] = [row[t] EXCEPT !.lease = Lease]
  <2>1. /\ row'[t].attempt = a /\ row[t].status = "running" /\ row'[t].status = "running"
        /\ row'[t].lease = Lease /\ row'[t].ttl = row[t].ttl
    BY <1>5 DEF Row, LeaseHeld
  <2>2. row[t].lease \in -1..Lease  BY <2>1 DEF RunningRow
  <2>3. row[t].ttl > 0 => a * Span + row[t].ttl <= Ttl + Lease + 1  BY <1>0, <2>1, <2>2
  <2>. QED  BY <2>1, <2>3
<1>6. CASE \E backup \in Backup : row'[t] = [row[t] EXCEPT !.backup = backup]
  BY <1>6 DEF Row
<1>7. CASE \E status \in {"succeeded", "failed"}, result \in Result \union {Null} :
             \E phase \in TerminalPhase(status) : row'[t] = FinishedRow(row[t], status, phase, result)
  BY <1>7 DEF FinishedRow, Row
<1>8. CASE \E result \in Result :
             row'[t] = [row[t] EXCEPT !.status = "failed", !.phase = "failed", !.slot = FALSE,
                                      !.result = result]
  BY <1>8 DEF Row
<1>9. CASE row'[t] = [row[t] EXCEPT !.lease = LeaseAfterTick(@), !.ttl = TtlAfterTick(@)]
  <2>1. /\ row'[t].attempt = a /\ row'[t].status = row[t].status
        /\ row'[t].lease = LeaseAfterTick(row[t].lease) /\ row'[t].ttl = TtlAfterTick(row[t].ttl)
    BY <1>9 DEF Row
  <2>2. ASSUME row[t].status = "running", row'[t].ttl > 0
        PROVE  a * Span + row'[t].ttl <= Ttl + row'[t].lease + 1
    <3>1. row[t].lease \in -1..Lease  BY <2>2 DEF RunningRow
    <3>2. row[t].ttl > 0 /\ row'[t].ttl = row[t].ttl - 1  BY <1>0, <2>1, <2>2 DEF TtlAfterTick
    <3>3. row'[t].lease \in Int /\ row'[t].lease >= row[t].lease - 1
      BY <1>0, <2>1, <3>1 DEF LeaseAfterTick
    <3>4. a * Span + row[t].ttl <= Ttl + row[t].lease + 1  BY <2>2, <3>2
    <3>. QED  BY <1>0, <3>1, <3>2, <3>3, <3>4
  <2>. QED  BY <2>1, <2>2
<1>. QED  BY <1>1, <1>2, <1>3, <1>4, <1>5, <1>6, <1>7, <1>8, <1>9 DEF RowStep

\* A read finds an attempt to spare: the task is queued, or its lease expired
\* while its preflight was still valid.
LEMMA ReadHasBudget ==
  ASSUME NEW t \in Task, row[t] \in Row, RunningRow(row[t]), BudgetRow(row[t]),
         Claimable(t), row[t].ttl > 0
  PROVE  row[t].attempt * Span < Ttl
<1>1. /\ row[t].attempt * Span \in Nat /\ row[t].ttl \in 0..Ttl
      /\ Ttl \in Nat \ {0} /\ Lease \in Nat
  BY SpanIsNat, BoundAssumption DEF Row
<1>2. CASE row[t].status = "queued"
  <2>1. row[t].attempt * Span = 0  BY <1>2, SpanIsNat DEF BudgetRow
  <2>. QED  BY <1>1, <2>1
<1>3. CASE row[t].status = "running" /\ LeaseExpired(t)
  <2>1. row[t].lease = -1  BY <1>1, <1>3 DEF RunningRow, LeaseExpired
  <2>. QED  BY <1>1, <1>3, <2>1 DEF BudgetRow
<1>. QED  BY <1>2, <1>3 DEF Claimable

LEMMA BudgetClaimsStep ==
  ASSUME TypeInv, BudgetInv, [Next]_queueVars
  PROVE  BudgetClaims'
<1>. USE DEF BudgetClaims, TypeInv, RowTypes, ClaimTypes, BudgetInv
<1>1. CASE UNCHANGED claim
  BY <1>1
<1>2. ASSUME NEW w \in Worker, ClaimRead(w)
      PROVE  BudgetClaims'
  <2>1. PICK t \in Task : /\ Oldest(t)
                         /\ claim' = [claim EXCEPT ![w] =
                              [step |-> IF Acceptable(t) THEN "claim" ELSE "reject", task |-> t,
                               seen |-> row[t].status, attempt |-> row[t].attempt]]
    BY <1>2 DEF ClaimRead
  <2>2. Acceptable(t) => row[t].attempt * Span < Ttl
    BY <2>1, ReadHasBudget DEF Oldest, Acceptable
  <2>. QED  BY <2>1, <2>2
<1>3. ASSUME NEW w \in Worker,
             \/ claim' = [claim EXCEPT ![w] = NoClaim]
             \/ claim' = [claim EXCEPT ![w] = [NoClaim EXCEPT !.step = "again"]]
      PROVE  BudgetClaims'
  BY <1>3 DEF NoClaim
<1>. QED
  BY <1>1, <1>2, <1>3
  DEF Next, ClaimStep, ClaimNone, ClaimReject, ClaimWon, ClaimLost, ClaimAbandoned, Submit,
      Heartbeat, RecordBackup, Finish, InvalidatePreflight, Tick, queueVars

LEMMA BudgetInductive ==
  ASSUME TypeInv, BudgetInv, [Next]_queueVars
  PROVE  BudgetInv'
<1>1. BudgetClaims'  BY BudgetClaimsStep
<1>2. CASE Next
  <2>1. \A t \in Task : RowStep(t)  BY <1>2, StepsOnRows
  <2>2. \A t \in Task : BudgetRow(row'[t])
    BY <2>1, BudgetStep DEF TypeInv, RowTypes, BudgetInv
  <2>. QED  BY <1>1, <2>2 DEF BudgetInv, BudgetRow
<1>3. CASE UNCHANGED queueVars
  BY <1>1, <1>3 DEF BudgetInv, queueVars
<1>. QED  BY <1>2, <1>3

LEMMA InitBudget == Init => BudgetInv
<1>. SUFFICES ASSUME Init PROVE BudgetInv  OBVIOUS
<1>1. 0 * Span = 0 /\ 0 <= Ttl + Lease  BY SpanIsNat, BoundAssumption
<1>2. BudgetRow(NoRow)  BY <1>1 DEF NoRow, BudgetRow
<1>. QED  BY <1>2 DEF Init, BudgetInv, BudgetClaims, NoClaim

\* n whole spans that fit into x are at most x \div d.
LEMMA SpansFit ==
  ASSUME NEW n \in Nat, NEW x \in Nat, NEW d \in Nat \ {0}, n * d <= x
  PROVE  n <= x \div d
OBVIOUS

\* However often workers crash or lose their lease, a task is claimed at most
\* once per whole lease that fits into the validity of its preflight, and once
\* more: a task nobody can finish is rejected in the end.
THEOREM AttemptsBoundedCorrect == Spec => []AttemptsBounded
<1>1. ASSUME TypeInv, BudgetInv, NEW t \in Task
      PROVE  row[t].attempt <= 1 + ((Ttl - 1) \div (Lease + 1))
  <2>. DEFINE a == row[t].attempt
  <2>1. a \in Nat /\ a * Span <= Ttl + Lease /\ Ttl - 1 \in Nat /\ Lease \in Nat /\ Ttl \in Nat
    BY <1>1, BoundAssumption DEF TypeInv, RowTypes, Row, BudgetInv, BudgetRow
  <2>2. (Ttl - 1) \div Span \in Nat  BY <2>1, SpanIsNat
  <2>3. CASE a = 0
    BY <2>2, <2>3 DEF Span
  <2>4. CASE a # 0
    <3>1. a - 1 \in Nat /\ ((a - 1) + 1) * Span = (a - 1) * Span + Span /\ (a - 1) * Span \in Nat
      BY <2>1, <2>4, SpanIsNat
    <3>2. (a - 1) * Span <= Ttl - 1
      <4>1. (a - 1) + 1 = a  BY <2>1
      <4>. QED  BY <2>1, <3>1, <4>1 DEF Span
    <3>3. a - 1 <= (Ttl - 1) \div Span  BY <2>1, <3>1, <3>2, SpanIsNat, SpansFit
    <3>. QED  BY <2>1, <2>2, <3>3 DEF Span
  <2>. QED  BY <2>3, <2>4
<1>2. TypeInv /\ BudgetInv => AttemptsBounded  BY <1>1 DEF AttemptsBounded
<1>. QED  BY <1>2, InitBudget, BudgetInductive, TypeInvariant, PTL DEF Spec

------------------------------------------------------------------------------
(***************************************************************************)
(* What clients of the queue rely on: a row keeps what it was submitted    *)
(* with, rows are created in order, and expiries pass alike.               *)
(***************************************************************************)
KeptRow(t) ==
  /\ Exists(t) => Exists(t)' /\ row'[t].action = row[t].action /\ row'[t].payload = row[t].payload
  /\ ~Exists(t) /\ Exists(t)' => t = NextTask
  /\ ~Exists(t) /\ ~Exists(t)' => row'[t].action = row[t].action
  /\ Null \notin Result /\ row[t].result # Null /\ Exists(t) => row'[t].result # Null
  /\ Null \notin Backup /\ row[t].backup # Null /\ Exists(t) => row'[t].backup # Null

LEMMA RowKept ==
  ASSUME TypeInv, [Next]_queueVars, NEW t \in Task
  PROVE  KeptRow(t)
<1>0. row[t] \in Row  BY DEF TypeInv, RowTypes
<1>1. CASE row'[t] = row[t]
  BY <1>1 DEF KeptRow, Exists
<1>2. CASE row'[t] # row[t]
  <2>1. RowStep(t)  BY <1>2, StepsOnRows DEF queueVars
  <2>. USE DEF KeptRow, Exists
  <2>2. CASE /\ ~Exists(t) /\ t = NextTask
             /\ \E action \in Action, payload \in Payload, ttl \in 0..Ttl, valid \in BOOLEAN :
                  row'[t] = QueuedRow(action, payload, ttl, valid)
    BY <2>2 DEF QueuedRow, NoRow
  <2>3. CASE Claimable(t) /\ row'[t] = RejectedRow(row[t])
    BY <1>0, <2>3 DEF RejectedRow, Row, Claimable
  <2>4. CASE Claimable(t) /\ \E w \in Worker : row'[t] = ClaimedRow(row[t], w)
    BY <1>0, <2>4 DEF ClaimedRow, Row, Claimable
  <2>5. CASE \E w \in Worker : LeaseHeld(t, w) /\ row'[t] = [row[t] EXCEPT !.lease = Lease]
    BY <1>0, <2>5 DEF Row
  <2>6. CASE \E backup \in Backup : row'[t] = [row[t] EXCEPT !.backup = backup]
    BY <1>0, <2>6 DEF Row
  <2>7. ASSUME NEW status \in {"succeeded", "failed"}, NEW result \in Result \union {Null}, NEW w \in Worker,
               NEW phase \in TerminalPhase(status), row'[t] = FinishedRow(row[t], status, phase, result),
               LeaseHeld(t, w)
        PROVE  KeptRow(t)
    <3>1. /\ row'[t].status = status /\ row'[t].action = row[t].action
          /\ row'[t].payload = row[t].payload /\ row'[t].backup = row[t].backup
          /\ row'[t].result = (IF result = Null THEN row[t].result ELSE result)
      BY <1>0, <2>7 DEF FinishedRow, Row
    <3>2. Exists(t)  BY <2>7 DEF LeaseHeld
    <3>. QED  BY <3>1, <3>2
  <2>8. CASE /\ row[t].action = "preflight" /\ row[t].status = "succeeded"
             /\ \E result \in Result :
                  row'[t] = [row[t] EXCEPT !.status = "failed", !.phase = "failed", !.slot = FALSE,
                                           !.result = result]
    BY <1>0, <2>8 DEF Row
  <2>9. CASE row'[t] = [row[t] EXCEPT !.lease = LeaseAfterTick(@), !.ttl = TtlAfterTick(@)]
    BY <1>0, <2>9 DEF Row
  <2>. QED  BY <2>1, <2>2, <2>3, <2>4, <2>5, <2>6, <2>7, <2>8, <2>9 DEF RowStep
<1>. QED  BY <1>1, <1>2

\* The expiries of all rows pass together.
LEMMA TtlsPassAlike ==
  ASSUME TypeInv, [Next]_queueVars
  PROVE  \/ \A t \in Task : Exists(t) => row'[t].ttl = row[t].ttl
         \/ \A t \in Task : row'[t].ttl = TtlAfterTick(row[t].ttl) /\ row'[t].status = row[t].status
<1>1. CASE Tick
  <2>1. \A t \in Task : row[t] \in Row  BY DEF TypeInv, RowTypes
  <2>. QED  BY <1>1, <2>1 DEF Tick, Row
<1>2. CASE ~Tick
  <2>. SUFFICES ASSUME NEW t \in Task, Exists(t), row'[t] # row[t] PROVE row'[t].ttl = row[t].ttl
    OBVIOUS
  <2>2. ASSUME NEW u \in Task, NEW r, row' = [row EXCEPT ![u] = r], r.ttl = row[u].ttl
        PROVE  row'[t].ttl = row[t].ttl
    BY <2>2 DEF TypeInv, RowTypes
  <2>3. \A u \in Task : row[u] \in Row  BY DEF TypeInv, RowTypes
  <2>4. ASSUME NEW action \in Action, NEW payload \in Payload, NEW ttl \in 0..Ttl, NEW valid \in BOOLEAN,
               Submit(action, payload, ttl, valid)
        PROVE  FALSE
    <3>1. NextTask \in Task /\ ~Exists(NextTask)  BY <2>4, NextTaskIsNew DEF Submit
    <3>2. row'[t] = row[t]  BY <2>4, <3>1 DEF Submit, TypeInv, RowTypes
    <3>. QED  BY <3>2
  <2>5. ASSUME NEW w \in Worker, ClaimStep(w) \/ ClaimAbandoned(w)
        PROVE  row'[t].ttl = row[t].ttl
    <3>1. CASE ClaimReject(w)
      <4>1. PICK u \in Task : row' = [row EXCEPT ![u] = RejectedRow(row[u])]
        BY <3>1 DEF ClaimReject, TypeInv, RowTypes, ClaimTypes
      <4>2. RejectedRow(row[u]).ttl = row[u].ttl  BY <2>3 DEF RejectedRow, Row
      <4>. QED  BY <2>2, <4>1, <4>2
    <3>2. CASE ClaimWon(w)
      <4>1. PICK u \in Task : row' = [row EXCEPT ![u] = ClaimedRow(row[u], w)]
        BY <3>2 DEF ClaimWon, TypeInv, RowTypes, ClaimTypes
      <4>2. ClaimedRow(row[u], w).ttl = row[u].ttl  BY <2>3 DEF ClaimedRow, Row
      <4>. QED  BY <2>2, <4>1, <4>2
    <3>. QED
      BY <2>5, <3>1, <3>2 DEF ClaimStep, ClaimRead, ClaimNone, ClaimLost, ClaimAbandoned
  <2>6. ASSUME NEW u \in Task, NEW w \in Worker,
               \/ Heartbeat(u, w)
               \/ \E backup \in Backup : RecordBackup(u, w, backup)
        PROVE  row'[t].ttl = row[t].ttl
    <3>. USE DEF TypeInv, RowTypes
    <3>1. CASE Heartbeat(u, w)  BY <2>3, <3>1 DEF Heartbeat, Row
    <3>2. CASE \E backup \in Backup : RecordBackup(u, w, backup)  BY <2>3, <3>2 DEF RecordBackup, Row
    <3>. QED  BY <2>6, <3>1, <3>2
  <2>7. ASSUME NEW u \in Task, NEW w \in Worker, NEW status \in {"succeeded", "failed"},
               NEW phase \in Phase, NEW result \in Result \union {Null},
               Finish(u, w, status, phase, result)
        PROVE  row'[t].ttl = row[t].ttl
    <3>1. row' = [row EXCEPT ![u] = FinishedRow(row[u], status, phase, result)]
      BY <2>7 DEF Finish, TypeInv, RowTypes
    <3>2. FinishedRow(row[u], status, phase, result).ttl = row[u].ttl  BY <2>3 DEF FinishedRow, Row
    <3>. QED  BY <2>2, <3>1, <3>2
  <2>8. ASSUME NEW u \in Task, NEW result \in Result, InvalidatePreflight(u, result)
        PROVE  row'[t].ttl = row[t].ttl
    BY <2>3, <2>8 DEF InvalidatePreflight, TypeInv, RowTypes, Row
  <2>9. Next  BY DEF queueVars
  <2>. QED  BY <1>2, <2>4, <2>5, <2>6, <2>7, <2>8, <2>9 DEF Next
<1>. QED  BY <1>1, <1>2

\* Rows are created in order: one that exists has all those before it.
NoGaps == \A t, u \in Task : Exists(t) /\ u < t => Exists(u)

LEMMA NoGapsInductive ==
  ASSUME TypeInv, NoGaps, [Next]_queueVars
  PROVE  NoGaps'
<1>. SUFFICES ASSUME NEW t \in Task, NEW u \in Task, Exists(t)', u < t PROVE Exists(u)'
  BY DEF NoGaps
<1>1. KeptRow(t) /\ KeptRow(u)  BY RowKept
<1>2. CASE Exists(t)  BY <1>1, <1>2 DEF KeptRow, NoGaps
<1>3. CASE ~Exists(t)
  <2>1. t = NextTask  BY <1>1, <1>3 DEF KeptRow
  <2>2. Exists(u)  BY <1>3, <2>1, NextTaskIsNew
  <2>. QED  BY <1>1, <2>2 DEF KeptRow
<1>. QED  BY <1>2, <1>3

------------------------------------------------------------------------------
(***************************************************************************)
(* Refinement: the queue implements UpdateSlot.                            *)
(***************************************************************************)
LEMMA TaskNotNull == Null \notin Task
BY NullAssumption, TaskIsNat

\* The value of the mapped variables, before and after a step.
LEMMA JobIs ==
  ASSUME OneActiveTask, NEW t \in Task, Active(t)
  PROVE  ActiveTask = t /\ ActiveTask # Null
BY TaskNotNull DEF ActiveTask, OneActiveTask

LEMMA JobWillBe ==
  ASSUME OneActiveTask', NEW t \in Task, Active(t)'
  PROVE  ActiveTask' = t /\ ActiveTask' # Null
BY TaskNotNull DEF ActiveTask, OneActiveTask

LEMMA NoJob == (\A t \in Task : ~Active(t)) => ActiveTask = Null
BY DEF ActiveTask

LEMMA NoJobNext == (\A t \in Task : ~Active(t)') => ActiveTask' = Null
BY DEF ActiveTask

\* A step on a row that leaves its status, its holder and the state of its
\* lease alone is invisible.
LEMMA Invisible ==
  ASSUME TypeInv, row' = [t \in Task |-> row'[t]],
         \A t \in Task : /\ row'[t].status = row[t].status /\ row'[t].action = row[t].action
                         /\ row'[t].claimedBy = row[t].claimedBy
                         /\ row[t].status = "running" => (LeaseExpired(t)' <=> LeaseExpired(t))
  PROVE  UNCHANGED Slot!vars
<1>1. ActiveTask' = ActiveTask  BY DEF ActiveTask, Active
<1>2. ActiveTask \in Task \union {Null}  BY DEF ActiveTask
<1>3. ActiveHolder' = ActiveHolder  BY <1>1, <1>2 DEF ActiveHolder
<1>4. ActiveLive' = ActiveLive  BY <1>1, <1>2 DEF ActiveLive
<1>5. Outcomes' = Outcomes  BY DEF Outcomes
<1>6. Revocable' = Revocable  BY DEF Revocable, Exists
<1>. QED  BY <1>1, <1>3, <1>4, <1>5, <1>6 DEF Slot!vars

LEMMA SubmitAdmits ==
  ASSUME TypeInv, SlotInv, SlotInv',
         NEW action \in Action, NEW payload \in Payload, NEW ttl \in 0..Ttl, NEW valid \in BOOLEAN,
         Submit(action, payload, ttl, valid)
  PROVE  Slot!Next
<1>. DEFINE n == NextTask
<1>1. n \in Task /\ ~Exists(n)  BY NextTaskIsNew DEF Submit
<1>2. row' = [row EXCEPT ![n] = QueuedRow(action, payload, ttl, valid)]  BY DEF Submit
<1> HIDE DEF n
<1>3. \A t \in Task : ~Active(t)
  BY DEF Submit, SlotFree, SlotInv, SlotMatchesStatus
<1>4. /\ row'[n].status = "queued" /\ row'[n].claimedBy = Null
      /\ row'[n].action = action
      /\ \A t \in Task \ {n} : row'[t] = row[t]
  BY <1>1, <1>2 DEF QueuedRow, NoRow, TypeInv, RowTypes
<1>5. ActiveTask = Null  BY <1>3, NoJob
<1>6. ActiveTask' = n /\ ActiveTask' # Null
  BY <1>1, <1>4, JobWillBe DEF Active, SlotInv
<1>7. ActiveHolder' = Null /\ ActiveLive' = FALSE
  BY <1>4, <1>6 DEF ActiveHolder, ActiveLive
<1>8. Outcomes[n] = "none" /\ Outcomes' = Outcomes
  BY <1>1, <1>4 DEF Outcomes, Exists
<1>9. Revocable' \in {Revocable, Revocable \union {n}}
  BY <1>1, <1>4 DEF Revocable, Exists
<1>. QED  BY <1>1, <1>5, <1>6, <1>7, <1>8, <1>9 DEF Slot!Next, Slot!Admit

\* The job leaves the slot: rejected while nobody holds it, or finished by its
\* live holder.
LEMMA LeaveStep ==
  ASSUME TypeInv, SlotInv, SlotInv', NEW t \in Task, Active(t),
         NEW o \in {"succeeded", "failed"}, ActiveLive \/ o = "failed",
         NEW r, r.status = o, r.action = row[t].action,
         row' = [row EXCEPT ![t] = r]
  PROVE  Slot!Next
<1>1. ActiveTask = t /\ ActiveTask # Null  BY JobIs DEF SlotInv
<1>2. row'[t] = r /\ \A u \in Task \ {t} : row'[u] = row[u]  BY DEF TypeInv, RowTypes
<1>3. \A u \in Task : ~Active(u)'
  BY <1>2 DEF Active, SlotInv, OneActiveTask
<1>4. ActiveTask' = Null  BY <1>3, NoJobNext
<1>5. ActiveHolder' = Null /\ ActiveLive' = FALSE  BY <1>4 DEF ActiveHolder, ActiveLive
<1>6. Outcomes' = [Outcomes EXCEPT ![t] = o]  BY <1>2 DEF Outcomes
<1>7. Revocable' = Revocable
  BY <1>2 DEF Revocable, Exists, Active
<1>. QED  BY <1>1, <1>4, <1>5, <1>6, <1>7 DEF Slot!Next, Slot!Leave

LEMMA RejectLeaves ==
  ASSUME TypeInv, SlotInv, SlotInv', NEW w \in Worker, ClaimReject(w)
  PROVE  Slot!Next \/ UNCHANGED Slot!vars
<1>. DEFINE t == claim[w].task
<1>1. t \in Task  BY DEF ClaimReject, TypeInv, ClaimTypes
<1>2. CASE UNCHANGED row
  BY <1>2, Invisible DEF TypeInv, RowTypes, LeaseExpired
<1>3. CASE Unchanged(w, t) /\ row' = [row EXCEPT ![t] = RejectedRow(row[t])]
  <2> HIDE DEF t
  <2>1. Active(t)  BY <1>3 DEF Unchanged, Claimable, Active
  <2>2. RejectedRow(row[t]).status = "failed" /\ RejectedRow(row[t]).action = row[t].action
    BY <1>1 DEF RejectedRow, TypeInv, RowTypes, Row
  <2>. QED  BY <1>1, <1>3, <2>1, <2>2, LeaveStep
<1>. QED  BY <1>2, <1>3 DEF ClaimReject

LEMMA ClaimGrants ==
  ASSUME TypeInv, SlotInv, SlotInv', NEW w \in Worker, ClaimWon(w)
  PROVE  Slot!Next
<1>. DEFINE t == claim[w].task
<1>1. t \in Task /\ Claimable(t) /\ row' = [row EXCEPT ![t] = ClaimedRow(row[t], w)]
  BY DEF ClaimWon, Unchanged, TypeInv, ClaimTypes
<1> HIDE DEF t
<1>2. Active(t) /\ ActiveTask = t /\ ActiveTask # Null
  BY <1>1, JobIs DEF Claimable, Active, SlotInv
<1>3. /\ row'[t].status = "running" /\ row'[t].claimedBy = w /\ row'[t].lease = Lease
      /\ row'[t].action = row[t].action
      /\ \A u \in Task \ {t} : row'[u] = row[u]
  BY <1>1 DEF ClaimedRow, TypeInv, RowTypes, Row
<1>4. ActiveTask' = t /\ ActiveTask' # Null
  BY <1>1, <1>3, JobWillBe DEF Active, SlotInv
<1>5. ~ActiveLive  BY <1>1, <1>2 DEF ActiveLive, Claimable
<1>6. ActiveHolder' = w /\ ActiveLive' = TRUE
  BY <1>3, <1>4, BoundAssumption DEF ActiveHolder, ActiveLive, LeaseExpired
<1>7. Outcomes' = Outcomes  BY <1>2, <1>3 DEF Outcomes, Active
<1>8. Revocable' = Revocable  BY <1>2, <1>3 DEF Revocable, Exists, Active
<1>. QED  BY <1>2, <1>4, <1>5, <1>6, <1>7, <1>8 DEF Slot!Next, Slot!Grant

LEMMA FinishLeaves ==
  ASSUME TypeInv, SlotInv, SlotInv', NEW t \in Task, NEW w \in Worker,
         NEW status \in {"succeeded", "failed"}, NEW phase \in Phase,
         NEW result \in Result \union {Null}, Finish(t, w, status, phase, result)
  PROVE  Slot!Next
<1>1. Active(t) /\ ActiveTask = t /\ ActiveTask # Null
  BY JobIs DEF Finish, LeaseHeld, Active, SlotInv
<1>2. ActiveLive
  BY <1>1, BoundAssumption DEF Finish, LeaseHeld, LeaseLive, ActiveLive, LeaseExpired
<1>3. /\ FinishedRow(row[t], status, phase, result).status = status
      /\ FinishedRow(row[t], status, phase, result).action = row[t].action
  BY DEF FinishedRow, TypeInv, RowTypes, Row
<1>4. row' = [row EXCEPT ![t] = FinishedRow(row[t], status, phase, result)]  BY DEF Finish
<1>. QED  BY <1>1, <1>2, <1>3, <1>4, LeaveStep

LEMMA InvalidateWithdraws ==
  ASSUME TypeInv, NEW t \in Task, NEW result \in Result, InvalidatePreflight(t, result)
  PROVE  Slot!Next
<1>1. /\ row[t].status = "succeeded" /\ row[t].action = "preflight"
      /\ row'[t].status = "failed" /\ row'[t].action = row[t].action
      /\ row' = [u \in Task |-> row'[u]]
      /\ \A u \in Task \ {t} : row'[u] = row[u]
  BY DEF InvalidatePreflight, TypeInv, RowTypes, Row
<1>2. ActiveTask' = ActiveTask /\ ActiveTask # t
  <2>1. \A u \in Task : Active(u)' <=> Active(u)  BY <1>1 DEF Active
  <2>2. ~Active(t)  BY <1>1 DEF Active
  <2>. QED  BY <2>1, <2>2, TaskNotNull DEF ActiveTask
<1>3. ActiveTask \in (Task \ {t}) \union {Null}  BY <1>2 DEF ActiveTask
<1>4. ActiveHolder' = ActiveHolder /\ ActiveLive' = ActiveLive
  BY <1>1, <1>2, <1>3 DEF ActiveHolder, ActiveLive, LeaseExpired
<1>5. Outcomes[t] = "succeeded" /\ Outcomes' = [Outcomes EXCEPT ![t] = "failed"]
  BY <1>1 DEF Outcomes
<1>6. t \in Revocable /\ Revocable' = Revocable  BY <1>1 DEF Revocable, Exists
<1>. QED  BY <1>2, <1>4, <1>5, <1>6 DEF Slot!Next, Slot!Withdraw

\* A lease runs out, or time passes without anybody noticing.
LEMMA TickExpires ==
  ASSUME TypeInv, SlotInv, SlotInv', Tick
  PROVE  Slot!Next \/ UNCHANGED Slot!vars
<1>1. /\ row' = [t \in Task |-> row'[t]]
      /\ \A t \in Task : /\ row'[t].status = row[t].status /\ row'[t].action = row[t].action
                         /\ row'[t].claimedBy = row[t].claimedBy
                         /\ row'[t].lease = LeaseAfterTick(row[t].lease)
  BY DEF Tick, TypeInv, RowTypes, Row
<1>2. \A t \in Task : row[t].status = "running" /\ LeaseExpired(t) => LeaseExpired(t)'
  BY <1>1, BoundAssumption DEF TypeInv, RunningRow, LeaseExpired, LeaseAfterTick
<1>3. CASE \A t \in Task : row[t].status = "running" => (LeaseExpired(t)' <=> LeaseExpired(t))
  BY <1>1, <1>3, Invisible
<1>4. ASSUME NEW t \in Task, row[t].status = "running", LeaseExpired(t)', ~LeaseExpired(t)
      PROVE  Slot!Expire
  <2>1. ActiveTask = t /\ ActiveTask # Null  BY <1>4, JobIs DEF Active, SlotInv
  <2>2. ActiveTask' = t /\ ActiveTask' # Null  BY <1>1, <1>4, JobWillBe DEF Active, SlotInv
  <2>3. ActiveLive  BY <1>4, <2>1 DEF ActiveLive
  <2>4. ActiveLive' = FALSE  BY <1>4, <2>2 DEF ActiveLive
  <2>5. ActiveHolder' = ActiveHolder  BY <1>1, <2>1, <2>2 DEF ActiveHolder
  <2>6. Outcomes' = Outcomes /\ Revocable' = Revocable  BY <1>1 DEF Outcomes, Revocable, Exists
  <2>. QED  BY <2>1, <2>2, <2>3, <2>4, <2>5, <2>6 DEF Slot!Expire
<1>. QED  BY <1>2, <1>3, <1>4 DEF Slot!Next

LEMMA HeartbeatInvisible ==
  ASSUME TypeInv, NEW t \in Task, NEW w \in Worker, Heartbeat(t, w)
  PROVE  UNCHANGED Slot!vars
<1>1. /\ row' = [row EXCEPT ![t].lease = Lease]
      /\ ~LeaseExpired(t)
  BY BoundAssumption DEF Heartbeat, LeaseHeld, LeaseLive, LeaseExpired
<1>2. \A u \in Task : /\ row'[u].status = row[u].status /\ row'[u].action = row[u].action
                      /\ row'[u].claimedBy = row[u].claimedBy
                      /\ u # t => row'[u].lease = row[u].lease
                      /\ u = t => row'[u].lease = Lease
  BY <1>1 DEF TypeInv, RowTypes, Row
<1>3. \A u \in Task : LeaseExpired(u)' <=> LeaseExpired(u)
  BY <1>1, <1>2, BoundAssumption DEF LeaseExpired
<1>. QED  BY <1>1, <1>2, <1>3, Invisible DEF TypeInv, RowTypes

LEMMA RecordBackupInvisible ==
  ASSUME TypeInv, NEW t \in Task, NEW w \in Worker, NEW backup \in Backup, RecordBackup(t, w, backup)
  PROVE  UNCHANGED Slot!vars
<1>1. row' = [row EXCEPT ![t].backup = backup]  BY DEF RecordBackup
<1>2. \A u \in Task : /\ row'[u].status = row[u].status /\ row'[u].action = row[u].action
                      /\ row'[u].claimedBy = row[u].claimedBy
                      /\ row'[u].lease = row[u].lease
  BY <1>1 DEF TypeInv, RowTypes, Row
<1>. QED  BY <1>1, <1>2, Invisible DEF LeaseExpired, TypeInv, RowTypes

LEMMA StepRefines ==
  ASSUME TypeInv, SlotInv, SlotInv', [Next]_queueVars
  PROVE  [Slot!Next]_(Slot!vars)
<1>1. CASE UNCHANGED row
  BY <1>1, Invisible DEF TypeInv, RowTypes, LeaseExpired
<1>2. ASSUME NEW action \in Action, NEW payload \in Payload, NEW ttl \in 0..Ttl, NEW valid \in BOOLEAN,
             Submit(action, payload, ttl, valid)
      PROVE  Slot!Next
  BY <1>2, SubmitAdmits
<1>3. ASSUME NEW w \in Worker, ClaimReject(w)
      PROVE  Slot!Next \/ UNCHANGED Slot!vars
  BY <1>3, RejectLeaves
<1>4. ASSUME NEW w \in Worker, ClaimWon(w)
      PROVE  Slot!Next
  BY <1>4, ClaimGrants
<1>5. ASSUME NEW t \in Task, NEW w \in Worker, Heartbeat(t, w)
      PROVE  UNCHANGED Slot!vars
  BY <1>5, HeartbeatInvisible
<1>6. ASSUME NEW t \in Task, NEW w \in Worker, NEW backup \in Backup, RecordBackup(t, w, backup)
      PROVE  UNCHANGED Slot!vars
  BY <1>6, RecordBackupInvisible
<1>7. ASSUME NEW t \in Task, NEW w \in Worker, NEW status \in {"succeeded", "failed"},
             NEW phase \in Phase, NEW result \in Result \union {Null},
             Finish(t, w, status, phase, result)
      PROVE  Slot!Next
  BY <1>7, FinishLeaves
<1>8. ASSUME NEW t \in Task, NEW result \in Result, InvalidatePreflight(t, result)
      PROVE  Slot!Next
  BY <1>8, InvalidateWithdraws
<1>9. CASE Tick
  BY <1>9, TickExpires
<1>. QED
  BY <1>1, <1>2, <1>3, <1>4, <1>5, <1>6, <1>7, <1>8, <1>9
  DEF Next, ClaimStep, ClaimRead, ClaimNone, ClaimLost, ClaimAbandoned, queueVars

LEMMA InitRefines == Init => Slot!Init
<1>. SUFFICES ASSUME Init PROVE Slot!Init  OBVIOUS
<1>1. \A t \in Task : row[t].status = "absent"  BY DEF Init, NoRow
<1>2. ActiveTask = Null  BY <1>1, NoJob DEF Active
<1>3. ActiveHolder = Null /\ ActiveLive = FALSE  BY <1>2 DEF ActiveHolder, ActiveLive
<1>4. Outcomes = [t \in Task |-> "none"] /\ Revocable = {}
  BY <1>1 DEF Outcomes, Revocable, Exists
<1>. QED  BY <1>2, <1>3, <1>4 DEF Slot!Init

\* The table, its leases and its compare-and-sets implement a single slot with
\* fenced holders: jobs pass one at a time, only the live holder resolves a job,
\* and a resolved job stays resolved.
THEOREM QueueImplementsSlot == Spec => SlotSpec
<1>1. TypeInv /\ SlotInv /\ SlotInv' /\ [Next]_queueVars => [Slot!Next]_(Slot!vars)
  BY StepRefines
<1>. QED
  BY <1>1, InitRefines, TypeInvariant, SlotInvariant, PTL DEF Spec, SlotSpec, Slot!Spec
==============================================================================
