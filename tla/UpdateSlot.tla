----------------------------- MODULE UpdateSlot -----------------------------
(***************************************************************************)
(* What the update queue promises its clients, without a table, leases in  *)
(* ticks or claim calls: jobs pass one at a time through a single slot,    *)
(* the job in the slot has at most one holder whose lease is live, it is   *)
(* resolved as a success only while a holder's lease is live, and a        *)
(* resolved job stays resolved.                                            *)
(***************************************************************************)
CONSTANTS Worker, Job, None

VARIABLES
  job,       \* the job in the slot, or None
  holder,    \* the worker the job was last granted to, or None
  live,      \* TRUE while the holder's lease has not expired
  outcome,   \* outcome[j]: "none", "succeeded" or "failed"
  revocable  \* the jobs whose success may still be withdrawn

vars == <<job, holder, live, outcome, revocable>>

Init ==
  /\ job = None
  /\ holder = None
  /\ live = FALSE
  /\ outcome = [j \in Job |-> "none"]
  /\ revocable = {}

\* A new job enters the empty slot, and is revocable from then on or never.
Admit(j) ==
  /\ job = None
  /\ outcome[j] = "none"
  /\ job' = j /\ holder' = None /\ live' = FALSE
  /\ revocable' \in {revocable, revocable \union {j}}
  /\ UNCHANGED outcome

\* The job is granted to a worker while nobody holds a live lease on it.
Grant(w) ==
  /\ job # None
  /\ ~live
  /\ holder' = w /\ live' = TRUE
  /\ UNCHANGED <<job, outcome, revocable>>

Expire ==
  /\ live
  /\ live' = FALSE
  /\ UNCHANGED <<job, holder, outcome, revocable>>

\* The job leaves the slot: resolved while its holder's lease is live, or
\* dropped as failed while nobody holds it.
Leave(o) ==
  /\ job # None
  /\ live \/ o = "failed"
  /\ outcome' = [outcome EXCEPT ![job] = o]
  /\ job' = None /\ holder' = None /\ live' = FALSE
  /\ UNCHANGED revocable

\* The success of a revocable job may be withdrawn afterwards.
Withdraw(j) ==
  /\ outcome[j] = "succeeded"
  /\ j \in revocable
  /\ outcome' = [outcome EXCEPT ![j] = "failed"]
  /\ UNCHANGED <<job, holder, live, revocable>>

Next ==
  \/ \E j \in Job : Admit(j) \/ Withdraw(j)
  \/ \E w \in Worker : Grant(w)
  \/ Expire
  \/ \E o \in {"succeeded", "failed"} : Leave(o)

Spec == Init /\ [][Next]_vars
=============================================================================
