----------------------- MODULE MCKubernetesUpdateTasks -----------------------
(***************************************************************************)
(* Instance of the queue for TLC: two workers that may call anything, two  *)
(* rows, a lease of two ticks and a preflight valid for five, so that a    *)
(* task can be claimed, lost, claimed again and rejected.                  *)
(***************************************************************************)
EXTENDS KubernetesUpdateTasks, TLC

CONSTANTS w1, w2, p1, r1, b1, null

MCWorker == {w1, w2}
MCPayload == {p1}
MCResult == {r1}
MCBackup == {b1}

Symmetry == Permutations(MCWorker)
==============================================================================
