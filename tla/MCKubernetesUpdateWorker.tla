----------------------- MODULE MCKubernetesUpdateWorker -----------------------
(***************************************************************************)
(* Instances of the update controller for TLC: two workers, two            *)
(* Deployments, and small bounds given in the configurations.              *)
(***************************************************************************)
EXTENDS KubernetesUpdateWorker, TLC

CONSTANTS w1, w2, old, new, foreign, b1, null

MCWorker == {w1, w2}
MCOneWorker == {w1}
MCBackup == {b1}
MCImages == [1..N -> {old, new, foreign}]

Symmetry == Permutations(MCWorker)
==============================================================================
