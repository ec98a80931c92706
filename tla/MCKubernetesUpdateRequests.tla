---------------------- MODULE MCKubernetesUpdateRequests ----------------------
(***************************************************************************)
(* Instances of the update requests for TLC: one controller, one or two    *)
(* requests at a time, and the bounds the configurations give.             *)
(***************************************************************************)
EXTENDS KubernetesUpdateRequests, TLC

CONSTANTS w1, q1, q2, done, null

MCWorker == {w1}
MCOneRequest == {q1}
MCTwoRequests == {q1, q2}
MCResult == {done}
MCPayload == [fp : 0..MaxSaves \union {null}, pre : 1..MaxTasks \union {null},
              of : 1..MaxTasks \union {null}]

Symmetry == Permutations(Request)
===============================================================================
