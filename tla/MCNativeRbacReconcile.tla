------------------------ MODULE MCNativeRbacReconcile ------------------------
(***************************************************************************)
(* An instance of the reconciliation for TLC: two passes.                  *)
(***************************************************************************)
EXTENDS NativeRbacReconcile, TLC

CONSTANTS ann, p1, p2, none

MCUser == {ann}
MCPass == {p1, p2}

Symmetry == Permutations(MCPass)

\* What a pass that was not alone has held is never looked at.
Relevant ==
  <<config, account, role, bound,
    [p \in Pass |-> IF pass[p].alone THEN pass[p] ELSE [pass[p] EXCEPT !.held = Idle.held]]>>
===============================================================================
