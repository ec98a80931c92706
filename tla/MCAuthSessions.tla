--------------------------- MODULE MCAuthSessions ---------------------------
(***************************************************************************)
(* An instance of the sessions for TLC: one user, two requests in flight.  *)
(***************************************************************************)
EXTENDS AuthSessions, TLC

CONSTANTS bob, c1, c2, none

MCUser == {bob}
MCCall == {c1, c2}

Symmetry == Permutations(Call)

\* What a revoked row said is never read again.
LiveRows ==
  <<user, token, call,
    [s \in DOMAIN session |-> IF Live(s) THEN session[s] ELSE session[s].revoked]>>
==============================================================================
