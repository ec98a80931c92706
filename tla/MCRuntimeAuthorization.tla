----------------------- MODULE MCRuntimeAuthorization -----------------------
(***************************************************************************)
(* An instance of the live connections for TLC.                            *)
(***************************************************************************)
EXTENDS RuntimeAuthorization

CONSTANT c1

MCConn == {c1}
=============================================================================
