--------------------------- MODULE MCClusterEventSync ---------------------------
(***************************************************************************)
(* An instance of the watches and syncs for TLC: two starts in flight.     *)
(***************************************************************************)
EXTENDS ClusterEventSync

CONSTANTS s1, s2, y1, y2, watches, none

MCStart == {s1, s2}
MCSync == {y1, y2}
=================================================================================
