------------------------- MODULE MCNotificationOutbox -------------------------
(***************************************************************************)
(* Instance of the notification outbox for TLC: two API processes, one     *)
(* occurrence on one channel, so that its firing message and its recovery  *)
(* compete, and two attempts per delivery.                                 *)
(***************************************************************************)
EXTENDS NotificationOutbox, TLC

CONSTANTS w1, w2, a1, c1, none

MCWorker == {w1, w2}
MCAlert == {a1}
MCChannel == {c1}
===============================================================================
