--------------------------- MODULE MCNotifications ---------------------------
(* Two users who may hand a device on, two devices, one socket.            *)
EXTENDS Notifications

CONSTANTS u1, u2, d1, d2, s1, h1
=============================================================================
