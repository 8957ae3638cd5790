---------------------------- MODULE MCConnection ----------------------------
(* Finite instances of Connection for TLC. *)
EXTENDS Connection

CONSTANTS c1, c2

TwoConns == {c1, c2}
OneConn == {c1}
=============================================================================
