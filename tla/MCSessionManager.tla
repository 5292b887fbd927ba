-------------------------- MODULE MCSessionManager --------------------------
(* Small instances of SessionManager for TLC.                               *)
EXTENDS SessionManager, TLC

CONSTANTS s1, s2

TwoTorrents == {s1, s2}
=============================================================================
