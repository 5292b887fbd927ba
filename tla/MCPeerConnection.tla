-------------------------- MODULE MCPeerConnection --------------------------
(* Small instances of PeerConnection for TLC.                               *)
EXTENDS PeerConnection

CONSTANTS t1, t2

TwoThreads == {t1, t2}
OneThread == {t1}
NoThread == {}
=============================================================================
