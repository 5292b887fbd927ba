-------------------------- MODULE MCTorrentManager --------------------------
(* Small instances of TorrentManager for TLC.                               *)
EXTENDS TorrentManager, TLC

CONSTANTS p1, p2, p3

ThreePeers == {p1, p2, p3}
=============================================================================
