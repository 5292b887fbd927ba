----------------------- MODULE MCGetPeersLookupManager ----------------------
(* Small instances of GetPeersLookupManager for TLC.                        *)
EXTENDS GetPeersLookupManager

CONSTANTS h1, h2, x1, x2

TwoHashes == {h1, h2}
TwoTxns == {x1, x2}
TwoNodes == 1 .. 2
=============================================================================
