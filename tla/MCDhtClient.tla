---------------------------- MODULE MCDhtClient -----------------------------
(* Small instances of DhtClient for TLC.                                    *)
EXTENDS DhtClient, TLC

CONSTANTS h1, n1

OneHash == {h1}
OneNode == {n1}
=============================================================================
