---------------------------- MODULE MCDiskWriter ----------------------------
(* Small instances of DiskWriter for TLC.                                   *)
EXTENDS DiskWriter, TLC

CONSTANTS t1, t2

TwoThreads == {t1, t2}
TwoSymmetric == Permutations(TwoThreads)

\* Up to three files of at most one byte, so that a piece spans any of them and
\* empty ones; pieces that end inside a file; and one that lies across the
\* border of two files larger than itself.
SmallLayouts ==
  UNION {[1 .. n -> 0 .. 1] : n \in 1 .. 3}
    \cup {<<1, 2>>, <<3, 2>>, <<2, 0, 1>>, <<2, 1, 2>>}
SmallSizes == 2 .. 4
=============================================================================
