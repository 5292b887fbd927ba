--------------------------- MODULE MCBlockPipeline --------------------------
(* A followed thread beside another one, for TLC.                           *)
EXTENDS BlockPipeline

CONSTANTS t1, t2

TwoThreads == {t1, t2}
OneThread == {t1}
OtherThread == {t2}
=============================================================================
