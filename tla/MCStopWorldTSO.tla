--------------------------- MODULE MCStopWorldTSO ---------------------------
(* An instance of StopWorldTSO for TLC: one thread that blocks, one that    *)
(* collects.                                                               *)
EXTENDS StopWorldTSO

CONSTANTS t1, t2

TwoThreads == {t1, t2}
=============================================================================
