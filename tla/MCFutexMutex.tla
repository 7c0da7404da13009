---------------------------- MODULE MCFutexMutex ----------------------------
(* Small instance of FutexMutex for TLC.  No symmetry: the run checks        *)
(* liveness too.                                                             *)
EXTENDS FutexMutex, TLC

CONSTANTS t1, t2, t3, t4

MCThreads == {t1, t2, t3, t4}
=============================================================================
