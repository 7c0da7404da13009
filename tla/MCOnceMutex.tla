----------------------------- MODULE MCOnceMutex -----------------------------
(* Small instances of OnceMutex for TLC.                                    *)
EXTENDS OnceMutex, TLC

CONSTANTS t1, t2, t3, m1, m2

MCThreads == {t1, t2, t3}
MCMutexes == {m1, m2}
=============================================================================
