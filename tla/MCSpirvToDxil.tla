---------------------------- MODULE MCSpirvToDxil ----------------------------
(* Small instances of SpirvToDxil for TLC.                                  *)
EXTENDS SpirvToDxil, TLC

CONSTANTS t1, t2, a1, a2

MCThreads == {t1, t2}
MCAddr == {a1, a2}
MCAddr1 == {a1}
MCArg == {1}
=============================================================================
