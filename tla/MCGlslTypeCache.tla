--------------------------- MODULE MCGlslTypeCache ---------------------------
(* Small instance of GlslTypeCache for TLC.                                 *)
EXTENDS GlslTypeCache, TLC

CONSTANTS t1, t2, t3, a1, a2, a3

MCThreads == {t1, t2, t3}
MCAddr == {a1, a2, a3}
MCArg == {1}

MCSymmetry == Permutations(MCThreads) \union Permutations(MCAddr)
=============================================================================
