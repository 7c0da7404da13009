----------------------------- MODULE MCGcContext -----------------------------
(* A small instance of GcContext for TLC: three blocks besides the fixed   *)
(* ones, which slabs of two objects, large objects and plain blocks share. *)
EXTENDS GcContext, TLC

CONSTANTS shader, gctx, rubbishctx, b1, b2, b3

MCBlocks == {shader, gctx, rubbishctx, b1, b2, b3}
MCSymmetry == Permutations({b1, b2, b3})
=============================================================================
