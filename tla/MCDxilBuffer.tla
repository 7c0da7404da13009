---------------------------- MODULE MCDxilBuffer ----------------------------
(* Small instance of DxilBuffer for TLC: widths that fill the accumulator   *)
(* exactly, fall one bit short of it or straddle it, data of all ones and   *)
(* of alternating bits, memory for none to two words (which bounds the      *)
(* stream).                                                                 *)
EXTENDS DxilBuffer

Ones(w) == [i \in 0..31 |-> IF i < w THEN 1 ELSE 0]
Alternating(w) == [i \in 0..31 |-> IF i < w THEN i % 2 ELSE 0]

MCInputs == {<<Ones(w), w>> : w \in {9, 31, 32}}
               \union {<<Alternating(w), w>> : w \in {9, 32}}
MCLimits == {0, 1, 2}
=============================================================================
