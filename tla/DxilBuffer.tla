------------------------------ MODULE DxilBuffer ------------------------------
(***************************************************************************)
(* struct dxil_buffer (mesa/src/microsoft/compiler/dxil_buffer.c): bits    *)
(* collect in a 64-bit accumulator and leave it 32 at a time for a blob    *)
(* (mesa/src/util/blob.c).  Words and the accumulator are functions from   *)
(* bit positions, least significant first, to {0, 1}, so that OR and shift *)
(* are what they are in C, bits shifted out included.                      *)
(*                                                                         *)
(* A buffer is the record of the C structure's fields plus                 *)
(*   limit  the number of words for which memory can be had,               *)
(*   ok     what the last call returned.  Callers chain calls with ||, so  *)
(*          once a call has returned false no other is made.               *)
(***************************************************************************)
EXTENDS Integers, Sequences

Bit == {0, 1}
Word == [0..31 -> Bit]
Accumulator == [0..63 -> Bit]

Zero == [i \in 0..63 |-> 0]

Buffer == [blob : Seq(Word), limit : Nat, out_of_memory : BOOLEAN,
           buf : Accumulator, buf_bits : 0..63, abbrev_width : Nat,
           ok : BOOLEAN]

dxil_buffer_init(abbrev_width, limit) ==
    [blob |-> <<>>, limit |-> limit, out_of_memory |-> FALSE,
     buf |-> Zero, buf_bits |-> 0, abbrev_width |-> abbrev_width, ok |-> TRUE]

(* grow_to_fit: can the blob take one more word?  The first failure is     *)
(* remembered in out_of_memory.                                            *)
grow_to_fit(b) == ~ b.out_of_memory /\ Len(b.blob) < b.limit

(* Mutant: the bytes are copied before the room for them is checked.       *)
write_then_grow(b, w) ==
    [b EXCEPT !.blob = Append(@, w), !.out_of_memory = ~ grow_to_fit(b),
              !.ok = grow_to_fit(b)]

(* blob_write_bytes of four bytes                                          *)
blob_write_word(b, w) ==
    IF grow_to_fit(b)
    THEN [b EXCEPT !.blob = Append(@, w)]
    ELSE [b EXCEPT !.out_of_memory = TRUE, !.ok = FALSE]

LowerWord(buf) == [i \in 0..31 |-> buf[i]]
ShiftRight32(buf) == [i \in 0..63 |-> IF i < 32 THEN buf[i + 32] ELSE 0]

(* Mutant: the accumulator is not shifted.                                 *)
flush_without_shift(b) ==
    LET c == blob_write_word(b, LowerWord(b.buf))
    IN  IF c.ok THEN [c EXCEPT !.buf_bits = @ - 32] ELSE c

(* flush_dword: nothing is dropped from the accumulator when the write     *)
(* fails.                                                                  *)
flush_dword(b) ==
    LET c == blob_write_word(b, LowerWord(b.buf))
    IN  IF c.ok THEN [c EXCEPT !.buf = ShiftRight32(@), !.buf_bits = @ - 32]
                ELSE c

(* Mutant: the shift is done in 32 bits, so bits beyond the word are lost. *)
OrShiftedIn32(buf, data, n) ==
    [i \in 0..63 |-> IF i >= n /\ i < 32 /\ data[i - n] = 1
                     THEN 1 ELSE buf[i]]

(* buf |= (uint64_t)data << n                                              *)
OrShifted(buf, data, n) ==
    [i \in 0..63 |-> IF i >= n /\ i - n < 32 /\ data[i - n] = 1
                     THEN 1 ELSE buf[i]]

dxil_buffer_emit_bits(b, data, width) ==
    LET c == [b EXCEPT !.buf = OrShifted(@, data, b.buf_bits),
                       !.buf_bits = @ + width]
    IN  IF c.buf_bits >= 32 THEN flush_dword(c) ELSE c

dxil_buffer_align(b) ==
    IF b.buf_bits # 0 THEN flush_dword([b EXCEPT !.buf_bits = 32]) ELSE b
-----------------------------------------------------------------------------
(* The component on its own: a caller that emits bits and aligns until a   *)
(* call fails.  `stream' is what the caller asked for, bit after bit.      *)
CONSTANTS
    Inputs,      \* the pairs <<data, width>> callers pass
    Limits       \* how much memory there may be, in words

(* The asserts of dxil_buffer_emit_bits: the width, and no bit of data     *)
(* beyond it.                                                              *)
Legal(data, width) == /\ data \in Word
                      /\ width \in 1..32
                      /\ \A i \in 0..31 : i >= width => data[i] = 0

ASSUME InputsAreLegal == \A in \in Inputs : Legal(in[1], in[2])
ASSUME LimitsAreNumbers == Limits \subseteq Nat

VARIABLES b, stream

bufferVars == <<b, stream>>

Init == /\ \E limit \in Limits : b = dxil_buffer_init(2, limit)
        /\ stream = <<>>

Bits(data, width) == [i \in 1..width |-> data[i - 1]]

EmitBits == /\ b.ok
            /\ \E in \in Inputs :
                  /\ b' = dxil_buffer_emit_bits(b, in[1], in[2])
                  /\ stream' = stream \o Bits(in[1], in[2])

(* The bits that bring the stream to a word boundary are zero.             *)
Padding(n) == [i \in 1..(IF n = 0 THEN 0 ELSE 32 - n) |-> 0]

Align == /\ b.ok
         /\ b' = dxil_buffer_align(b)
         /\ stream' = stream \o Padding(b.buf_bits)

Next == EmitBits \/ Align

Spec == Init /\ [][Next]_bufferVars
-----------------------------------------------------------------------------
TypeOK == /\ b \in Buffer
          /\ stream \in Seq(Bit)

(* assert(b->buf_bits < 32) at the head of every call: less than a word is *)
(* pending, and no pending bit lies beyond buf_bits, where the next OR     *)
(* would corrupt it.                                                       *)
ReadyForCall == b.ok => /\ b.buf_bits < 32
                        /\ \A i \in 0..63 : i >= b.buf_bits => b.buf[i] = 0

(* The words in the blob followed by the pending bits are exactly the bits *)
(* the caller emitted, in order: none lost, reordered or overwritten at    *)
(* the moment the accumulator overflows into the blob.                     *)
HoldsStream ==
    b.ok => /\ Len(stream) = 32 * Len(b.blob) + b.buf_bits
            /\ \A k \in 1..Len(b.blob), j \in 0..31 :
                  stream[32 * (k - 1) + j + 1] = b.blob[k][j]
            /\ \A j \in 0..31 : j < b.buf_bits =>
                  stream[32 * Len(b.blob) + j + 1] = b.buf[j]

(* A failed call neither adds to the blob nor touches what is in it, and   *)
(* is only ever due to memory running out.                                 *)
FailureKeepsBlob ==
    [][b.ok /\ ~ b'.ok => b'.blob = b.blob /\ Len(b.blob) = b.limit
      ]_bufferVars

BufferInv == TypeOK /\ ReadyForCall /\ HoldsStream
=============================================================================
