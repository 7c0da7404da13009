---------------------------- MODULE DxilBitstream ----------------------------
(***************************************************************************)
(* The LLVM bitstream writer of mesa/src/microsoft/compiler/dxil_module.c: *)
(* blocks with a length word filled in when they end, records, and         *)
(* abbreviations that say how a record is packed.                          *)
(*                                                                         *)
(* The bits go through a dxil_buffer.  DxilBuffer shows that it holds what *)
(* was emitted, bit for bit, so here the stream is the sequence of emitted *)
(* fields, each with its value, its width and the bit it starts at.  A     *)
(* field that completes a word needs memory for that word; `limit' is the  *)
(* number of words there is memory for.  `asked' records, for the          *)
(* properties only, the records and blocks the callers asked for.          *)
(***************************************************************************)
EXTENDS Integers, Sequences, SequencesExt

Unset == -1      \* what the memory of a reserved length word holds at first

Field(value, width) == [value |-> value, width |-> width]

dxil_module_init(limit) ==
    [fields |-> <<>>, bits |-> 0, limit |-> limit, out_of_memory |-> FALSE,
     ok |-> TRUE, abbrev_width |-> 2, blocks |-> <<>>, asked |-> <<>>]

(* The words flushed so far, and whether the blob can take one more        *)
Words(m) == m.bits \div 32
Room(m) == ~ m.out_of_memory /\ Words(m) < m.limit

Place(m, f) ==
    [m EXCEPT !.fields = Append(@, [value |-> f.value, width |-> f.width,
                                    at |-> m.bits]),
              !.bits = @ + f.width]

(* Callers chain with ||: nothing is emitted after a failure.              *)
dxil_buffer_emit_bits(m, f) ==
    IF ~ m.ok THEN m
    ELSE IF (m.bits % 32) + f.width >= 32 /\ ~ Room(m)
         THEN [m EXCEPT !.out_of_memory = TRUE, !.ok = FALSE]
         ELSE Place(m, f)

EmitAll(m, fs) ==
    LET emit[i \in 0..Len(fs)] ==
            IF i = 0 THEN m ELSE dxil_buffer_emit_bits(emit[i - 1], fs[i])
    IN  emit[Len(fs)]

(* dxil_buffer_emit_vbr_bits: groups of width - 1 bits, lowest first, the  *)
(* top bit of a group saying that another follows.                         *)
Vbr(data, width) ==
    LET tag == 2^(width - 1)
        emit[d \in Nat] ==
            IF d > tag - 1 THEN <<Field((d % tag) + tag, width)>> \o emit[d \div tag]
                           ELSE <<Field(d, width)>>
    IN  emit[data]

Vbrs(data, width) == FlattenSeq([i \in DOMAIN data |-> Vbr(data[i], width)])

dxil_buffer_align(m) ==
    IF m.bits % 32 = 0 THEN m
    ELSE dxil_buffer_emit_bits(m, Field(0, 32 - (m.bits % 32)))

AbbrevId(m, id) == <<Field(id, m.abbrev_width)>>

END_BLOCK == 0
ENTER_SUBBLOCK == 1
DEFINE_ABBREV == 2
UNABBREV_RECORD == 3
FIRST_APPLICATION_ABBREV == 4

Asked(m, what) == [m EXCEPT !.asked = IF m.ok THEN Append(@, what) ELSE @]
-----------------------------------------------------------------------------
(* Mutant: a failed reservation leaves no trace.                           *)
reserve_forgets(m) == IF Room(m) THEN Place(m, Field(Unset, 32)) ELSE m

(* blob_reserve_uint32 leaves the word as it is, or fails.                 *)
blob_reserve_uint32(m) ==
    IF Room(m) THEN Place(m, Field(Unset, 32))
               ELSE [m EXCEPT !.out_of_memory = TRUE]

(* The result of the reservation is stored without a test: after a failed  *)
(* one the offset is -1, and enter_subblock still returns true.            *)
enter_subblock(m, id, abbrev_width) ==
    LET h == dxil_buffer_align(
                EmitAll(m, AbbrevId(m, ENTER_SUBBLOCK)
                              \o Vbr(id, 8) \o Vbr(abbrev_width, 4)))
        r == blob_reserve_uint32(h)
        offset == IF Room(h) THEN Words(h) ELSE -1
    IN  IF ~ h.ok THEN h
        ELSE Asked([r EXCEPT !.abbrev_width = abbrev_width,
                             !.blocks = Append(@, [abbrev_width |-> m.abbrev_width,
                                                   offset |-> offset])],
                   [enter |-> id])

(* Mutant: the length word counts itself.                                  *)
SizeWithItself(size, size_offset) == (size - size_offset) \div 4

(* In bytes, as in the code                                                *)
SizeInWords(size, size_offset) == (size - size_offset - 1) \div 4

(* blob_overwrite_uint32 fails on an offset outside the blob.              *)
blob_overwrite_uint32(m, offset, value) ==
    IF offset < 0 \/ offset >= Words(m) THEN [m EXCEPT !.ok = FALSE]
    ELSE [m EXCEPT !.fields =
            [i \in DOMAIN @ |-> IF @[i].at = 32 * offset
                                THEN [@[i] EXCEPT !.value = value] ELSE @[i]]]

exit_block(m) ==
    LET e == dxil_buffer_align(EmitAll(m, AbbrevId(m, END_BLOCK)))
        block == Last(m.blocks)
        w == blob_overwrite_uint32(e, block.offset,
                                   SizeInWords(4 * Words(e), 4 * block.offset))
    IN  IF ~ e.ok \/ ~ w.ok THEN [e EXCEPT !.ok = FALSE]
        ELSE Asked([w EXCEPT !.blocks = Front(@),
                             !.abbrev_width = block.abbrev_width],
                   [exit |-> TRUE])

emit_record(m, code, data) ==
    Asked(EmitAll(m, AbbrevId(m, UNABBREV_RECORD) \o Vbr(code, 6)
                        \o Vbr(Len(data), 6) \o Vbrs(data, 6)),
          [code |-> code, data |-> data])
-----------------------------------------------------------------------------
(* Abbreviations: an array is always the last but one operand and is       *)
(* followed by the packing of its elements.                                *)
LITERAL(x) == [op |-> "literal", arg |-> x]
FIXED(x) == [op |-> "fixed", arg |-> x]
VBR(x) == [op |-> "vbr", arg |-> x]
ARRAY == [op |-> "array", arg |-> 0]
CHAR6 == [op |-> "char6", arg |-> 0]
TYPE_INDEX == FIXED(32)

(* Characters are their ASCII codes.                                       *)
is_char6(ch) == ch \in (97..122) \union (65..90) \union (48..57) \union {46, 95}

encode_char6(ch) == CASE ch \in 97..122 -> ch - 97
                      [] ch \in 65..90 -> 26 + ch - 65
                      [] ch \in 48..57 -> 52 + ch - 48
                      [] ch = 46 -> 62
                      [] ch = 95 -> 63

OperandFields(o, d) == CASE o.op = "literal" -> <<>>
                         [] o.op = "fixed" -> <<Field(d, o.arg)>>
                         [] o.op = "vbr" -> Vbr(d, o.arg)
                         [] o.op = "char6" -> <<Field(encode_char6(d), 6)>>

HasArray(a) == \E i \in DOMAIN a : a[i].op = "array"

(* The first value of data is the code of the record.                      *)
emit_record_abbrev(m, abbrev, a, data) ==
    LET scalars == IF HasArray(a) THEN Len(a) - 2 ELSE Len(a)
        packed == [i \in DOMAIN data |->
                     OperandFields(a[IF i <= scalars THEN i ELSE Len(a)], data[i])]
        count == IF HasArray(a) THEN Vbr(Len(data) - scalars, 6) ELSE <<>>
    IN  Asked(EmitAll(m, AbbrevId(m, abbrev)
                            \o FlattenSeq(SubSeq(packed, 1, scalars)) \o count
                            \o FlattenSeq(SubSeq(packed, scalars + 1, Len(data)))),
              [code |-> Head(data), data |-> Tail(data)])

OpNumber == [fixed |-> 1, vbr |-> 2, array |-> 3, char6 |-> 4]

define_abbrev(m, a) ==
    LET operand(o) ==
            CASE o.op = "literal" -> <<Field(1, 1)>> \o Vbr(o.arg, 8)
              [] o.op \in {"fixed", "vbr"} ->
                    <<Field(0, 1), Field(OpNumber[o.op], 3)>> \o Vbr(o.arg, 5)
              [] o.op \in {"array", "char6"} ->
                    <<Field(0, 1), Field(OpNumber[o.op], 3)>>
    IN  EmitAll(m, AbbrevId(m, DEFINE_ABBREV) \o Vbr(Len(a), 5)
                      \o FlattenSeq([i \in DOMAIN a |-> operand(a[i])]))

(* One call per element of a list, in order, with an operator of the       *)
(* stream so far and the element                                           *)
EmitEach(Emit(_, _), m, list) ==
    LET emit[i \in 0..Len(list)] ==
            IF i = 0 THEN m ELSE Emit(emit[i - 1], list[i])
    IN  emit[Len(list)]

define_abbrevs(m, table) == EmitEach(define_abbrev, m, table)
=============================================================================
