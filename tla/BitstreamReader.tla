--------------------------- MODULE BitstreamReader ---------------------------
(***************************************************************************)
(* How a consumer reads the module: the LLVM bitstream format, which the   *)
(* code refers to for its abbreviation ids.  The reader knows nothing of   *)
(* the writer's tables: it learns abbreviations from the stream.           *)
(*                                                                         *)
(* The stream is a sequence of fields [value, width, at].  The reader asks *)
(* for the next w bits and goes wrong when the writer put a field of       *)
(* another width there, or a value that needs more bits than its field.    *)
(***************************************************************************)
EXTENDS Integers, Sequences, SequencesExt

LOCAL BLOCKINFO == 0
LOCAL SETBID == 1

(* A reader: the stream, the next field, the value just read, whether it   *)
(* went wrong, the open blocks, the abbreviations BLOCKINFO gave to each   *)
(* kind of block, the one it is about, and what was read.                  *)
Start(fields) ==
    [fields |-> fields, pos |-> 1, value |-> 0, bad |-> FALSE,
     open |-> <<[id |-> -1, width |-> 2, abbrevs |-> <<>>, end |-> -1]>>,
     info |-> [id \in 0..20 |-> <<>>], about |-> 20, read |-> <<>>]

AtEnd(r) == r.pos > Len(r.fields)
Here(r) == IF AtEnd(r) THEN -1 ELSE r.fields[r.pos].at

Wrong(r) == [r EXCEPT !.bad = TRUE, !.value = 0]

Fits(f) == f.value >= 0 /\ (f.width <= 30 => f.value < 2^f.width)

Take(r, width) ==
    IF r.bad \/ AtEnd(r) \/ r.fields[r.pos].width # width
             \/ ~ Fits(r.fields[r.pos]) THEN Wrong(r)
    ELSE [r EXCEPT !.value = r.fields[r.pos].value, !.pos = @ + 1]

RECURSIVE TakeVbr(_, _)
TakeVbr(r, width) ==
    LET tag == 2^(width - 1)
        first == Take(r, width)
        rest == TakeVbr(first, width)
    IN  IF first.bad \/ first.value < tag THEN first
        ELSE [rest EXCEPT !.value = @ * tag + (first.value - tag)]

(* To the next word boundary, over zeros                                   *)
SkipToWord(r) ==
    IF r.bad \/ AtEnd(r) \/ Here(r) % 32 = 0 THEN r
    ELSE LET p == Take(r, 32 - (Here(r) % 32))
         IN  IF p.value = 0 THEN p ELSE Wrong(p)

DecodeChar6(v) == IF v < 26 THEN 97 + v
                  ELSE IF v < 52 THEN 65 + v - 26
                  ELSE IF v < 62 THEN 48 + v - 52
                  ELSE IF v = 62 THEN 46 ELSE 95

TakeOperand(r, o) ==
    CASE o.op = "literal" -> [r EXCEPT !.value = o.arg]
      [] o.op = "fixed" -> Take(r, o.arg)
      [] o.op = "vbr" -> TakeVbr(r, o.arg)
      [] o.op = "char6" -> LET c == Take(r, 6)
                           IN  [c EXCEPT !.value = DecodeChar6(@)]
      [] OTHER -> Wrong(r)

(* The values of a list of operands: a pair of reader and values           *)
TakeAll(r, os) ==
    LET take[i \in 0..Len(os)] ==
            IF i = 0 THEN [r |-> r, values |-> <<>>]
            ELSE LET before == take[i - 1]
                     q == TakeOperand(before.r, os[i])
                 IN  [r |-> q, values |-> Append(before.values, q.value)]
    IN  take[Len(os)]

Rep(n, x) == [i \in 1..n |-> x]

Vbr6 == [op |-> "vbr", arg |-> 6]

(* The record read last, in a block of BLOCKINFO possibly about a new block *)
Got(r, values) ==
    IF r.bad \/ values = <<>> THEN Wrong(r)
    ELSE IF Last(r.open).id = BLOCKINFO /\ Head(values) = SETBID
    THEN [r EXCEPT !.about = values[2],
                   !.read = Append(@, [code |-> SETBID, data |-> Tail(values)])]
    ELSE [r EXCEPT !.read = Append(@, [code |-> Head(values),
                                       data |-> Tail(values)])]

ReadUnabbreviated(r) ==
    LET code == TakeVbr(r, 6)
        count == TakeVbr(code, 6)
        ops == TakeAll(count, Rep(count.value, Vbr6))
    IN  Got(ops.r, <<code.value>> \o ops.values)

ReadAbbreviated(r, id) ==
    LET abbrevs == Last(r.open).abbrevs
        a == abbrevs[id - 3]
        array == \E i \in DOMAIN a : a[i].op = "array"
        scalars == TakeAll(r, IF array THEN SubSeq(a, 1, Len(a) - 2) ELSE a)
        count == TakeVbr(scalars.r, 6)
        elems == TakeAll(count, Rep(count.value, Last(a)))
    IN  IF id - 3 > Len(abbrevs) THEN Wrong(r)
        ELSE IF array THEN Got(elems.r, scalars.values \o elems.values)
        ELSE Got(scalars.r, scalars.values)

OpName == <<"fixed", "vbr", "array", "char6">>

(* One operand of a definition: the reader and the operands so far         *)
DefineOperand(d) ==
    LET flag == Take(d.r, 1)
        literal == TakeVbr(flag, 8)
        kind == Take(flag, 3)
        width == TakeVbr(kind, 5)
        Add(r, o) == [r |-> r, ops |-> Append(d.ops, o)]
    IN  IF flag.bad THEN [d EXCEPT !.r = flag]
        ELSE IF flag.value = 1 THEN Add(literal, [op |-> "literal", arg |-> literal.value])
        ELSE IF kind.bad \/ kind.value \notin 1..4 THEN [d EXCEPT !.r = Wrong(kind)]
        ELSE IF kind.value <= 2
             THEN Add(width, [op |-> OpName[kind.value], arg |-> width.value])
             ELSE Add(kind, [op |-> OpName[kind.value], arg |-> 0])

ReadDefinition(r) ==
    LET count == TakeVbr(r, 5)
        define[i \in 0..count.value] ==
            IF i = 0 THEN [r |-> count, ops |-> <<>>]
            ELSE DefineOperand(define[i - 1])
        d == define[count.value]
    IN  IF d.r.bad THEN d.r
        ELSE IF Last(r.open).id = BLOCKINFO
        THEN [d.r EXCEPT !.info[d.r.about] = Append(@, d.ops)]
        ELSE [d.r EXCEPT !.open[Len(r.open)].abbrevs = Append(@, d.ops)]

(* A block ends where its length word says.                                *)
ReadEnter(r) ==
    LET id == TakeVbr(r, 8)
        width == TakeVbr(id, 4)
        length == Take(SkipToWord(width), 32)
    IN  IF length.bad \/ id.value \notin DOMAIN r.info THEN Wrong(length)
        ELSE [length EXCEPT
                !.open = Append(@, [id |-> id.value, width |-> width.value,
                                    abbrevs |-> r.info[id.value],
                                    end |-> Here(length) + 32 * length.value]),
                !.read = Append(@, [enter |-> id.value])]

ReadEnd(r) ==
    LET last == r.fields[Len(r.fields)]
        s == SkipToWord(r)
        here == IF AtEnd(s) THEN last.at + last.width ELSE Here(s)
    IN  IF s.bad \/ here # Last(r.open).end THEN Wrong(s)
        ELSE [s EXCEPT !.open = Front(@), !.read = Append(@, [exit |-> TRUE])]

ReadItem(r) ==
    LET id == Take(r, Last(r.open).width)
    IN  CASE id.bad -> id
          [] ~ id.bad /\ id.value = 0 -> ReadEnd(id)
          [] ~ id.bad /\ id.value = 1 -> ReadEnter(id)
          [] ~ id.bad /\ id.value = 2 -> ReadDefinition(id)
          [] ~ id.bad /\ id.value = 3 -> ReadUnabbreviated(id)
          [] ~ id.bad /\ id.value > 3 -> ReadAbbreviated(id, id.value)
          [] OTHER -> Wrong(id)

RECURSIVE ReadItems(_)
ReadItems(r) == IF r.bad \/ AtEnd(r) \/ r.open = <<>> THEN r
                ELSE ReadItems(ReadItem(r))

(* The magic number, then the items                                        *)
ReadModule(fields) ==
    LET magic == TakeAll(Start(fields), Rep(4, [op |-> "fixed", arg |-> 8]))
    IN  IF magic.values # <<66, 67, 192, 222>> THEN Wrong(magic.r)
        ELSE ReadItems(magic.r)
=============================================================================
