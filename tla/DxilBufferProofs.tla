--------------------------- MODULE DxilBufferProofs ---------------------------
(***************************************************************************)
(* For every sequence of calls and every amount of memory: the blob and    *)
(* the accumulator together hold exactly the bits that were emitted.       *)
(***************************************************************************)
EXTENDS DxilBuffer, SequenceTheorems, TLAPS

(* The two outcomes of flush_dword on a buffer with a full word pending.   *)
LEMMA FlushResult ==
    ASSUME NEW c \in Buffer, c.ok, c.buf_bits \in 32..63
    PROVE  LET d == flush_dword(c)
           IN  \/ /\ d = [c EXCEPT !.blob = Append(@, LowerWord(c.buf)),
                                   !.buf = ShiftRight32(@),
                                   !.buf_bits = @ - 32]
                  /\ Len(c.blob) < c.limit
               \/ /\ d = [c EXCEPT !.out_of_memory = TRUE, !.ok = FALSE]
                  /\ c.out_of_memory \/ Len(c.blob) >= c.limit
<1>1. CASE grow_to_fit(c)
    BY <1>1 DEF flush_dword, blob_write_word, grow_to_fit, Buffer
<1>2. CASE ~ grow_to_fit(c)
    <2>1. Len(c.blob) \in Nat /\ c.limit \in Nat
        BY DEF Buffer
    <2> QED
        BY <1>2, <2>1 DEF flush_dword, blob_write_word, grow_to_fit, Buffer
<1> QED
    BY <1>1, <1>2

LEMMA WordTyped ==
    ASSUME NEW buf \in Accumulator
    PROVE  LowerWord(buf) \in Word /\ ShiftRight32(buf) \in Accumulator
<1>1. LowerWord(buf) \in Word
    <2>1. \A i \in 0..31 : buf[i] \in Bit
        BY DEF Accumulator
    <2> QED
        BY <2>1 DEF LowerWord, Word
<1>2. ShiftRight32(buf) \in Accumulator
    <2>1. \A i \in 0..63 : (IF i < 32 THEN buf[i + 32] ELSE 0) \in Bit
        BY DEF Accumulator, Bit
    <2> QED
        BY <2>1 DEF ShiftRight32, Accumulator
<1> QED
    BY <1>1, <1>2

LEMMA FlushTyped ==
    ASSUME NEW c \in Buffer, c.ok, c.buf_bits \in 32..63
    PROVE  flush_dword(c) \in Buffer
<1>1. LowerWord(c.buf) \in Word /\ ShiftRight32(c.buf) \in Accumulator
    BY WordTyped DEF Buffer
<1>2. Append(c.blob, LowerWord(c.buf)) \in Seq(Word)
    BY <1>1 DEF Buffer
<1>3. c.buf_bits - 32 \in 0..63
    OBVIOUS
<1>4. CASE flush_dword(c) = [c EXCEPT !.blob = Append(@, LowerWord(c.buf)),
                                      !.buf = ShiftRight32(@),
                                      !.buf_bits = @ - 32]
    BY <1>1, <1>2, <1>3, <1>4 DEF Buffer
<1>5. CASE flush_dword(c) = [c EXCEPT !.out_of_memory = TRUE, !.ok = FALSE]
    BY <1>5 DEF Buffer
<1> QED
    BY <1>4, <1>5, FlushResult

(* The words blob and the n pending bits of buf hold stream s; there may   *)
(* be more than a word pending.                                            *)
Holds(blob, buf, n, s) ==
    /\ Len(s) = 32 * Len(blob) + n
    /\ \A k \in 1..Len(blob), j \in 0..31 : s[32 * (k - 1) + j + 1] = blob[k][j]
    /\ \A j \in 0..63 : j < n => s[32 * Len(blob) + j + 1] = buf[j]
    /\ \A j \in 0..63 : j >= n => buf[j] = 0

(* Flushing moves the lowest word to the blob and changes nothing else of  *)
(* the stream.                                                             *)
LEMMA FlushHolds ==
    ASSUME NEW blob \in Seq(Word), NEW buf \in Accumulator, NEW n \in 32..63,
           NEW s \in Seq(Bit), Holds(blob, buf, n, s)
    PROVE  Holds(Append(blob, LowerWord(buf)), ShiftRight32(buf), n - 32, s)
<1> DEFINE w == LowerWord(buf)
           d == Append(blob, w)
           e == ShiftRight32(buf)
<1>h1. Len(s) = 32 * Len(blob) + n
    BY Zenon DEF Holds
<1>h2. \A k \in 1..Len(blob), j \in 0..31 : s[32 * (k - 1) + j + 1] = blob[k][j]
    BY Zenon DEF Holds
<1>h3. \A j \in 0..63 : j < n => s[32 * Len(blob) + j + 1] = buf[j]
    BY Zenon DEF Holds
<1>h4. \A j \in 0..63 : j >= n => buf[j] = 0
    BY Zenon DEF Holds
<1>h5. Len(blob) \in Nat
    OBVIOUS
<1>1. w \in Word
    BY WordTyped
<1>2. \A j \in 0..31 : w[j] = buf[j]
    BY DEF LowerWord
<1>3. \A j \in 0..63 : e[j] = IF j < 32 THEN buf[j + 32] ELSE 0
    BY DEF ShiftRight32
<1> HIDE DEF w, e
<1>4. Len(d) = Len(blob) + 1
    BY <1>1
<1>4a. \A k \in 1..Len(blob) : d[k] = blob[k]
    BY <1>1
<1>4b. d[Len(blob) + 1] = w
    BY <1>1
<1> HIDE DEF d
<1>5. Len(s) = 32 * Len(d) + (n - 32)
    BY <1>4, <1>h1, <1>h5
<1>6. ASSUME NEW k \in 1..Len(d), NEW j \in 0..31
      PROVE  s[32 * (k - 1) + j + 1] = d[k][j]
    <2>1. CASE k \in 1..Len(blob)
        BY <2>1, <1>4a, <1>h2
    <2>2. CASE k = Len(blob) + 1
        <3>0. j \in 0..63 /\ j < n
            OBVIOUS
        <3>1. s[32 * Len(blob) + j + 1] = buf[j]
            BY <3>0, <1>h3
        <3>2. k - 1 = Len(blob)
            BY <2>2, <1>h5
        <3> QED
            BY <3>1, <3>2, <2>2, <1>4b, <1>2
    <2> QED
        BY <2>1, <2>2, <1>4, <1>h5
<1>7. ASSUME NEW j \in 0..63, j < n - 32
      PROVE  s[32 * Len(d) + j + 1] = e[j]
    <2>1. j + 32 \in 0..63 /\ j + 32 < n /\ j < 32
        BY <1>7
    <2>2. s[32 * Len(blob) + (j + 32) + 1] = buf[j + 32]
        BY <2>1, <1>h3
    <2>3. 32 * Len(d) + j + 1 = 32 * Len(blob) + (j + 32) + 1
        BY <1>4, <1>h5
    <2> QED
        BY <2>1, <2>2, <2>3, <1>3
<1>8. ASSUME NEW j \in 0..63, j >= n - 32
      PROVE  e[j] = 0
    <2>1. j < 32 => j + 32 \in 0..63 /\ j + 32 >= n
        BY <1>8
    <2> QED
        BY <2>1, <1>3, <1>h4
<1> QED
    BY <1>5, <1>6, <1>7, <1>8 DEF Holds, d, e, w

(* Or-ing the data above the pending bits appends it to the stream.        *)
LEMMA OrHolds ==
    ASSUME NEW blob \in Seq(Word), NEW buf \in Accumulator, NEW n \in 0..31,
           NEW s \in Seq(Bit), Holds(blob, buf, n, s),
           NEW data, NEW width, Legal(data, width)
    PROVE  /\ OrShifted(buf, data, n) \in Accumulator
           /\ s \o Bits(data, width) \in Seq(Bit)
           /\ Holds(blob, OrShifted(buf, data, n), n + width,
                    s \o Bits(data, width))
<1> DEFINE o == OrShifted(buf, data, n)
           x == Bits(data, width)
           r == s \o x
<1> /\ data \in Word /\ width \in 1..32
    /\ \A i \in 0..31 : i >= width => data[i] = 0
    BY DEF Legal
<1>h1. Len(s) = 32 * Len(blob) + n
    BY Zenon DEF Holds
<1>h2. \A k \in 1..Len(blob), j \in 0..31 : s[32 * (k - 1) + j + 1] = blob[k][j]
    BY Zenon DEF Holds
<1>h3. \A j \in 0..63 : j < n => s[32 * Len(blob) + j + 1] = buf[j]
    BY Zenon DEF Holds
<1>h4. \A j \in 0..63 : j >= n => buf[j] = 0
    BY Zenon DEF Holds
<1>h5. Len(blob) \in Nat
    OBVIOUS
<1>3. \A i \in 0..31 : data[i] \in Bit
    BY DEF Word
<1>4. \A i \in 0..63 : o[i] = IF i >= n /\ i - n < 32 /\ data[i - n] = 1
                              THEN 1 ELSE buf[i]
    BY DEF OrShifted
<1>5. o \in Accumulator
    <2>1. \A i \in 0..63 : o[i] \in Bit
        BY <1>4 DEF Accumulator, Bit
    <2> QED
        BY <2>1 DEF OrShifted, Accumulator
<1>8. x \in Seq(Bit) /\ Len(x) = width /\ \A i \in 1..width : x[i] = data[i - 1]
    <2>1. \A i \in 1..width : data[i - 1] \in Bit
        <3> SUFFICES ASSUME NEW i \in 1..width PROVE data[i - 1] \in Bit
            OBVIOUS
        <3>1. i - 1 \in 0..31
            OBVIOUS
        <3> QED
            BY <3>1, <1>3
    <2> QED
        BY <2>1 DEF Bits
<1> HIDE DEF o, x
<1>9. r \in Seq(Bit) /\ Len(r) = Len(s) + width
    <2>1. r \in Seq(Bit) /\ Len(r) = Len(s) + Len(x)
        BY <1>8, ConcatProperties
    <2> QED
        BY <2>1, <1>8
<1>9a. \A i \in 1..Len(s) : r[i] = s[i]
    BY <1>8
<1>9b. \A i \in 1..width : r[Len(s) + i] = data[i - 1]
    <2> SUFFICES ASSUME NEW i \in 1..width PROVE r[Len(s) + i] = data[i - 1]
        OBVIOUS
    <2>1. r[Len(s) + i] = x[i]
        BY <1>8
    <2> QED
        BY <2>1, <1>8
<1> HIDE DEF r
<1>11. Len(r) = 32 * Len(blob) + (n + width)
    BY <1>9, <1>h1, <1>h5
<1>12. ASSUME NEW k \in 1..Len(blob), NEW j \in 0..31
       PROVE  r[32 * (k - 1) + j + 1] = blob[k][j]
    <2>1. 32 * (k - 1) + j + 1 \in 1..Len(s)
        BY <1>h1, <1>h5
    <2>2. s[32 * (k - 1) + j + 1] = blob[k][j]
        BY <1>h2
    <2> QED
        BY <2>1, <2>2, <1>9a
<1>13. ASSUME NEW j \in 0..63, j < n + width
       PROVE  r[32 * Len(blob) + j + 1] = o[j]
    <2>1. CASE j < n
        <3>1. s[32 * Len(blob) + j + 1] = buf[j]
            BY <2>1, <1>h3
        <3>2. 32 * Len(blob) + j + 1 \in 1..Len(s)
            BY <2>1, <1>h1, <1>h5
        <3>3. o[j] = buf[j]
            <4>1. o[j] = IF j >= n /\ j - n < 32 /\ data[j - n] = 1
                         THEN 1 ELSE buf[j]
                BY <1>4
            <4>2. ~ (j >= n)
                BY <2>1
            <4> QED
                BY <4>1, <4>2
        <3> QED
            BY <3>1, <3>2, <3>3, <1>9a
    <2>2. CASE j >= n
        <3>1. j - n + 1 \in 1..width /\ j - n \in 0..31
            BY <2>2, <1>13
        <3>2. r[Len(s) + (j - n + 1)] = data[j - n]
            <4>1. (j - n + 1) - 1 = j - n
                OBVIOUS
            <4> QED
                BY <3>1, <4>1, <1>9b
        <3>3. Len(s) + (j - n + 1) = 32 * Len(blob) + j + 1
            BY <1>h1, <1>h5
        <3>4. data[j - n] = 0 \/ data[j - n] = 1
            BY <3>1, <1>3 DEF Bit
        <3>5. o[j] = data[j - n]
            <4>1. buf[j] = 0
                BY <2>2, <1>h4
            <4>2. o[j] = IF j >= n /\ j - n < 32 /\ data[j - n] = 1
                         THEN 1 ELSE buf[j]
                BY <1>4
            <4>3. j - n < 32
                BY <3>1
            <4> QED
                BY <2>2, <3>4, <4>1, <4>2, <4>3
        <3> QED
            BY <3>2, <3>3, <3>5
    <2> QED
        BY <2>1, <2>2
<1>14. ASSUME NEW i \in 0..63, i >= n + width
       PROVE  o[i] = 0
    <2>0. i >= n
        <3>1. \A p \in 0..63, q \in 0..31, v \in 1..32 : p >= q + v => p >= q
            BY Z3
        <3> QED
            BY <1>14, <3>1
    <2>1. i >= n /\ buf[i] = 0
        BY <2>0, <1>h4
    <2>2. ~ (i - n < 32 /\ data[i - n] = 1)
        <3> SUFFICES ASSUME i - n < 32 PROVE data[i - n] = 0
            OBVIOUS
        <3>1. i - n \in 0..31
            BY <2>1
        <3>2. i - n >= width
            BY <1>14
        <3> QED
            BY <3>1, <3>2
    <2> QED
        BY <2>1, <2>2, <1>4
<1> QED
    BY <1>5, <1>9, <1>11, <1>12, <1>13, <1>14 DEF Holds, o, r, x

(* Raising buf_bits to 32 appends the zeros above the pending bits.        *)
LEMMA PadHolds ==
    ASSUME NEW blob \in Seq(Word), NEW buf \in Accumulator, NEW n \in 1..31,
           NEW s \in Seq(Bit), Holds(blob, buf, n, s)
    PROVE  /\ s \o Padding(n) \in Seq(Bit)
           /\ Holds(blob, buf, 32, s \o Padding(n))
<1> DEFINE x == Padding(n)
           r == s \o x
<1>h1. Len(s) = 32 * Len(blob) + n
    BY Zenon DEF Holds
<1>h2. \A k \in 1..Len(blob), j \in 0..31 : s[32 * (k - 1) + j + 1] = blob[k][j]
    BY Zenon DEF Holds
<1>h3. \A j \in 0..63 : j < n => s[32 * Len(blob) + j + 1] = buf[j]
    BY Zenon DEF Holds
<1>h4. \A j \in 0..63 : j >= n => buf[j] = 0
    BY Zenon DEF Holds
<1>h5. Len(blob) \in Nat
    OBVIOUS
<1>3. x \in Seq(Bit) /\ Len(x) = 32 - n /\ \A i \in 1..(32 - n) : x[i] = 0
    <2>1. x = [i \in 1..(32 - n) |-> 0]
        BY DEF Padding
    <2>2. 32 - n \in Nat
        OBVIOUS
    <2>3. 0 \in Bit
        BY DEF Bit
    <2> HIDE DEF x
    <2> QED
        BY <2>1, <2>2, <2>3
<1> HIDE DEF x
<1>4. r \in Seq(Bit) /\ Len(r) = Len(s) + (32 - n)
    BY <1>3
<1>4a. \A i \in 1..Len(s) : r[i] = s[i]
    BY <1>3
<1>4b. \A i \in 1..(32 - n) : r[Len(s) + i] = 0
    <2> SUFFICES ASSUME NEW i \in 1..(32 - n) PROVE r[Len(s) + i] = 0
        OBVIOUS
    <2>1. r[Len(s) + i] = x[i]
        BY <1>3
    <2> QED
        BY <2>1, <1>3
<1> HIDE DEF r
<1>6. ASSUME NEW k \in 1..Len(blob), NEW j \in 0..31
      PROVE  r[32 * (k - 1) + j + 1] = blob[k][j]
    <2>1. 32 * (k - 1) + j + 1 \in 1..Len(s)
        BY <1>h1, <1>h5
    <2>2. s[32 * (k - 1) + j + 1] = blob[k][j]
        BY <1>h2
    <2> QED
        BY <2>1, <2>2, <1>4a
<1>7. ASSUME NEW j \in 0..63, j < 32
      PROVE  r[32 * Len(blob) + j + 1] = buf[j]
    <2>1. CASE j < n
        <3>1. s[32 * Len(blob) + j + 1] = buf[j]
            BY <2>1, <1>h3
        <3>2. 32 * Len(blob) + j + 1 \in 1..Len(s)
            BY <2>1, <1>h1, <1>h5
        <3> QED
            BY <3>1, <3>2, <1>4a
    <2>2. CASE j >= n
        <3>1. j - n + 1 \in 1..(32 - n)
            BY <2>2, <1>7
        <3>2. Len(s) + (j - n + 1) = 32 * Len(blob) + j + 1
            BY <1>h1, <1>h5
        <3>3. buf[j] = 0
            BY <2>2, <1>h4
        <3> QED
            BY <3>1, <3>2, <3>3, <1>4b
    <2> QED
        BY <2>1, <2>2
<1>8. ASSUME NEW j \in 0..63, j >= 32 PROVE buf[j] = 0
    <2>1. j >= n
        BY <1>8
    <2> QED
        BY <2>1, <1>h4
<1>9. Len(r) = 32 * Len(blob) + 32
    BY <1>4, <1>h1, <1>h5
<1> QED
    BY <1>4, <1>6, <1>7, <1>8, <1>9 DEF Holds, r, x

(* The invariant of a buffer in use, in terms of Holds.                    *)
InUse(c, s) == /\ c \in Buffer
               /\ s \in Seq(Bit)
               /\ c.ok => /\ c.buf_bits \in 0..31
                          /\ Holds(c.blob, c.buf, c.buf_bits, s)

LEMMA InUseIsInv == InUse(b, stream) <=> BufferInv
<1>1. ASSUME InUse(b, stream) PROVE BufferInv
    <2>1. TypeOK
        BY <1>1 DEF InUse, TypeOK
    <2>2. ASSUME b.ok
          PROVE  /\ b.buf_bits < 32
                 /\ \A i \in 0..63 : i >= b.buf_bits => b.buf[i] = 0
                 /\ Len(stream) = 32 * Len(b.blob) + b.buf_bits
                 /\ \A k \in 1..Len(b.blob), j \in 0..31 :
                       stream[32 * (k - 1) + j + 1] = b.blob[k][j]
                 /\ \A j \in 0..63 : j < b.buf_bits =>
                       stream[32 * Len(b.blob) + j + 1] = b.buf[j]
        <3>1. b.buf_bits \in 0..31 /\ Holds(b.blob, b.buf, b.buf_bits, stream)
            BY <1>1, <2>2 DEF InUse
        <3>2. b.buf_bits < 32
            BY <3>1
        <3> QED
            BY <3>1, <3>2, Zenon DEF Holds
    <2>3. \A j \in 0..31 : j \in 0..63
        OBVIOUS
    <2> QED
        BY <2>1, <2>2, <2>3, Zenon DEF BufferInv, ReadyForCall, HoldsStream
<1>2. ASSUME BufferInv PROVE InUse(b, stream)
    <2>1. b \in Buffer /\ stream \in Seq(Bit)
        BY <1>2 DEF BufferInv, TypeOK
    <2>2. ASSUME b.ok
          PROVE  /\ b.buf_bits \in 0..31
                 /\ Holds(b.blob, b.buf, b.buf_bits, stream)
        <3>0. /\ b.buf_bits < 32
              /\ \A i \in 0..63 : i >= b.buf_bits => b.buf[i] = 0
              /\ Len(stream) = 32 * Len(b.blob) + b.buf_bits
              /\ \A k \in 1..Len(b.blob), j \in 0..31 :
                    stream[32 * (k - 1) + j + 1] = b.blob[k][j]
              /\ \A j \in 0..31 : j < b.buf_bits =>
                    stream[32 * Len(b.blob) + j + 1] = b.buf[j]
            BY <1>2, <2>2, Zenon DEF BufferInv, ReadyForCall, HoldsStream
        <3>1. b.buf_bits \in 0..31
            <4>1. b.buf_bits \in 0..63
                BY <2>1 DEF Buffer
            <4>2. b.buf_bits < 32
                BY <3>0
            <4> QED
                BY <4>1, <4>2
        <3>2. \A j \in 0..63 : j < b.buf_bits => j \in 0..31
            BY <3>1
        <3> QED
            BY <3>0, <3>1, <3>2, Zenon DEF Holds
    <2> QED
        BY <2>1, <2>2 DEF InUse
<1> QED
    BY <1>1, <1>2

(* Flushing a buffer with a word or more pending: either the stream is     *)
(* kept, or memory has run out and the blob is as it was.                  *)
LEMMA FlushStep ==
    ASSUME NEW c \in Buffer, c.ok, c.buf_bits \in 32..63, NEW s \in Seq(Bit),
           Holds(c.blob, c.buf, c.buf_bits, s)
    PROVE  InUse(flush_dword(c), s)
<1> DEFINE d == flush_dword(c)
<1>1. d \in Buffer
    BY FlushTyped
<1>2. CASE d = [c EXCEPT !.blob = Append(@, LowerWord(c.buf)),
                         !.buf = ShiftRight32(@),
                         !.buf_bits = @ - 32]
    <2>1. /\ d.blob = Append(c.blob, LowerWord(c.buf))
          /\ d.buf = ShiftRight32(c.buf)
          /\ d.buf_bits = c.buf_bits - 32
        BY <1>2 DEF Buffer
    <2>2. c.blob \in Seq(Word) /\ c.buf \in Accumulator
        BY DEF Buffer
    <2>3. Holds(Append(c.blob, LowerWord(c.buf)), ShiftRight32(c.buf),
                c.buf_bits - 32, s)
        BY <2>2, FlushHolds
    <2>4. c.buf_bits - 32 \in 0..31
        OBVIOUS
    <2> QED
        BY <1>1, <2>1, <2>3, <2>4 DEF InUse
<1>3. CASE d = [c EXCEPT !.out_of_memory = TRUE, !.ok = FALSE]
    <2>1. ~ d.ok
        BY <1>3 DEF Buffer
    <2> QED
        BY <1>1, <2>1 DEF InUse
<1> QED
    BY <1>2, <1>3, FlushResult

LEMMA EmitStep ==
    ASSUME NEW c, NEW s, InUse(c, s), c.ok,
           NEW data, NEW width, Legal(data, width)
    PROVE  InUse(dxil_buffer_emit_bits(c, data, width), s \o Bits(data, width))
<1> DEFINE e == [c EXCEPT !.buf = OrShifted(@, data, c.buf_bits),
                          !.buf_bits = @ + width]
           r == s \o Bits(data, width)
<1>1. width \in 1..32
    BY DEF Legal
<1>2. /\ c \in Buffer /\ s \in Seq(Bit) /\ c.buf_bits \in 0..31
      /\ Holds(c.blob, c.buf, c.buf_bits, s)
    BY DEF InUse
<1>3. c.blob \in Seq(Word) /\ c.buf \in Accumulator
    BY <1>2 DEF Buffer
<1> HIDE DEF e
<1>4. /\ OrShifted(c.buf, data, c.buf_bits) \in Accumulator
      /\ r \in Seq(Bit)
      /\ Holds(c.blob, OrShifted(c.buf, data, c.buf_bits),
               c.buf_bits + width, r)
    BY <1>2, <1>3, OrHolds, Zenon
<1>5. c.buf_bits + width \in 0..63
    <2>1. c.buf_bits \in 0..31 /\ width \in 1..32
        BY <1>1, <1>2
    <2> QED
        BY <2>1
<1>6. /\ e \in Buffer /\ e.ok
      /\ e.blob = c.blob /\ e.buf = OrShifted(c.buf, data, c.buf_bits)
      /\ e.buf_bits = c.buf_bits + width
    BY <1>2, <1>4, <1>5 DEF Buffer, e
<1>7. dxil_buffer_emit_bits(c, data, width) =
         IF e.buf_bits >= 32 THEN flush_dword(e) ELSE e
    BY DEF dxil_buffer_emit_bits, e
<1> HIDE DEF r
<1>8. CASE e.buf_bits >= 32
    <2>1. e.buf_bits \in 32..63
        BY <1>5, <1>6, <1>8
    <2>2. InUse(flush_dword(e), r)
        BY <2>1, <1>4, <1>6, FlushStep
    <2> QED
        BY <1>7, <1>8, <2>2 DEF r
<1>9. CASE ~ (e.buf_bits >= 32)
    <2>1. e.buf_bits \in 0..31
        BY <1>5, <1>6, <1>9
    <2>2. InUse(e, r)
        BY <2>1, <1>4, <1>6 DEF InUse
    <2> QED
        BY <1>7, <1>9, <2>2 DEF r
<1> QED
    BY <1>8, <1>9

LEMMA AlignStep ==
    ASSUME NEW c, NEW s, InUse(c, s), c.ok
    PROVE  InUse(dxil_buffer_align(c), s \o Padding(c.buf_bits))
<1>1. /\ c \in Buffer /\ s \in Seq(Bit) /\ c.buf_bits \in 0..31
      /\ Holds(c.blob, c.buf, c.buf_bits, s)
    BY DEF InUse
<1>2. CASE c.buf_bits = 0
    <2>1. Padding(c.buf_bits) = <<>>
        BY <1>2 DEF Padding
    <2>2. s \o Padding(c.buf_bits) = s
        BY <1>1, <2>1, ConcatEmptySeq
    <2> QED
        BY <1>2, <2>2 DEF dxil_buffer_align
<1>3. CASE c.buf_bits # 0
    <2> DEFINE e == [c EXCEPT !.buf_bits = 32]
    <2>1. c.blob \in Seq(Word) /\ c.buf \in Accumulator /\ c.buf_bits \in 1..31
        BY <1>1, <1>3 DEF Buffer
    <2>2. /\ s \o Padding(c.buf_bits) \in Seq(Bit)
          /\ Holds(c.blob, c.buf, 32, s \o Padding(c.buf_bits))
        BY <1>1, <2>1, PadHolds
    <2>3. /\ e \in Buffer /\ e.ok /\ e.blob = c.blob /\ e.buf = c.buf
          /\ e.buf_bits = 32
        BY <1>1 DEF Buffer
    <2>4. 32 \in 32..63
        OBVIOUS
    <2>5. InUse(flush_dword(e), s \o Padding(c.buf_bits))
        BY <2>2, <2>3, <2>4, FlushStep
    <2> QED
        BY <1>3, <2>5 DEF dxil_buffer_align
<1> QED
    BY <1>2, <1>3

LEMMA InitInUse ==
    ASSUME NEW limit \in Nat
    PROVE  InUse(dxil_buffer_init(2, limit), <<>>)
<1> DEFINE c == dxil_buffer_init(2, limit)
<1>1. Zero \in Accumulator /\ \A j \in 0..63 : Zero[j] = 0
    BY DEF Zero, Accumulator, Bit
<1>2. c \in Buffer /\ c.blob = <<>> /\ c.buf = Zero /\ c.buf_bits = 0
    BY <1>1 DEF dxil_buffer_init, Buffer
<1>3. Holds(<<>>, Zero, 0, <<>>)
    BY <1>1 DEF Holds
<1> QED
    BY <1>2, <1>3 DEF InUse

(* dxil_buffer.c: whatever is emitted, in whatever widths, and wherever    *)
(* memory runs out, less than a word is pending between calls and blob and *)
(* accumulator hold exactly the emitted bits.                              *)
THEOREM BufferIsFaithful == Spec => []BufferInv
<1>1. Init => BufferInv
    <2> SUFFICES ASSUME Init PROVE InUse(b, stream)
        BY InUseIsInv
    <2> QED
        BY InitInUse, LimitsAreNumbers DEF Init
<1>2. BufferInv /\ [Next]_bufferVars => BufferInv'
    <2> SUFFICES ASSUME InUse(b, stream), [Next]_bufferVars
                 PROVE  InUse(b, stream)'
        BY InUseIsInv, PTL
    <2>1. CASE EmitBits
        <3>1. PICK in \in Inputs :
                 /\ b' = dxil_buffer_emit_bits(b, in[1], in[2])
                 /\ stream' = stream \o Bits(in[1], in[2])
            BY <2>1 DEF EmitBits
        <3>2. Legal(in[1], in[2])
            BY InputsAreLegal, Zenon
        <3>3. b.ok
            BY <2>1 DEF EmitBits
        <3>4. InUse(dxil_buffer_emit_bits(b, in[1], in[2]),
                    stream \o Bits(in[1], in[2]))
            BY <3>2, <3>3, EmitStep, Zenon
        <3> QED
            BY <3>1, <3>4, Zenon DEF InUse
    <2>2. CASE Align
        BY <2>2, AlignStep DEF Align
    <2>3. CASE UNCHANGED bufferVars
        BY <2>3 DEF bufferVars
    <2> QED
        BY <2>1, <2>2, <2>3 DEF Next
<1> QED
    BY <1>1, <1>2, PTL DEF Spec

(* dxil_buffer.c: the assertion at the head of every call holds, and no    *)
(* pending bit is where the next OR would corrupt it.                      *)
THEOREM CallsAreReady == Spec => []ReadyForCall
<1>1. BufferInv => ReadyForCall
    BY DEF BufferInv
<1> QED
    BY <1>1, BufferIsFaithful, PTL

(* dxil_buffer.c: no emitted bit is lost, reordered or overwritten.        *)
THEOREM StreamIsHeld == Spec => []HoldsStream
<1>1. BufferInv => HoldsStream
    BY DEF BufferInv
<1> QED
    BY <1>1, BufferIsFaithful, PTL

(* As long as no call has failed, memory has not run out.                  *)
InMemory(c) == c.ok => ~ c.out_of_memory /\ Len(c.blob) <= c.limit

(* A flush keeps this, or fails with the blob full and as it was.          *)
LEMMA FlushInMemory ==
    ASSUME NEW c \in Buffer, c.ok, c.buf_bits \in 32..63, InMemory(c)
    PROVE  /\ InMemory(flush_dword(c))
           /\ flush_dword(c).limit = c.limit
           /\ ~ flush_dword(c).ok =>
                 flush_dword(c).blob = c.blob /\ Len(c.blob) = c.limit
<1>1. c.blob \in Seq(Word) /\ Len(c.blob) \in Nat /\ c.limit \in Nat
    BY DEF Buffer
<1>2. CASE grow_to_fit(c)
    <2>1. LowerWord(c.buf) \in Word
        BY WordTyped DEF Buffer
    <2>2. Len(Append(c.blob, LowerWord(c.buf))) = Len(c.blob) + 1
        BY <1>1, <2>1
    <2>3. flush_dword(c) = [c EXCEPT !.blob = Append(@, LowerWord(c.buf)),
                                     !.buf = ShiftRight32(@),
                                     !.buf_bits = @ - 32]
        BY <1>2 DEF flush_dword, blob_write_word, Buffer
    <2>4. /\ flush_dword(c).ok = c.ok
          /\ flush_dword(c).out_of_memory = c.out_of_memory
          /\ flush_dword(c).limit = c.limit
          /\ flush_dword(c).blob = Append(c.blob, LowerWord(c.buf))
        BY <2>3 DEF Buffer
    <2> QED
        BY <1>1, <1>2, <2>2, <2>4 DEF InMemory, grow_to_fit
<1>3. CASE ~ grow_to_fit(c)
    <2>1. flush_dword(c) = [c EXCEPT !.out_of_memory = TRUE, !.ok = FALSE]
        BY <1>3 DEF flush_dword, blob_write_word, Buffer
    <2>2. ~ flush_dword(c).ok /\ flush_dword(c).blob = c.blob
          /\ flush_dword(c).limit = c.limit
        BY <2>1 DEF Buffer
    <2> QED
        BY <1>1, <1>3, <2>2 DEF InMemory, grow_to_fit
<1> QED
    BY <1>2, <1>3

(* The two calls of the interface, each made on a buffer in use.           *)
LEMMA CallInMemory ==
    ASSUME BufferInv, InMemory(b), Next
    PROVE  /\ InMemory(b')
           /\ b'.limit = b.limit
           /\ ~ b'.ok => b'.blob = b.blob /\ Len(b.blob) = b.limit
<1>1. b \in Buffer /\ b.ok /\ b.buf_bits \in 0..31
    <2>1. b.ok
        BY Zenon DEF Next, EmitBits, Align
    <2>2. b \in Buffer /\ b.buf_bits < 32
        BY <2>1, Zenon DEF BufferInv, TypeOK, ReadyForCall
    <2>3. b.buf_bits \in 0..63
        BY <2>2 DEF Buffer
    <2> QED
        BY <2>1, <2>2, <2>3
<1>2. CASE EmitBits
    <2>1. PICK in \in Inputs : b' = dxil_buffer_emit_bits(b, in[1], in[2])
        BY <1>2 DEF EmitBits
    <2> DEFINE d == in[1]
               w == in[2]
               c == [b EXCEPT !.buf = OrShifted(@, d, b.buf_bits),
                              !.buf_bits = @ + w]
    <2>2. Legal(d, w)
        BY InputsAreLegal, Zenon
    <2>3. OrShifted(b.buf, d, b.buf_bits) \in Accumulator
        <3>1. b.buf \in Accumulator
            BY <1>1 DEF Buffer
        <3> QED
            BY <3>1 DEF OrShifted, Accumulator, Bit
    <2>4. b.buf_bits + w \in 0..63
        BY <1>1, <2>2 DEF Legal
    <2> HIDE DEF d, w
    <2>5. /\ c \in Buffer /\ c.ok /\ c.blob = b.blob /\ c.limit = b.limit
          /\ c.out_of_memory = b.out_of_memory
          /\ c.buf_bits = b.buf_bits + w
        BY <1>1, <2>3, <2>4 DEF Buffer
    <2>6. InMemory(c)
        BY <2>5, <1>1 DEF InMemory
    <2>7. b' = IF c.buf_bits >= 32 THEN flush_dword(c) ELSE c
        BY <2>1 DEF dxil_buffer_emit_bits, d, w
    <2> HIDE DEF c
    <2>8. CASE c.buf_bits >= 32
        <3>1. c.buf_bits \in 32..63 /\ b' = flush_dword(c)
            BY <2>4, <2>5, <2>7, <2>8
        <3> QED
            BY <3>1, <2>5, <2>6, FlushInMemory
    <2>9. CASE ~ c.buf_bits >= 32
        BY <2>5, <2>6, <2>7, <2>9
    <2> QED
        BY <2>8, <2>9
<1>3. CASE Align
    <2> DEFINE c == [b EXCEPT !.buf_bits = 32]
    <2>1. /\ c \in Buffer /\ c.ok /\ c.blob = b.blob /\ c.limit = b.limit
          /\ c.out_of_memory = b.out_of_memory /\ c.buf_bits \in 32..63
        BY <1>1 DEF Buffer
    <2>2. InMemory(c)
        BY <2>1, <1>1 DEF InMemory
    <2>3. b' = IF b.buf_bits # 0 THEN flush_dword(c) ELSE b
        BY <1>3 DEF Align, dxil_buffer_align
    <2> HIDE DEF c
    <2>4. CASE b.buf_bits # 0
        <3>1. b' = flush_dword(c)
            BY <2>3, <2>4
        <3> QED
            BY <3>1, <2>1, <2>2, FlushInMemory
    <2>5. CASE b.buf_bits = 0
        BY <2>3, <2>5, <1>1
    <2> QED
        BY <2>4, <2>5
<1> QED
    BY <1>2, <1>3 DEF Next

(* dxil_buffer.c, blob.c: the first call that fails leaves the blob as it  *)
(* was, and it fails because memory for the next word has run out.         *)
THEOREM FailureIsClean == Spec => FailureKeepsBlob
<1>1. Init => InMemory(b)
    BY LimitsAreNumbers DEF Init, dxil_buffer_init, InMemory
<1>2. BufferInv /\ InMemory(b) /\ [Next]_bufferVars => InMemory(b)'
    BY CallInMemory DEF InMemory, bufferVars
<1>3. BufferInv /\ InMemory(b) /\ [Next]_bufferVars =>
         [b.ok /\ ~ b'.ok => b'.blob = b.blob /\ Len(b.blob) = b.limit]_bufferVars
    BY CallInMemory
<1> QED
    BY <1>1, <1>2, <1>3, BufferIsFaithful, PTL DEF Spec, FailureKeepsBlob
=============================================================================
