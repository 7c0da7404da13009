------------------------- MODULE DxilContainerProofs -------------------------
(***************************************************************************)
(* For every pipeline, validator and amount of memory: the sizes that the  *)
(* container announces are the sizes of what it writes, so that its parts  *)
(* tile the file, and no container is handed out that is not complete.     *)
(***************************************************************************)
EXTENDS DxilContainer, WellFoundedInduction, TLAPS
-----------------------------------------------------------------------------
(* Sums.                                                                   *)

LEMMA LeastNat ==
    ASSUME NEW T, T \subseteq Nat, T # {}
    PROVE  \E x \in T : \A y \in T : x <= y
<1>1. PICK x \in T : \A y \in T : ~ (<<y, x>> \in OpToRel(<, Nat))
    BY WFMin, NatLessThanWellFounded
<1>2. \A y \in T : ~ (y < x)
    BY <1>1, Zenon DEF OpToRel
<1> QED
    BY <1>2

(* A property of 0 .. n that goes from each number to the next.            *)
LEMMA Upwards ==
    ASSUME NEW n \in Nat, NEW T, T \subseteq 0 .. n,
           0 \in T,
           \A k \in 1 .. n : k - 1 \in T => k \in T
    PROVE  T = 0 .. n
<1> SUFFICES ASSUME (0 .. n) \ T # {} PROVE FALSE
    OBVIOUS
<1>1. PICK k \in (0 .. n) \ T : \A j \in (0 .. n) \ T : k <= j
    <2>1. (0 .. n) \ T \subseteq Nat
        OBVIOUS
    <2> QED
        BY <2>1, LeastNat
<1>2. k \in 1 .. n /\ k - 1 \in 0 .. n
    BY <1>1
<1>3. k - 1 \in T
    BY <1>1, <1>2
<1> QED
    BY <1>1, <1>2, <1>3

IsSum(f, n, s) == s = [i \in 0..n |-> IF i = 0 THEN 0 ELSE s[i-1] + f[i]]

LEMMA SumExists ==
    ASSUME NEW f, NEW n \in Nat
    PROVE  \E s : IsSum(f, n, s) /\ SumUpTo(f, n) = s[n]
<1> DEFINE T == {k \in 0 .. n : \E s : IsSum(f, k, s)}
<1>1. 0 \in T
    <2>1. IsSum(f, 0, [i \in 0..0 |-> 0])
        BY DEF IsSum
    <2> QED
        BY <2>1
<1>2. ASSUME NEW k \in 1 .. n, k - 1 \in T
      PROVE  k \in T
    <2>1. PICK s : IsSum(f, k - 1, s)
        BY <1>2
    <2> DEFINE t == [i \in 0..k |-> IF i = k THEN s[k-1] + f[k] ELSE s[i]]
    <2>2. IsSum(f, k, t)
        BY <2>1 DEF IsSum
    <2> QED
        BY <2>2
<1>3. T = 0 .. n
    <2> HIDE DEF T
    <2>1. T \subseteq 0 .. n
        BY DEF T
    <2> QED
        BY <1>1, <1>2, <2>1, Upwards
<1>4. \E s : IsSum(f, n, s)
    BY <1>3
<1> QED
    BY <1>4 DEF SumUpTo, IsSum

LEMMA SumIsUnique ==
    ASSUME NEW f, NEW g, NEW n \in Nat, NEW m \in 0 .. n,
           \A i \in 1 .. m : f[i] = g[i],
           NEW s, IsSum(f, m, s), NEW t, IsSum(g, n, t)
    PROVE  s[m] = t[m]
<1> DEFINE T == {k \in 0 .. m : s[k] = t[k]}
<1>1. 0 \in T
    BY DEF IsSum
<1>2. ASSUME NEW k \in 1 .. m, k - 1 \in T
      PROVE  k \in T
    BY <1>2 DEF IsSum
<1>3. T = 0 .. m
    <2> HIDE DEF T
    <2>1. T \subseteq 0 .. m /\ m \in Nat
        BY DEF T
    <2> QED
        BY <1>1, <1>2, <2>1, Upwards
<1> QED
    BY <1>3

(* The sum depends on the first n terms only, and has the usual steps.     *)
LEMMA SumAgrees ==
    ASSUME NEW f, NEW g, NEW n \in Nat, \A i \in 1 .. n : f[i] = g[i]
    PROVE  SumUpTo(f, n) = SumUpTo(g, n)
BY SumExists, SumIsUnique

LEMMA SumZero ==
    ASSUME NEW f
    PROVE  SumUpTo(f, 0) = 0
BY SumExists DEF IsSum

LEMMA SumStep ==
    ASSUME NEW f, NEW n \in Nat \ {0}
    PROVE  SumUpTo(f, n) = SumUpTo(f, n - 1) + f[n]
<1>1. n \in Nat /\ n - 1 \in Nat /\ n - 1 \in 0 .. n
    OBVIOUS
<1>2. PICK s : IsSum(f, n, s) /\ SumUpTo(f, n) = s[n]
    BY <1>1, SumExists
<1>3. PICK t : IsSum(f, n - 1, t) /\ SumUpTo(f, n - 1) = t[n - 1]
    BY <1>1, SumExists
<1>4. t[n - 1] = s[n - 1]
    <2> DEFINE m == n - 1
    <2>1. m \in 0 .. n /\ IsSum(f, m, t)
        BY <1>1, <1>3
    <2> HIDE DEF m
    <2>2. t[m] = s[m]
        BY SMTT(30), <1>1, <1>2, <2>1, SumIsUnique
    <2> QED
        BY <2>2 DEF m
<1> QED
    BY <1>2, <1>3, <1>4 DEF IsSum

LEMMA SumType ==
    ASSUME NEW n \in Nat, NEW f, \A i \in 1 .. n : f[i] \in Nat
    PROVE  SumUpTo(f, n) \in Nat
<1> DEFINE T == {k \in 0 .. n : SumUpTo(f, k) \in Nat}
<1>1. 0 \in T
    BY SumZero
<1>2. ASSUME NEW k \in 1 .. n, k - 1 \in T
      PROVE  k \in T
    <2>1. SumUpTo(f, k) = SumUpTo(f, k - 1) + f[k]
        BY SumStep
    <2> QED
        BY <1>2, <2>1
<1>3. T = 0 .. n
    <2> HIDE DEF T
    <2>1. T \subseteq 0 .. n
        BY DEF T
    <2> QED
        BY <1>1, <1>2, <2>1, Upwards
<1> QED
    BY <1>3

(* Terms m + 1 .. m + n are added to the sum of the first m.               *)
LEMMA SumShift ==
    ASSUME NEW m \in Nat, NEW n \in Nat, NEW f, NEW g,
           \A i \in 1 .. m + n : f[i] \in Nat,
           \A i \in 1 .. n : g[i] = f[m + i]
    PROVE  SumUpTo(f, m + n) = SumUpTo(f, m) + SumUpTo(g, n)
<1> DEFINE T == {k \in 0 .. n : SumUpTo(f, m + k) = SumUpTo(f, m) + SumUpTo(g, k)}
<1>0. /\ SumUpTo(f, m) \in Nat
      /\ \A k \in 0 .. n : SumUpTo(g, k) \in Nat
    BY SumType
<1>1. 0 \in T
    BY <1>0, SumZero
<1>2. ASSUME NEW k \in 1 .. n, k - 1 \in T
      PROVE  k \in T
    <2>1. SumUpTo(g, k) = SumUpTo(g, k - 1) + g[k]
        BY SumStep
    <2>2. m + k \in Nat \ {0} /\ m + k - 1 = m + (k - 1)
        OBVIOUS
    <2>3. SumUpTo(f, m + k) = SumUpTo(f, m + (k - 1)) + f[m + k]
        BY <2>2, SumStep
    <2>4. SumUpTo(g, k - 1) \in Nat /\ g[k] \in Nat
        BY <1>0
    <2> QED
        BY <1>0, <1>2, <2>1, <2>3, <2>4
<1>3. T = 0 .. n
    <2> HIDE DEF T
    <2>1. T \subseteq 0 .. n
        BY DEF T
    <2> QED
        BY <1>1, <1>2, <2>1, Upwards
<1> QED
    BY <1>3

LEMMA SumOfEqual ==
    ASSUME NEW n \in Nat, NEW c0 \in Nat, NEW f, \A i \in 1 .. n : f[i] = c0
    PROVE  SumUpTo(f, n) = c0 * n
<1> DEFINE T == {k \in 0 .. n : SumUpTo(f, k) = c0 * k}
<1>1. 0 \in T
    BY SumZero
<1>2. ASSUME NEW k \in 1 .. n, k - 1 \in T
      PROVE  k \in T
    <2>1. SumUpTo(f, k) = SumUpTo(f, k - 1) + c0
        BY SumStep
    <2>2. c0 * (k - 1) + c0 = c0 * k
        OBVIOUS
    <2> QED
        BY <1>2, <2>1, <2>2
<1>3. T = 0 .. n
    <2> HIDE DEF T
    <2>1. T \subseteq 0 .. n
        BY DEF T
    <2> QED
        BY <1>1, <1>2, <2>1, Upwards
<1> QED
    BY <1>3
-----------------------------------------------------------------------------
(* Chunks and the blob they are written to.                                *)

Chunks(V) == [value : V, len : Nat]

Lens(chs) == [i \in DOMAIN chs |-> chs[i].len]

(* The bytes of a sequence of chunks                                       *)
Total(chs) == SumOf(Lens(chs))

IsChunks(chs) == \E V : chs \in Seq(Chunks(V))

LEMMA LensType ==
    ASSUME NEW V, NEW chs \in Seq(Chunks(V))
    PROVE  /\ Len(chs) \in Nat
           /\ DOMAIN Lens(chs) = 1 .. Len(chs)
           /\ Len(Lens(chs)) = Len(chs)
           /\ \A i \in 1 .. Len(chs) : /\ Lens(chs)[i] = chs[i].len
                                       /\ chs[i].len \in Nat
           /\ Total(chs) = SumUpTo(Lens(chs), Len(chs))
           /\ Total(chs) \in Nat
<1>1. \A i \in 1 .. Len(chs) : chs[i] \in Chunks(V)
    OBVIOUS
<1>2. /\ Len(chs) \in Nat /\ DOMAIN Lens(chs) = 1 .. Len(chs)
      /\ \A i \in 1 .. Len(chs) : /\ Lens(chs)[i] = chs[i].len
                                  /\ chs[i].len \in Nat
    BY <1>1 DEF Lens, Chunks
<1>3. Lens(chs) \in Seq(Nat)
    BY <1>2 DEF Lens
<1>4. Len(Lens(chs)) = Len(chs)
    BY <1>2, <1>3
<1>5. Total(chs) = SumUpTo(Lens(chs), Len(chs))
    BY <1>4 DEF Total, SumOf
<1> QED
    BY <1>2, <1>4, <1>5, SumType

LEMMA ConcatChunks ==
    ASSUME NEW a, IsChunks(a), NEW b, IsChunks(b)
    PROVE  /\ IsChunks(a \o b)
           /\ Total(a \o b) = Total(a) + Total(b)
           /\ Total(a) \in Nat /\ Total(b) \in Nat
<1>1. PICK V : a \in Seq(Chunks(V))
    BY DEF IsChunks
<1>2. PICK W : b \in Seq(Chunks(W))
    BY DEF IsChunks
<1> DEFINE U == V \union W
<1>3. a \in Seq(Chunks(U)) /\ b \in Seq(Chunks(U))
    <2>1. Chunks(V) \subseteq Chunks(U) /\ Chunks(W) \subseteq Chunks(U)
        BY DEF Chunks
    <2> HIDE DEF U
    <2> QED
        BY <1>1, <1>2, <2>1
<1> HIDE DEF U
<1>4. a \o b \in Seq(Chunks(U)) /\ Len(a \o b) = Len(a) + Len(b)
    BY <1>3
<1>5. /\ \A i \in 1 .. Len(a) : (a \o b)[i] = a[i]
      /\ \A i \in 1 .. Len(b) : (a \o b)[Len(a) + i] = b[i]
    BY <1>3
<1>6. Len(a) \in Nat /\ Len(b) \in Nat
    BY <1>3
<1>7. \A i \in 1 .. Len(a) + Len(b) : Lens(a \o b)[i] = (a \o b)[i].len /\ Lens(a \o b)[i] \in Nat
    BY <1>4, LensType
<1>8. Total(a \o b) = SumUpTo(Lens(a \o b), Len(a)) + SumUpTo(Lens(b), Len(b))
    <2>1. \A i \in 1 .. Len(b) : Lens(b)[i] = Lens(a \o b)[Len(a) + i]
        BY <1>3, <1>5, <1>6, <1>7, LensType
    <2>2. SumUpTo(Lens(a \o b), Len(a) + Len(b))
             = SumUpTo(Lens(a \o b), Len(a)) + SumUpTo(Lens(b), Len(b))
        BY <1>6, <1>7, <2>1, SumShift
    <2> QED
        BY <1>4, <2>2, LensType
<1>9. SumUpTo(Lens(a \o b), Len(a)) = SumUpTo(Lens(a), Len(a))
    <2>1. \A i \in 1 .. Len(a) : Lens(a \o b)[i] = Lens(a)[i]
        BY <1>3, <1>5, <1>6, <1>7, LensType
    <2> QED
        BY <1>6, <2>1, SumAgrees
<1> QED
    BY <1>3, <1>4, <1>8, <1>9, LensType DEF IsChunks

LEMMA EmptyChunks == IsChunks(<<>>) /\ Total(<<>>) = 0
<1>1. <<>> \in Seq(Chunks({})) /\ Len(<<>>) = 0
    OBVIOUS
<1>2. Total(<<>>) = SumUpTo(Lens(<<>>), 0)
    BY <1>1, LensType
<1> QED
    BY <1>1, <1>2, SumZero DEF IsChunks

LEMMA ChunkType ==
    /\ \A v, n : Chunk(v, n).value = v /\ Chunk(v, n).len = n
    /\ \A V, v, n : v \in V /\ n \in Nat => Chunk(v, n) \in Chunks(V)
    /\ \A v : Word(v).value = v /\ Word(v).len = 4
    /\ \A V, v : v \in V => Word(v) \in Chunks(V)
BY DEF Chunk, Word, Chunks

(* The terms of a short sum                                                *)
LEMMA ShortTotals ==
    ASSUME NEW V, NEW chs \in Seq(Chunks(V))
    PROVE  /\ Len(chs) = 1 => Total(chs) = chs[1].len
           /\ Len(chs) = 2 => Total(chs) = chs[1].len + chs[2].len
           /\ Len(chs) = 3 => Total(chs) = chs[1].len + chs[2].len + chs[3].len
           /\ Len(chs) = 4 => Total(chs) = chs[1].len + chs[2].len + chs[3].len
                                             + chs[4].len
           /\ Len(chs) = 6 => Total(chs) = chs[1].len + chs[2].len + chs[3].len
                                             + chs[4].len + chs[5].len + chs[6].len
           /\ Len(chs) = 7 => Total(chs) = chs[1].len + chs[2].len + chs[3].len
                                             + chs[4].len + chs[5].len + chs[6].len
                                             + chs[7].len
<1> DEFINE f == Lens(chs)
           S(n) == SumUpTo(f, n)
<1>1. /\ S(0) = 0          /\ S(1) = S(0) + f[1] /\ S(2) = S(1) + f[2]
      /\ S(3) = S(2) + f[3] /\ S(4) = S(3) + f[4] /\ S(5) = S(4) + f[5]
      /\ S(6) = S(5) + f[6] /\ S(7) = S(6) + f[7]
    <2> HIDE DEF f
    <2>1. S(0) = 0
        BY SumZero
    <2>2. \A n \in Nat \ {0} : S(n) = S(n - 1) + f[n]
        BY SumStep
    <2> HIDE DEF S
    <2> QED
        BY <2>1, <2>2
<1>2. /\ Total(chs) = S(Len(chs))
      /\ \A i \in 1 .. Len(chs) : f[i] = chs[i].len /\ f[i] \in Nat
    BY LensType
<1> HIDE DEF f, S
<1>3. Len(chs) = 1 => Total(chs) = chs[1].len
    <2>1. SUFFICES ASSUME Len(chs) = 1
          PROVE  S(1) = f[1]
        BY <1>2
    <2>2. f[1] \in Nat
        BY <1>2, <2>1
    <2> QED
        BY <1>1, <2>2
<1>4. Len(chs) = 2 => Total(chs) = chs[1].len + chs[2].len
    <2>1. SUFFICES ASSUME Len(chs) = 2
          PROVE  S(2) = f[1] + f[2]
        BY <1>2
    <2>2. f[1] \in Nat /\ f[2] \in Nat
        BY <1>2, <2>1
    <2> QED
        BY <1>1, <2>2
<1>5. Len(chs) = 3 => Total(chs) = chs[1].len + chs[2].len + chs[3].len
    <2>1. SUFFICES ASSUME Len(chs) = 3
          PROVE  S(3) = f[1] + f[2] + f[3]
        BY <1>2
    <2>2. f[1] \in Nat /\ f[2] \in Nat /\ f[3] \in Nat
        BY <1>2, <2>1
    <2> QED
        BY <1>1, <2>2
<1>6. Len(chs) = 4 => Total(chs) = chs[1].len + chs[2].len + chs[3].len + chs[4].len
    <2>1. SUFFICES ASSUME Len(chs) = 4
          PROVE  S(4) = f[1] + f[2] + f[3] + f[4]
        BY <1>2
    <2>2. /\ f[1] \in Nat /\ f[2] \in Nat /\ f[3] \in Nat /\ f[4] \in Nat
        BY <1>2, <2>1
    <2> QED
        BY <1>1, <2>2
<1>7. Len(chs) = 6 => Total(chs) = chs[1].len + chs[2].len + chs[3].len + chs[4].len
                  + chs[5].len + chs[6].len
    <2>1. SUFFICES ASSUME Len(chs) = 6
          PROVE  S(6) = f[1] + f[2] + f[3] + f[4]
                  + f[5] + f[6]
        BY <1>2
    <2>2. /\ f[1] \in Nat /\ f[2] \in Nat /\ f[3] \in Nat /\ f[4] \in Nat
          /\ f[5] \in Nat /\ f[6] \in Nat
        BY <1>2, <2>1
    <2>3. S(1) = f[1]
        BY <1>1, <2>2
    <2>4. S(2) = f[1] + f[2]
        BY <1>1, <2>3
    <2>5. S(3) = f[1] + f[2] + f[3]
        BY <1>1, <2>4
    <2>6. S(4) = S(3) + f[4] /\ S(5) = S(4) + f[5] /\ S(6) = S(5) + f[6]
        BY <1>1
    <2> QED
        BY <2>2, <2>5, <2>6
<1>8. Len(chs) = 7 => Total(chs) = chs[1].len + chs[2].len + chs[3].len + chs[4].len
                  + chs[5].len + chs[6].len + chs[7].len
    <2>1. SUFFICES ASSUME Len(chs) = 7
          PROVE  S(7) = f[1] + f[2] + f[3] + f[4]
                  + f[5] + f[6] + f[7]
        BY <1>2
    <2>2. /\ f[1] \in Nat /\ f[2] \in Nat /\ f[3] \in Nat /\ f[4] \in Nat
          /\ f[5] \in Nat /\ f[6] \in Nat /\ f[7] \in Nat
        BY <1>2, <2>1
    <2>3. S(1) = f[1]
        BY <1>1, <2>2
    <2>4. S(2) = f[1] + f[2]
        BY <1>1, <2>3
    <2>5. S(3) = f[1] + f[2] + f[3]
        BY <1>1, <2>4
    <2>6. S(4) = S(3) + f[4] /\ S(5) = S(4) + f[5] /\ S(6) = S(5) + f[6]
        BY <1>1
    <2>7. S(7) = S(6) + f[7]
        BY <1>1
    <2> QED
        BY <2>2, <2>5, <2>6, <2>7
<1> QED
    BY <1>3, <1>4, <1>5, <1>6, <1>7, <1>8
-----------------------------------------------------------------------------
(* Writing.                                                                *)

Blobs(V) == [chunks : Seq([at : Nat, value : V, len : Nat]), size : Nat,
             limit : Nat, out_of_memory : BOOLEAN, ok : BOOLEAN]

(* r is bl after the first k chunks of chs, or bl after a failed write.    *)
Follows(V, bl, chs, k, r) ==
    /\ r \in Blobs(V)
    /\ IsLaid(r)
    /\ r.limit = bl.limit
    /\ bl.size <= r.size
    /\ Len(bl.chunks) <= Len(r.chunks)
    /\ \A i \in 1 .. Len(bl.chunks) : r.chunks[i] = bl.chunks[i]
    /\ r.ok =>
          /\ bl.ok
          /\ r.size = bl.size + SumUpTo(Lens(chs), k)
          /\ Len(r.chunks) = Len(bl.chunks) + k
          /\ \A j \in 1 .. k :
                r.chunks[Len(bl.chunks) + j] =
                   [at |-> bl.size + SumUpTo(Lens(chs), j - 1),
                    value |-> chs[j].value, len |-> chs[j].len]

LEMMA WriteOne ==
    ASSUME NEW V, NEW bl \in Blobs(V), IsLaid(bl), NEW ch \in Chunks(V),
           NEW r, r = blob_write_bytes(bl, ch)
    PROVE  /\ r \in Blobs(V)
           /\ IsLaid(r)
           /\ r.limit = bl.limit
           /\ ~ r.ok => r.chunks = bl.chunks /\ r.size = bl.size
           /\ r.ok => /\ bl.ok
                      /\ r.size = bl.size + ch.len
                      /\ r.chunks = Append(bl.chunks,
                            [at |-> bl.size, value |-> ch.value,
                             len |-> ch.len])
<1> DEFINE new == [at |-> bl.size, value |-> ch.value, len |-> ch.len]
<1>1. /\ bl.size \in Nat /\ bl.limit \in Nat /\ ch.len \in Nat
      /\ bl.chunks \in Seq([at : Nat, value : V, len : Nat])
      /\ new \in [at : Nat, value : V, len : Nat]
      /\ bl.ok <=> ~ bl.out_of_memory
    BY DEF Blobs, Chunks, IsLaid
<1>2. CASE ~ bl.ok
    <2>1. r = bl
        BY <1>2 DEF blob_write_bytes
    <2> QED
        BY <1>2, <2>1
<1>3. CASE bl.ok /\ bl.size + ch.len > bl.limit
    <2>1. r = [bl EXCEPT !.out_of_memory = TRUE, !.ok = FALSE]
        BY <1>3 DEF blob_write_bytes
    <2>2. /\ r \in Blobs(V) /\ ~ r.ok /\ r.out_of_memory /\ r.chunks = bl.chunks
          /\ r.size = bl.size /\ r.limit = bl.limit
        BY <2>1 DEF Blobs
    <2>3. IsLaid(r)
        BY <2>2 DEF IsLaid
    <2> QED
        BY <2>2, <2>3
<1>4. CASE bl.ok /\ ~ (bl.size + ch.len > bl.limit)
    <2>1. r = [bl EXCEPT !.chunks = Append(@, new), !.size = @ + ch.len]
        BY <1>1, <1>4 DEF blob_write_bytes
    <2>2. /\ r.ok /\ ~ r.out_of_memory /\ r.chunks = Append(bl.chunks, new)
          /\ r.size = bl.size + ch.len /\ r.limit = bl.limit
        BY <1>1, <1>4, <2>1 DEF Blobs
    <2>3. r \in Blobs(V)
        <3> HIDE DEF new
        <3>1. Append(bl.chunks, new) \in Seq([at : Nat, value : V, len : Nat])
            BY <1>1
        <3>2. bl.size + ch.len \in Nat
            BY <1>1
        <3> QED
            BY <2>1, <3>1, <3>2 DEF Blobs
    <2>4. IsLaid(r)
        <3> DEFINE n == Len(bl.chunks)
        <3>1. /\ n \in Nat /\ DOMAIN r.chunks = 1 .. n + 1 /\ DOMAIN bl.chunks = 1 .. n
              /\ r.chunks[n + 1] = new
              /\ \A i \in 1 .. n : r.chunks[i] = bl.chunks[i]
            BY <1>1, <2>2
        <3>2. \A i \in 1 .. n : /\ bl.chunks[i].at \in Nat
                                /\ bl.chunks[i].len \in Nat
                                /\ bl.chunks[i].at + bl.chunks[i].len <= bl.size
            <4> DEFINE R == [at : Nat, value : V, len : Nat]
            <4>1. ASSUME NEW R1, bl.chunks \in Seq(R1)
                  PROVE  \A i \in 1 .. n : bl.chunks[i] \in R1
                BY <4>1
            <4>2. \A i \in 1 .. n : bl.chunks[i] \in R
                BY <1>1, <4>1
            <4>3. \A i \in 1 .. n : bl.chunks[i].at \in Nat /\ bl.chunks[i].len \in Nat
                BY <4>2
            <4> QED
                BY <3>1, <4>3 DEF IsLaid
        <3>3. new.at = bl.size /\ new.len = ch.len
            OBVIOUS
        <3> HIDE DEF new, n
        <3>4. ASSUME NEW i \in DOMAIN r.chunks
              PROVE  /\ r.chunks[i].at + r.chunks[i].len <= r.size
                     /\ \A j \in 1..i-1 :
                           r.chunks[j].at + r.chunks[j].len <= r.chunks[i].at
            <4>0. n \in Nat /\ bl.size \in Nat /\ ch.len \in Nat /\ r.size = bl.size + ch.len
                BY <1>1, <2>2, <3>1
            <4>1. CASE i = n + 1
                <5>1. r.chunks[i].at = bl.size /\ r.chunks[i].len = ch.len
                    BY <3>1, <3>3, <4>1
                <5>2. 1 .. i - 1 = 1 .. n
                    BY <4>0, <4>1
                <5>3. \A j \in 1 .. n : r.chunks[j].at + r.chunks[j].len <= bl.size
                    BY <3>1, <3>2
                <5>4. r.chunks[i].at + r.chunks[i].len <= r.size
                    BY <4>0, <5>1
                <5>5. \A j \in 1..i-1 :
                         r.chunks[j].at + r.chunks[j].len <= r.chunks[i].at
                    BY <5>1, <5>2, <5>3
                <5> QED
                    BY <5>4, <5>5
            <4>2. CASE i \in 1 .. n
                <5>1. \A j \in 1..i-1 : j \in 1 .. n /\
                           bl.chunks[j].at + bl.chunks[j].len <= bl.chunks[i].at
                    BY <3>1, <4>2 DEF IsLaid
                <5>2. r.chunks[i] = bl.chunks[i]
                    BY <3>1, <4>2
                <5>3. r.chunks[i].at + r.chunks[i].len <= r.size
                    BY <3>2, <4>0, <4>2, <5>2
                <5>4. \A j \in 1..i-1 : r.chunks[j] = bl.chunks[j]
                    BY <3>1, <5>1
                <5> QED
                    BY <5>1, <5>2, <5>3, <5>4
            <4> QED
                BY <3>1, <4>1, <4>2
        <3>5. r.size <= r.limit
            BY <1>1, <1>4, <2>2
        <3> QED
            BY <2>2, <3>4, <3>5 DEF IsLaid
    <2> QED
        BY <1>4, <2>2, <2>3, <2>4
<1> QED
    BY <1>1, <1>2, <1>3, <1>4

LEMMA WriteNext ==
    ASSUME NEW V, NEW bl \in Blobs(V), NEW chs \in Seq(Chunks(V)),
           NEW k \in 1 .. Len(chs), NEW q, Follows(V, bl, chs, k - 1, q),
           NEW r, r = blob_write_bytes(q, chs[k])
    PROVE  Follows(V, bl, chs, k, r)
<1> DEFINE new == [at |-> q.size, value |-> chs[k].value, len |-> chs[k].len]
           R == [at : Nat, value : V, len : Nat]
           n == Len(bl.chunks)
           S(i) == SumUpTo(Lens(chs), i)
<1>1. q \in Blobs(V) /\ IsLaid(q) /\ chs[k] \in Chunks(V)
    BY DEF Follows
<1>2. /\ r \in Blobs(V)
      /\ IsLaid(r)
      /\ r.limit = q.limit
      /\ ~ r.ok => r.chunks = q.chunks /\ r.size = q.size
      /\ r.ok => /\ q.ok
                 /\ r.size = q.size + chs[k].len
                 /\ r.chunks = Append(q.chunks, new)
    BY <1>1, WriteOne
<1>3. /\ bl.chunks \in Seq(R) /\ q.chunks \in Seq(R) /\ new \in R
      /\ chs[k].len \in Nat /\ q.size \in Nat /\ bl.size \in Nat
      /\ n \in Nat
    BY <1>1 DEF Blobs, Chunks
<1>4. /\ q.limit = bl.limit /\ bl.size <= q.size /\ n <= Len(q.chunks)
      /\ \A i \in 1 .. n : q.chunks[i] = bl.chunks[i]
    BY DEF Follows
<1>5. CASE ~ r.ok
    BY <1>2, <1>4, <1>5 DEF Follows
<1>6. CASE r.ok
    <2>1. /\ q.ok /\ r.chunks = Append(q.chunks, new)
          /\ r.size = q.size + chs[k].len
        BY <1>2, <1>6
    <2>2. /\ bl.ok
          /\ q.size = bl.size + S(k - 1)
          /\ Len(q.chunks) = n + (k - 1)
          /\ \A j \in 1 .. k - 1 :
                q.chunks[n + j] = [at |-> bl.size + S(j - 1),
                                   value |-> chs[j].value, len |-> chs[j].len]
        BY <2>1 DEF Follows
    <2>3. S(k) = S(k - 1) + chs[k].len /\ S(k - 1) \in Nat
        <3>1. \A i \in 1 .. Len(chs) : Lens(chs)[i] \in Nat
            BY LensType
        <3>2. k - 1 \in Nat /\ k \in Nat \ {0} /\ 1 .. k - 1 \subseteq 1 .. Len(chs)
            OBVIOUS
        <3>3. S(k - 1) \in Nat
            BY <3>1, <3>2, SumType
        <3>4. Lens(chs)[k] = chs[k].len
            BY LensType
        <3> QED
            BY <3>2, <3>3, <3>4, SumStep
    <2> HIDE DEF new, R, S
    <2>4. /\ Len(r.chunks) = n + k
          /\ \A i \in 1 .. n + (k - 1) : r.chunks[i] = q.chunks[i]
          /\ r.chunks[n + k] = new
        <3>1. Len(q.chunks) \in Nat /\ n + (k - 1) + 1 = n + k
            BY <1>3
        <3>2. /\ Len(r.chunks) = Len(q.chunks) + 1
              /\ \A i \in 1 .. Len(q.chunks) : r.chunks[i] = q.chunks[i]
              /\ r.chunks[Len(q.chunks) + 1] = new
            BY <1>3, <2>1
        <3> QED
            BY <2>2, <3>1, <3>2
    <2>5. r.size = bl.size + S(k) /\ bl.size <= r.size
        <3>1. r.size = q.size + chs[k].len /\ q.size = bl.size + S(k - 1)
            BY <2>1, <2>2
        <3>2. bl.size \in Nat /\ chs[k].len \in Nat
            BY <1>3
        <3> QED
            BY <2>3, <3>1, <3>2
    <2>6. \A i \in 1 .. n : r.chunks[i] = bl.chunks[i]
        <3>1. 1 .. n \subseteq 1 .. n + (k - 1)
            BY <1>3
        <3> QED
            BY <1>4, <2>4, <3>1
    <2>7. \A j \in 1 .. k :
             r.chunks[n + j] = [at |-> bl.size + S(j - 1),
                                value |-> chs[j].value, len |-> chs[j].len]
        <3> SUFFICES ASSUME NEW j \in 1 .. k
                     PROVE  r.chunks[n + j] =
                               [at |-> bl.size + S(j - 1),
                                value |-> chs[j].value, len |-> chs[j].len]
            OBVIOUS
        <3>1. CASE j = k
            BY <2>2, <2>4, <3>1 DEF new
        <3>2. CASE j \in 1 .. k - 1
            <4>1. n + j \in 1 .. n + (k - 1)
                BY <1>3, <3>2
            <4> QED
                BY <2>2, <2>4, <3>2, <4>1
        <3> QED
            BY <3>1, <3>2
    <2>8. n <= Len(r.chunks)
        BY <1>3, <2>4
    <2> QED
        BY <1>2, <1>4, <2>2, <2>4, <2>5, <2>6, <2>7, <2>8 DEF Follows, S
<1> QED
    BY <1>5, <1>6

IsWritten(bl, chs, n, w) ==
    w = [i \in 0..n |-> IF i = 0 THEN bl ELSE blob_write_bytes(w[i-1], chs[i])]

LEMMA WrittenExists ==
    ASSUME NEW bl, NEW chs, Len(chs) \in Nat
    PROVE  \E w : IsWritten(bl, chs, Len(chs), w) /\ WriteAll(bl, chs) = w[Len(chs)]
<1> DEFINE n == Len(chs)
           T == {k \in 0 .. n : \E w : IsWritten(bl, chs, k, w)}
<1>1. 0 \in T
    <2>1. IsWritten(bl, chs, 0, [i \in 0..0 |-> bl])
        BY DEF IsWritten
    <2> QED
        BY <2>1
<1>2. ASSUME NEW k \in 1 .. n, k - 1 \in T
      PROVE  k \in T
    <2>1. PICK w : IsWritten(bl, chs, k - 1, w)
        BY <1>2
    <2> DEFINE v == [i \in 0..k |-> IF i = k THEN blob_write_bytes(w[k-1], chs[k])
                                             ELSE w[i]]
    <2>2. IsWritten(bl, chs, k, v)
        BY <2>1 DEF IsWritten
    <2> QED
        BY <2>2
<1>3. T = 0 .. n
    <2> HIDE DEF T
    <2>1. T \subseteq 0 .. n
        BY DEF T
    <2> QED
        BY <1>1, <1>2, <2>1, Upwards
<1>4. \E w : IsWritten(bl, chs, n, w)
    BY <1>3
<1> QED
    BY <1>4 DEF WriteAll, IsWritten

LEMMA WriteAllFollows ==
    ASSUME NEW V, NEW bl \in Blobs(V), IsLaid(bl), NEW chs \in Seq(Chunks(V))
    PROVE  Follows(V, bl, chs, Len(chs), WriteAll(bl, chs))
<1> DEFINE n == Len(chs)
<1>1. PICK w : IsWritten(bl, chs, n, w) /\ WriteAll(bl, chs) = w[n]
    BY WrittenExists
<1> DEFINE T == {k \in 0 .. n : Follows(V, bl, chs, k, w[k])}
<1>2. 0 \in T
    <2>1. w[0] = bl
        BY <1>1 DEF IsWritten
    <2>2. Len(bl.chunks) \in Nat /\ bl.size \in Nat
        BY DEF Blobs
    <2>3. Follows(V, bl, chs, 0, bl)
        BY <2>2, SumZero DEF Follows
    <2> QED
        BY <2>1, <2>3
<1>3. ASSUME NEW k \in 1 .. n, k - 1 \in T
      PROVE  k \in T
    <2>1. w[k] = blob_write_bytes(w[k - 1], chs[k])
        BY <1>1 DEF IsWritten
    <2> QED
        BY <1>3, <2>1, WriteNext
<1>4. T = 0 .. n
    <2> HIDE DEF T
    <2>1. T \subseteq 0 .. n /\ n \in Nat
        BY DEF T
    <2> QED
        BY <1>2, <1>3, <2>1, Upwards
<1> QED
    BY <1>1, <1>4
-----------------------------------------------------------------------------
(* Reading.                                                                *)

IsBlob(bl) == \E V : bl \in Blobs(V)

LEMMA Widen ==
    ASSUME NEW V, NEW W, V \subseteq W
    PROVE  Blobs(V) \subseteq Blobs(W) /\ Seq(Chunks(V)) \subseteq Seq(Chunks(W))
<1>1. Chunks(V) \subseteq Chunks(W)
    BY DEF Chunks
<1>2. [at : Nat, value : V, len : Nat] \subseteq [at : Nat, value : W, len : Nat]
    OBVIOUS
<1>3. ASSUME NEW A, NEW B, A \subseteq B
      PROVE  Seq(A) \subseteq Seq(B)
    BY <1>3
<1>4. Seq(Chunks(V)) \subseteq Seq(Chunks(W))
    BY <1>1, <1>3
<1>5. Seq([at : Nat, value : V, len : Nat]) \subseteq Seq([at : Nat, value : W, len : Nat])
    BY <1>2, <1>3
<1> QED
    BY <1>4, <1>5 DEF Blobs

LEMMA BlobType ==
    ASSUME NEW bl, IsBlob(bl)
    PROVE  /\ bl.size \in Nat /\ bl.limit \in Nat
           /\ bl.ok \in BOOLEAN /\ bl.out_of_memory \in BOOLEAN
           /\ Len(bl.chunks) \in Nat
           /\ DOMAIN bl.chunks = 1 .. Len(bl.chunks)
           /\ \A i \in 1 .. Len(bl.chunks) :
                 bl.chunks[i].at \in Nat /\ bl.chunks[i].len \in Nat
<1>1. PICK V : bl \in Blobs(V)
    BY DEF IsBlob
<1> DEFINE R == [at : Nat, value : V, len : Nat]
<1>2. ASSUME NEW Q, NEW s \in Seq(Q)
      PROVE  /\ Len(s) \in Nat /\ DOMAIN s = 1 .. Len(s)
             /\ \A i \in 1 .. Len(s) : s[i] \in Q
    OBVIOUS
<1>3. bl.chunks \in Seq(R)
    BY <1>1 DEF Blobs
<1>4. \A i \in 1 .. Len(bl.chunks) : bl.chunks[i] \in R
    BY <1>2, <1>3
<1> QED
    BY <1>1, <1>2, <1>3, <1>4 DEF Blobs

(* A word that was written is what a reader finds.                         *)
LEMMA ReadHeld ==
    ASSUME NEW bl, IsBlob(bl), IsLaid(bl), NEW offset, NEW value,
           Holds(bl, offset, value)
    PROVE  ReadWord(bl, offset) = value
<1>1. PICK i \in DOMAIN bl.chunks : /\ bl.chunks[i].at = offset
                                    /\ bl.chunks[i].value = value
                                    /\ bl.chunks[i].len > 0
    BY DEF Holds
<1>2. ASSUME NEW j \in DOMAIN bl.chunks, bl.chunks[j].at = offset,
             bl.chunks[j].len > 0
      PROVE  j = i
    <2>1. \A a, b \in DOMAIN bl.chunks :
             a < b => bl.chunks[a].at + bl.chunks[a].len <= bl.chunks[b].at
        <3>1. SUFFICES ASSUME NEW a \in DOMAIN bl.chunks,
                              NEW b \in DOMAIN bl.chunks, a < b
                       PROVE  bl.chunks[a].at + bl.chunks[a].len <= bl.chunks[b].at
            OBVIOUS
        <3>2. a \in 1 .. b - 1
            BY <3>1, BlobType
        <3> QED
            BY <3>2 DEF IsLaid
    <2>2. /\ offset \in Nat /\ bl.chunks[i].len \in Nat /\ bl.chunks[j].len \in Nat
          /\ i \in Nat /\ j \in Nat
        BY <1>1, BlobType
    <2>3. ~ i < j /\ ~ j < i
        BY <1>1, <1>2, <2>1, <2>2
    <2> QED
        BY <2>2, <2>3
<1>3. {ch.value : ch \in ChunksAt(bl, offset)} = {value}
    BY <1>1, <1>2 DEF ChunksAt
<1> QED
    BY <1>3 DEF ReadWord

LEMMA StillHolds ==
    ASSUME NEW bl, IsBlob(bl), NEW r, IsBlob(r),
           Len(bl.chunks) <= Len(r.chunks),
           \A i \in 1 .. Len(bl.chunks) : r.chunks[i] = bl.chunks[i],
           NEW offset, NEW value, Holds(bl, offset, value)
    PROVE  Holds(r, offset, value)
<1>1. PICK i \in DOMAIN bl.chunks : /\ bl.chunks[i].at = offset
                                    /\ bl.chunks[i].value = value
                                    /\ bl.chunks[i].len > 0
    BY DEF Holds
<1>2. i \in DOMAIN r.chunks /\ r.chunks[i] = bl.chunks[i]
    BY SMTT(30), BlobType
<1> QED
    BY <1>1, <1>2 DEF Holds

(* What a write does, said of the words a reader finds.                    *)
LEMMA Written ==
    ASSUME NEW bl, IsBlob(bl), IsLaid(bl), NEW chs, IsChunks(chs),
           NEW r, r = WriteAll(bl, chs)
    PROVE  /\ IsBlob(r) /\ IsLaid(r)
           /\ r.limit = bl.limit
           /\ bl.size <= r.size
           /\ \A offset, value : Holds(bl, offset, value) => Holds(r, offset, value)
           /\ r.ok => /\ bl.ok
                      /\ r.size = bl.size + Total(chs)
                      /\ \A j \in 1 .. Len(chs) :
                            chs[j].len > 0 =>
                               Holds(r, bl.size + SumUpTo(Lens(chs), j - 1),
                                     chs[j].value)
<1>1. PICK U : bl \in Blobs(U)
    BY DEF IsBlob
<1>2. PICK W : chs \in Seq(Chunks(W))
    BY DEF IsChunks
<1> DEFINE V == U \union W
<1>3. bl \in Blobs(V) /\ chs \in Seq(Chunks(V))
    <2>1. U \subseteq V /\ W \subseteq V
        OBVIOUS
    <2> HIDE DEF V
    <2> QED
        BY <1>1, <1>2, <2>1, Widen
<1> HIDE DEF V
<1>4. Follows(V, bl, chs, Len(chs), r)
    BY <1>3, WriteAllFollows
<1>5. IsBlob(r) /\ IsLaid(r) /\ r.limit = bl.limit /\ bl.size <= r.size
    BY <1>4 DEF Follows, IsBlob
<1>6. \A offset, value : Holds(bl, offset, value) => Holds(r, offset, value)
    BY <1>4, <1>5, StillHolds DEF Follows
<1>7. ASSUME r.ok
      PROVE  /\ bl.ok /\ r.size = bl.size + Total(chs)
             /\ Len(r.chunks) = Len(bl.chunks) + Len(chs)
             /\ \A j \in 1 .. Len(chs) :
                   r.chunks[Len(bl.chunks) + j] =
                      [at |-> bl.size + SumUpTo(Lens(chs), j - 1),
                       value |-> chs[j].value, len |-> chs[j].len]
    BY <1>3, <1>4, <1>7, LensType DEF Follows
<1>8. ASSUME r.ok, NEW j \in 1 .. Len(chs), chs[j].len > 0
      PROVE  Holds(r, bl.size + SumUpTo(Lens(chs), j - 1), chs[j].value)
    <2>1. Len(bl.chunks) + j \in DOMAIN r.chunks
        <3>1. Len(chs) \in Nat
            BY <1>3
        <3> QED
            BY <1>5, <1>7, <1>8, <3>1, BlobType
    <2>2. /\ r.chunks[Len(bl.chunks) + j].at = bl.size + SumUpTo(Lens(chs), j - 1)
          /\ r.chunks[Len(bl.chunks) + j].value = chs[j].value
          /\ r.chunks[Len(bl.chunks) + j].len = chs[j].len
        <3>1. r.chunks[Len(bl.chunks) + j] =
                 [at |-> bl.size + SumUpTo(Lens(chs), j - 1),
                  value |-> chs[j].value, len |-> chs[j].len]
            BY <1>7, <1>8, Zenon
        <3> QED
            BY <3>1
    <2> QED
        BY <1>8, <2>1, <2>2, Zenon DEF Holds
<1> QED
    BY <1>5, <1>6, <1>7, <1>8
-----------------------------------------------------------------------------
(* Parts.                                                                  *)

OffsetsFit(con) == \A i \in DOMAIN con.part_offsets :
                      con.part_offsets[i] + 8 <= con.parts.size

IsContainer(con) == /\ \E P, O : con \in [parts : P, part_offsets : O]
                    /\ IsBlob(con.parts) /\ IsLaid(con.parts)
                    /\ con.part_offsets \in Seq(Nat)
                    /\ OffsetsFit(con)

LEMMA AddHeader ==
    ASSUME NEW con, IsContainer(con), NEW fourcc, NEW part_size \in Nat,
           NEW h, h = add_part_header(con, fourcc, part_size)
    PROVE  /\ IsContainer(h)
           /\ con.parts.size <= h.parts.size
           /\ h.parts.limit = con.parts.limit
           /\ \A offset, value :
                 Holds(con.parts, offset, value) => Holds(h.parts, offset, value)
           /\ h.parts.ok => /\ con.parts.ok
                            /\ h.parts.size = con.parts.size + 8
                            /\ h.part_offsets = Append(con.part_offsets, con.parts.size)
                            /\ Holds(h.parts, con.parts.size, fourcc)
                            /\ Holds(h.parts, con.parts.size + 4, part_size)
<1> DEFINE chs == <<Word(fourcc), Word(part_size)>>
           p == WriteAll(con.parts, chs)
<1>1. /\ h.parts = p
      /\ h.part_offsets = IF p.ok THEN Append(con.part_offsets, con.parts.size)
                                  ELSE con.part_offsets
      /\ \E P, O : h \in [parts : P, part_offsets : O]
    <2>1. h = [parts |-> p,
               part_offsets |-> IF p.ok THEN Append(con.part_offsets, con.parts.size)
                                        ELSE con.part_offsets]
        BY DEF add_part_header
    <2> HIDE DEF p
    <2>2. h \in [parts : {h.parts}, part_offsets : {h.part_offsets}]
        BY <2>1
    <2>3. \E P, O : h \in [parts : P, part_offsets : O]
        BY <2>2, Zenon
    <2> QED
        BY <2>1, <2>3
<1>2. /\ IsChunks(chs) /\ Len(chs) = 2
      /\ chs[1].len = 4 /\ chs[2].len = 4
      /\ chs[1].value = fourcc /\ chs[2].value = part_size
      /\ Total(chs) = 8
      /\ SumUpTo(Lens(chs), 0) = 0 /\ SumUpTo(Lens(chs), 1) = 4
    <2>1. chs \in Seq(Chunks({fourcc, part_size}))
        BY ChunkType
    <2>2. /\ Len(chs) = 2 /\ chs[1].len = 4 /\ chs[2].len = 4
          /\ chs[1].value = fourcc /\ chs[2].value = part_size
        BY ChunkType
    <2> HIDE DEF chs
    <2>3. Total(chs) = 8
        BY <2>1, <2>2, ShortTotals
    <2>4. SumUpTo(Lens(chs), 0) = 0
        BY SumZero
    <2>5. SumUpTo(Lens(chs), 1) = SumUpTo(Lens(chs), 0) + Lens(chs)[1]
        BY SumStep
    <2>6. Lens(chs)[1] = 4
        BY <2>1, <2>2, LensType
    <2> QED
        BY <2>1, <2>2, <2>3, <2>4, <2>5, <2>6 DEF IsChunks
<1> HIDE DEF chs
<1>3. /\ IsBlob(p) /\ IsLaid(p)
      /\ p.limit = con.parts.limit
      /\ con.parts.size <= p.size
      /\ \A offset, value : Holds(con.parts, offset, value) => Holds(p, offset, value)
      /\ p.ok => /\ con.parts.ok
                 /\ p.size = con.parts.size + Total(chs)
                 /\ \A j \in 1 .. Len(chs) :
                       chs[j].len > 0 =>
                          Holds(p, con.parts.size + SumUpTo(Lens(chs), j - 1),
                                chs[j].value)
    BY <1>2, Written DEF IsContainer
<1> HIDE DEF p
<1>4. con.parts.size \in Nat /\ p.size \in Nat
    BY <1>3, BlobType DEF IsContainer
<1>5. p.ok => /\ Holds(p, con.parts.size, fourcc)
              /\ Holds(p, con.parts.size + 4, part_size)
    <2>1. ASSUME p.ok
          PROVE  /\ Holds(p, con.parts.size + SumUpTo(Lens(chs), 1 - 1), fourcc)
                 /\ Holds(p, con.parts.size + SumUpTo(Lens(chs), 2 - 1), part_size)
        BY <1>2, <1>3, <2>1
    <2>2. /\ con.parts.size + SumUpTo(Lens(chs), 1 - 1) = con.parts.size
          /\ con.parts.size + SumUpTo(Lens(chs), 2 - 1) = con.parts.size + 4
        BY <1>2, <1>4
    <2> QED
        BY <2>1, <2>2
<1>6. h.part_offsets \in Seq(Nat)
    BY <1>1, <1>4 DEF IsContainer
<1>7. OffsetsFit(h)
    <2>1. con.part_offsets \in Seq(Nat) /\ OffsetsFit(con)
        BY DEF IsContainer
    <2>2. \A i \in DOMAIN con.part_offsets : con.part_offsets[i] + 8 <= p.size
        BY <1>3, <1>4, <2>1 DEF OffsetsFit
    <2>3. CASE ~ p.ok
        BY <1>1, <2>2, <2>3 DEF OffsetsFit
    <2>4. CASE p.ok
        <3>1. p.size = con.parts.size + 8
            BY <1>2, <1>3, <2>4
        <3>2. h.part_offsets = Append(con.part_offsets, con.parts.size)
            BY <1>1, <2>4
        <3>3. \A i \in DOMAIN h.part_offsets :
                 \/ i \in DOMAIN con.part_offsets
                       /\ h.part_offsets[i] = con.part_offsets[i]
                 \/ h.part_offsets[i] = con.parts.size
            BY <1>4, <2>1, <3>2
        <3> QED
            BY <1>1, <1>4, <2>2, <3>1, <3>3 DEF OffsetsFit
    <2> QED
        BY <2>3, <2>4
<1>8. IsContainer(h)
    BY <1>1, <1>3, <1>6, <1>7 DEF IsContainer
<1> QED
    BY <1>1, <1>2, <1>3, <1>5, <1>8

Codes == {"SFI0", "ISG1", "OSG1", "PSG1", "PSV0", "DXIL"}

LEMMA AddPart ==
    ASSUME NEW con, IsContainer(con), NEW fourcc \in Codes, NEW part_size \in Nat,
           NEW chs, IsChunks(chs), NEW r, r = add_part(con, fourcc, part_size, chs)
    PROVE  /\ IsContainer(r)
           /\ r.parts.ok /\ Total(chs) = part_size =>
                 \A codes \in Seq(Codes) :
                    PartsAre(con, codes) => PartsAre(r, Append(codes, fourcc))
<1> DEFINE h == add_part_header(con, fourcc, part_size)
<1>1. /\ IsContainer(h)
      /\ con.parts.size <= h.parts.size
      /\ \A offset, value :
            Holds(con.parts, offset, value) => Holds(h.parts, offset, value)
      /\ h.parts.ok => /\ con.parts.ok
                       /\ h.parts.size = con.parts.size + 8
                       /\ h.part_offsets = Append(con.part_offsets, con.parts.size)
                       /\ Holds(h.parts, con.parts.size, fourcc)
                       /\ Holds(h.parts, con.parts.size + 4, part_size)
    BY AddHeader
<1>2. r = [h EXCEPT !.parts = WriteAll(h.parts, chs)]
    BY DEF add_part
<1> HIDE DEF h
<1>3. PICK P, O : h \in [parts : P, part_offsets : O]
    BY <1>1 DEF IsContainer
<1>4. /\ r.parts = WriteAll(h.parts, chs) /\ r.part_offsets = h.part_offsets
      /\ \E Q, R : r \in [parts : Q, part_offsets : R]
    <2>1. r.parts = WriteAll(h.parts, chs) /\ r.part_offsets = h.part_offsets
        BY <1>2, <1>3
    <2>2. r \in [parts : {r.parts}, part_offsets : {r.part_offsets}]
        BY <1>2, <1>3
    <2>3. \E Q, R : r \in [parts : Q, part_offsets : R]
        BY <2>2, Zenon
    <2> QED
        BY <2>1, <2>3
<1>5. /\ IsBlob(r.parts) /\ IsLaid(r.parts)
      /\ h.parts.size <= r.parts.size
      /\ \A offset, value :
            Holds(h.parts, offset, value) => Holds(r.parts, offset, value)
      /\ r.parts.ok => h.parts.ok /\ r.parts.size = h.parts.size + Total(chs)
    BY <1>1, <1>4, Written DEF IsContainer
<1>6. /\ con.parts.size \in Nat /\ h.parts.size \in Nat /\ r.parts.size \in Nat
      /\ con.part_offsets \in Seq(Nat) /\ h.part_offsets \in Seq(Nat)
    BY <1>1, <1>5, BlobType DEF IsContainer
<1>7. IsContainer(r)
    <2>1. OffsetsFit(r)
        <3>1. OffsetsFit(h)
            BY <1>1 DEF IsContainer
        <3> QED
            BY SMTT(30), <1>4, <1>5, <1>6, <3>1 DEF OffsetsFit
    <2> QED
        BY <1>4, <1>5, <1>6, <2>1 DEF IsContainer
<1>8. ASSUME NEW codes \in Seq(Codes), r.parts.ok, Total(chs) = part_size, PartsAre(con, codes)
      PROVE  PartsAre(r, Append(codes, fourcc))
    <2> DEFINE n == Len(codes)
               all == Append(codes, fourcc)
    <2>1. /\ n \in Nat
          /\ Len(all) = n + 1 /\ DOMAIN all = 1 .. n + 1
          /\ \A i \in 1 .. n : all[i] = codes[i]
          /\ all[n + 1] = fourcc
          /\ all # <<>>
        BY <1>8
    <2>2. /\ con.parts.ok
          /\ Len(con.part_offsets) = n
          /\ DOMAIN codes = 1 .. n
          /\ IF codes = <<>> THEN con.parts.size = 0 ELSE con.part_offsets[1] = 0
          /\ \A i \in 1 .. n :
                /\ Holds(con.parts, con.part_offsets[i], codes[i])
                /\ Holds(con.parts, con.part_offsets[i] + 4,
                         EndOfPart(con, i) - con.part_offsets[i] - 8)
        BY <1>8 DEF PartsAre
    <2>3. /\ h.parts.ok
          /\ r.parts.size = con.parts.size + 8 + part_size
          /\ r.part_offsets = Append(con.part_offsets, con.parts.size)
          /\ Holds(r.parts, con.parts.size, fourcc)
          /\ Holds(r.parts, con.parts.size + 4, part_size)
          /\ \A offset, value :
                Holds(con.parts, offset, value) => Holds(r.parts, offset, value)
        BY <1>1, <1>4, <1>5, <1>8
    <2>4. /\ Len(r.part_offsets) = n + 1
          /\ \A i \in 1 .. n : r.part_offsets[i] = con.part_offsets[i]
          /\ r.part_offsets[n + 1] = con.parts.size
        BY <1>6, <2>2, <2>3
    <2> HIDE DEF n, all
    <2>5. r.part_offsets[1] = 0
        <3>1. CASE codes = <<>>
            BY <1>8, <2>2, <2>4, <3>1 DEF n
        <3>2. CASE codes # <<>>
            <4>1. 1 \in 1 .. n
                BY <1>8, <3>2 DEF n
            <4> QED
                BY <2>2, <2>4, <3>2, <4>1
        <3> QED
            BY <3>1, <3>2
    <2>6. \A i \in 1 .. n : EndOfPart(r, i) = EndOfPart(con, i)
        BY SMTT(30), <1>6, <2>1, <2>2, <2>4 DEF EndOfPart
    <2>7. EndOfPart(r, n + 1) = r.parts.size
        BY <2>4 DEF EndOfPart
    <2>8. ASSUME NEW i \in 1 .. n + 1
          PROVE  /\ Holds(r.parts, r.part_offsets[i], all[i])
                 /\ Holds(r.parts, r.part_offsets[i] + 4,
                          EndOfPart(r, i) - r.part_offsets[i] - 8)
        <3>1. CASE i \in 1 .. n
            BY <2>1, <2>2, <2>3, <2>4, <2>6, <3>1
        <3>2. CASE i = n + 1
            <4>1. EndOfPart(r, i) - r.part_offsets[i] - 8 = part_size
                BY SMTT(30), <1>6, <2>3, <2>4, <2>7, <3>2
            <4> QED
                BY <2>1, <2>3, <2>4, <3>2, <4>1
        <3> QED
            BY <2>1, <3>1, <3>2
    <2>9. PartsAre(r, all)
        BY <1>8, <2>1, <2>4, <2>5, <2>8 DEF PartsAre
    <2> QED
        BY <2>9 DEF all
<1> QED
    BY <1>7, <1>8
-----------------------------------------------------------------------------
(* The contents of the parts fill the sizes announced for them.            *)

LEMMA FeatureBytes ==
    ASSUME NEW chs, chs = <<Chunk("features", 8)>>
    PROVE  IsChunks(chs) /\ Total(chs) = 8
<1>1. chs \in Seq(Chunks({"features"})) /\ Len(chs) = 1 /\ chs[1].len = 8
    BY ChunkType
<1> QED
    BY <1>1, ShortTotals DEF IsChunks

LEMMA ModuleBytes ==
    ASSUME NEW bitcode \in Nat, NEW size, NEW chs,
           chs = <<Word("version"), Word(size), Word("magic"),
                   Word("dxil_version"), Word(16), Word(bitcode),
                   Chunk("bitcode", bitcode)>>
    PROVE  IsChunks(chs) /\ Total(chs) = 24 + bitcode
<1> DEFINE V == {"version", size, "magic", "dxil_version", 16, bitcode, "bitcode"}
<1>1. /\ \A v \in V : Word(v) \in Chunks(V)
      /\ Chunk("bitcode", bitcode) \in Chunks(V)
    BY ChunkType
<1>2. chs \in Seq(Chunks(V))
    BY <1>1
<1>3. /\ Len(chs) = 7
      /\ chs[1].len = 4 /\ chs[2].len = 4 /\ chs[3].len = 4 /\ chs[4].len = 4
      /\ chs[5].len = 4 /\ chs[6].len = 4 /\ chs[7].len = bitcode
    BY ChunkType
<1> HIDE DEF V
<1>4. Total(chs) = chs[1].len + chs[2].len + chs[3].len + chs[4].len
                   + chs[5].len + chs[6].len + chs[7].len
    BY <1>2, <1>3, ShortTotals
<1>5. Total(chs) = 4 + 4 + 4 + 4 + 4 + 4 + bitcode
    BY <1>3, <1>4
<1>6. IsChunks(chs)
    BY <1>2 DEF IsChunks
<1> QED
    BY <1>5, <1>6

LEMMA SumOfFour ==
    ASSUME NEW f \in [1..4 -> Nat]
    PROVE  SumOf(f) = f[1] + f[2] + f[3] + f[4]
<1>1. Len(f) = 4 /\ f[1] \in Nat /\ f[2] \in Nat /\ f[3] \in Nat /\ f[4] \in Nat
    OBVIOUS
<1>2. /\ SumUpTo(f, 1) = SumUpTo(f, 0) + f[1]
      /\ SumUpTo(f, 2) = SumUpTo(f, 1) + f[2]
      /\ SumUpTo(f, 3) = SumUpTo(f, 2) + f[3]
      /\ SumUpTo(f, 4) = SumUpTo(f, 3) + f[4]
    <2>1. \A n \in Nat \ {0} : SumUpTo(f, n) = SumUpTo(f, n - 1) + f[n]
        BY SumStep
    <2> QED
        BY <2>1
<1>3. SumUpTo(f, 0) = 0
    BY SumZero
<1> QED
    BY <1>1, <1>2, <1>3 DEF SumOf

LEMMA TableBytes ==
    ASSUME NEW m, NEW deps \in [1..4 -> Nat]
    PROVE  /\ IsChunks(DependencyTables(m, deps))
           /\ Total(DependencyTables(m, deps)) = 4 * SumOf(deps)
<1> DEFINE chs == DependencyTables(m, deps)
           V == {"zeros", "deps"}
<1>1. \A i \in 1..4 : deps[i] \in Nat /\ 4 * deps[i] \in Nat
    OBVIOUS
<1>2. \A i \in 1..4 : chs[i] \in Chunks(V) /\ chs[i].len = 4 * deps[i]
    BY <1>1, ChunkType DEF DependencyTables
<1>3. chs \in [1..4 -> Chunks(V)]
    BY <1>2 DEF DependencyTables
<1> HIDE DEF chs, V
<1>4. chs \in Seq(Chunks(V)) /\ Len(chs) = 4
    <2>1. chs = [i \in 1..4 |-> chs[i]]
        BY <1>3
    <2> DEFINE S == Chunks(V)
    <2>2. \A i \in 1..4 : chs[i] \in S
        BY <1>2
    <2> HIDE DEF S
    <2>3. [i \in 1..4 |-> chs[i]] \in Seq(S) /\ Len([i \in 1..4 |-> chs[i]]) = 4
        BY <2>2
    <2> QED
        BY <2>1, <2>3 DEF S
<1>5. Total(chs) = 4 * deps[1] + 4 * deps[2] + 4 * deps[3] + 4 * deps[4]
    BY <1>2, <1>4, ShortTotals
<1>6. SumOf(deps) = deps[1] + deps[2] + deps[3] + deps[4]
    BY SumOfFour
<1>7. Total(chs) = 4 * SumOf(deps)
    BY <1>1, <1>5, <1>6
<1> QED
    BY <1>4, <1>7 DEF IsChunks, chs

LEMMA RoundUpType ==
    ASSUME NEW n \in Nat
    PROVE  PaddingTo4(n) \in Nat /\ RoundUp4(n) = n + PaddingTo4(n)
                                 /\ RoundUp4(n) - n = PaddingTo4(n)
BY DEF PaddingTo4, RoundUp4

LEMMA StateBytes ==
    ASSUME NEW m, IsShader(m)
    PROVE  /\ PsvPartSize(m) \in Nat
           /\ IsChunks(PsvChunks(m))
           /\ Total(PsvChunks(m)) = PsvPartSize(m)
<1> DEFINE size == PsvSize(m.minor_validator)
           resource == ResourceSize(m.minor_validator)
           resources == resource * m.resources
           length == m.strings.length
           indices == Len(m.index_table)
           ins == Len(m.inputs)
           outs == Len(m.outputs)
           patches == Len(m.patch_consts)
<1>1. /\ size \in Nat /\ resources \in Nat /\ m.resources \in Nat
      /\ length \in Nat /\ indices \in Nat
      /\ ins \in Nat /\ outs \in Nat /\ patches \in Nat
      /\ PaddingTo4(length) \in Nat
      /\ RoundUp4(length) = length + PaddingTo4(length)
      /\ RoundUp4(length) - length = PaddingTo4(length)
    <2>1. \A s : IsRecords(s) => Len(s) \in Nat
        BY DEF IsRecords
    <2>2. resource \in Nat /\ m.resources \in Nat
        BY DEF ResourceSize, IsShader
    <2>3. resources \in Nat
        <3> HIDE DEF resource
        <3> QED
            BY <2>2
    <2>4. size \in Nat
        BY DEF PsvSize
    <2>5. length \in Nat /\ m.index_table \in Seq(Int)
        BY DEF IsShader
    <2>6. indices \in Nat
        BY <2>5
    <2>7. ins \in Nat /\ outs \in Nat /\ patches \in Nat
        BY <2>1 DEF IsShader
    <2>8. /\ PaddingTo4(length) \in Nat
          /\ RoundUp4(length) = length + PaddingTo4(length)
          /\ RoundUp4(length) - length = PaddingTo4(length)
        BY <2>5, RoundUpType
    <2> QED
        BY <2>2, <2>3, <2>4, <2>5, <2>6, <2>7, <2>8
<1> DEFINE A == <<Word(size), Chunk(PsvState(m), size), Word(m.resources)>>
           B == IF m.resources > 0
                THEN <<Word(resource), Chunk("resources", resources)>> ELSE <<>>
           C == <<Word(RoundUp4(length)), Chunk(m.strings.entries, length),
                  Chunk("fill", RoundUp4(length) - length), Word(indices)>>
           D == IF indices > 0 THEN <<Chunk(m.index_table, 4 * indices)>> ELSE <<>>
           E == IF NumSigs(m) > 0
                THEN <<Word(PsvElementSize),
                       Chunk(m.psv.inputs, PsvElementSize * ins),
                       Chunk(m.psv.outputs, PsvElementSize * outs),
                       Chunk(m.psv.patch_consts, PsvElementSize * patches)>>
                ELSE <<>>
           F == IF m.view_id THEN DependencyTables(m, m.view_id_deps) ELSE <<>>
           G == DependencyTables(m, m.io_deps)
<1>2. PsvChunks(m) = A \o B \o C \o D \o E \o F \o G
    BY DEF PsvChunks
<1>3. IsChunks(A) /\ Total(A) = size + 8
    <2> HIDE DEF size
    <2> DEFINE V == {size, PsvState(m), m.resources}
    <2>1. /\ Word(size) \in Chunks(V) /\ Chunk(PsvState(m), size) \in Chunks(V)
          /\ Word(m.resources) \in Chunks(V)
        BY <1>1, ChunkType
    <2>2. A \in Seq(Chunks(V))
        <3> HIDE DEF V
        <3> QED
            BY <2>1
    <2>3. Len(A) = 3 /\ A[1].len = 4 /\ A[2].len = size /\ A[3].len = 4
        BY ChunkType
    <2> HIDE DEF A, V
    <2> QED
        BY <1>1, <2>2, <2>3, ShortTotals DEF IsChunks
<1>4. IsChunks(B) /\ Total(B) = IF m.resources > 0 THEN 4 + resources ELSE 0
    <2> HIDE DEF resource, resources
    <2>1. CASE ~ m.resources > 0
        BY <2>1, EmptyChunks
    <2>2. CASE m.resources > 0
        <3> DEFINE V == {resource, "resources"}
        <3>1. Word(resource) \in Chunks(V) /\ Chunk("resources", resources) \in Chunks(V)
            BY <1>1, ChunkType
        <3>2. B \in Seq(Chunks(V))
            <4> HIDE DEF V
            <4> QED
                BY <2>2, <3>1
        <3>3. Len(B) = 2 /\ B[1].len = 4 /\ B[2].len = resources
            BY <2>2, ChunkType
        <3> HIDE DEF B, V
        <3> QED
            BY <2>2, <3>2, <3>3, ShortTotals DEF IsChunks
    <2> QED
        BY <2>1, <2>2
<1>5. IsChunks(C) /\ Total(C) = 8 + RoundUp4(length)
    <2> HIDE DEF length, indices
    <2> DEFINE fill == RoundUp4(length) - length
               V == {RoundUp4(length), m.strings.entries, "fill", indices}
    <2>1. /\ Word(RoundUp4(length)) \in Chunks(V)
          /\ Chunk(m.strings.entries, length) \in Chunks(V)
          /\ Chunk("fill", fill) \in Chunks(V) /\ Word(indices) \in Chunks(V)
        <3>1. fill \in Nat
            BY <1>1
        <3> HIDE DEF fill
        <3> QED
            BY <1>1, <3>1, ChunkType
    <2>2. C \in Seq(Chunks(V))
        <3> HIDE DEF V
        <3> QED
            BY <2>1
    <2>3. /\ Len(C) = 4 /\ C[1].len = 4 /\ C[2].len = length /\ C[3].len = fill
          /\ C[4].len = 4
        BY ChunkType
    <2> HIDE DEF C, V
    <2> QED
        BY SMTT(30), <1>1, <2>2, <2>3, ShortTotals DEF IsChunks
<1>6. IsChunks(D) /\ Total(D) = 4 * indices
    <2> HIDE DEF indices
    <2>1. CASE ~ indices > 0
        BY <1>1, <2>1, EmptyChunks
    <2>2. CASE indices > 0
        <3>1. Chunk(m.index_table, 4 * indices) \in Chunks({m.index_table})
            BY <1>1, ChunkType
        <3>2. D \in Seq(Chunks({m.index_table})) /\ Len(D) = 1
            BY <2>2, <3>1
        <3>3. D[1].len = 4 * indices
            BY <2>2, ChunkType
        <3> HIDE DEF D
        <3> QED
            BY <3>2, <3>3, ShortTotals DEF IsChunks
    <2> QED
        BY <2>1, <2>2
<1>7. /\ IsChunks(E)
      /\ Total(E) = (IF NumSigs(m) > 0 THEN 4 ELSE 0) + PsvElementSize * NumSigs(m)
    <2>1. NumSigs(m) = ins + outs + patches
        BY DEF NumSigs
    <2> HIDE DEF ins, outs, patches
    <2>2. CASE ~ NumSigs(m) > 0
        BY <1>1, <2>1, <2>2, EmptyChunks DEF PsvElementSize
    <2>3. CASE NumSigs(m) > 0
        <3> DEFINE V == {PsvElementSize, m.psv.inputs, m.psv.outputs, m.psv.patch_consts}
        <3>1. /\ PsvElementSize * ins \in Nat /\ PsvElementSize * outs \in Nat
              /\ PsvElementSize * patches \in Nat
            BY <1>1 DEF PsvElementSize
        <3>2. /\ Word(PsvElementSize) \in Chunks(V)
              /\ Chunk(m.psv.inputs, PsvElementSize * ins) \in Chunks(V)
              /\ Chunk(m.psv.outputs, PsvElementSize * outs) \in Chunks(V)
              /\ Chunk(m.psv.patch_consts, PsvElementSize * patches) \in Chunks(V)
            BY <3>1, ChunkType
        <3>3. E \in Seq(Chunks(V))
            <4> HIDE DEF V
            <4> QED
                BY <2>3, <3>2
        <3>4. /\ Len(E) = 4 /\ E[1].len = 4 /\ E[2].len = PsvElementSize * ins
              /\ E[3].len = PsvElementSize * outs
              /\ E[4].len = PsvElementSize * patches
            BY <2>3, ChunkType
        <3> HIDE DEF E, V
        <3>5. Total(E) = 4 + PsvElementSize * ins + PsvElementSize * outs
                           + PsvElementSize * patches
            BY <3>3, <3>4, ShortTotals
        <3>6. Total(E) = 4 + PsvElementSize * NumSigs(m)
            BY <1>1, <2>1, <3>5 DEF PsvElementSize
        <3> QED
            BY <2>3, <3>3, <3>6 DEF IsChunks
    <2> QED
        BY <2>2, <2>3
<1>8. IsChunks(F) /\ Total(F) = IF m.view_id THEN 4 * SumOf(m.view_id_deps) ELSE 0
    BY TableBytes, EmptyChunks DEF IsShader
<1>9. IsChunks(G) /\ Total(G) = 4 * SumOf(m.io_deps)
    BY TableBytes DEF IsShader
<1>10. PsvPartSize(m) = Total(A) + Total(B) + Total(C) + Total(D) + Total(E)
                          + Total(F) + Total(G)
    <2>1. /\ Total(A) \in Nat /\ Total(B) \in Nat /\ Total(C) \in Nat
          /\ Total(D) \in Nat /\ Total(E) \in Nat /\ Total(F) \in Nat
          /\ Total(G) \in Nat
        <3> HIDE DEF A, B, C, D, E, F, G
        <3> QED
            BY <1>3, <1>4, <1>5, <1>6, <1>7, <1>8, <1>9, EmptyChunks, ConcatChunks
    <2> DEFINE sigs == IF NumSigs(m) > 0 THEN 4 ELSE 0
    <2>2. PsvPartSize(m) =
             size + 8 + (IF m.resources > 0 THEN 4 + resources ELSE 0)
             + 4 + RoundUp4(length) + 4 + 4 * indices
             + sigs + PsvElementSize * NumSigs(m)
             + (IF m.view_id THEN 4 * SumOf(m.view_id_deps) ELSE 0)
             + 4 * SumOf(m.io_deps)
        BY DEF PsvPartSize
    <2>3. /\ sigs \in Nat /\ PsvElementSize * NumSigs(m) \in Nat
          /\ RoundUp4(length) \in Nat /\ 4 * indices \in Nat
        <3>1. NumSigs(m) = ins + outs + patches
            BY DEF NumSigs
        <3> HIDE DEF length, indices, ins, outs, patches
        <3> QED
            BY <1>1, <3>1 DEF PsvElementSize
    <2> HIDE DEF A, B, C, D, E, F, G, size, resources, length, indices, sigs
    <2> DEFINE p == PsvElementSize * NumSigs(m)
               q == RoundUp4(length)
               i4 == 4 * indices
    <2>4. /\ PsvPartSize(m) = size + 8 + Total(B) + 4 + q + 4 + i4 + sigs + p
                                + Total(F) + Total(G)
          /\ p \in Nat /\ q \in Nat /\ i4 \in Nat
          /\ Total(A) = size + 8 /\ Total(C) = 8 + q /\ Total(D) = i4
          /\ Total(E) = sigs + p
        BY <1>3, <1>4, <1>5, <1>6, <1>7, <1>8, <1>9, <2>2, <2>3 DEF sigs
    <2> HIDE DEF p, q, i4
    <2>5. size \in Nat /\ sigs \in Nat
        BY <1>1, <2>3
    <2>6. PsvPartSize(m) = Total(A) + Total(B) + Total(C) + i4 + sigs + p
                             + Total(F) + Total(G)
        BY <2>1, <2>4, <2>5
    <2>7. i4 + (sigs + p) = Total(D) + Total(E)
        BY <2>1, <2>4, <2>5
    <2> QED
        BY <2>1, <2>4, <2>5, <2>6, <2>7
<1> HIDE DEF A, B, C, D, E, F, G
<1>11. IsChunks(A \o B) /\ Total(A \o B) = Total(A) + Total(B)
    BY <1>3, <1>4, ConcatChunks
<1>12. IsChunks(A \o B \o C) /\ Total(A \o B \o C) = Total(A) + Total(B) + Total(C)
    BY <1>5, <1>11, ConcatChunks
<1>13. /\ IsChunks(A \o B \o C \o D)
       /\ Total(A \o B \o C \o D) = Total(A) + Total(B) + Total(C) + Total(D)
    BY <1>6, <1>12, ConcatChunks
<1>14. /\ IsChunks(A \o B \o C \o D \o E)
       /\ Total(A \o B \o C \o D \o E)
             = Total(A) + Total(B) + Total(C) + Total(D) + Total(E)
    BY <1>7, <1>13, ConcatChunks
<1>15. /\ IsChunks(A \o B \o C \o D \o E \o F)
       /\ Total(A \o B \o C \o D \o E \o F)
             = Total(A) + Total(B) + Total(C) + Total(D) + Total(E) + Total(F)
    BY <1>8, <1>14, ConcatChunks
<1>16. /\ IsChunks(A \o B \o C \o D \o E \o F \o G)
       /\ Total(A \o B \o C \o D \o E \o F \o G)
             = Total(A) + Total(B) + Total(C) + Total(D) + Total(E) + Total(F) + Total(G)
       /\ Total(A \o B \o C \o D \o E \o F \o G) \in Nat
    <2>1. /\ IsChunks(A \o B \o C \o D \o E \o F \o G)
          /\ Total(A \o B \o C \o D \o E \o F \o G)
             = Total(A) + Total(B) + Total(C) + Total(D) + Total(E) + Total(F) + Total(G)
        BY <1>9, <1>15, ConcatChunks
    <2> HIDE DEF PsvChunks
    <2> QED
        BY <2>1, EmptyChunks, ConcatChunks
<1> QED
    BY <1>2, <1>10, <1>16

LEMMA RecordType ==
    ASSUME NEW records, IsRecords(records)
    PROVE  /\ Len(records) \in Nat
           /\ DOMAIN records = 1 .. Len(records)
           /\ \A i \in 1 .. Len(records) : /\ records[i].num_elements \in Nat
                                           /\ records[i].name.len \in Nat
BY DEF IsRecords, ToSet

LEMMA AppendChunk ==
    ASSUME NEW chs, IsChunks(chs), NEW value, NEW n \in Nat
    PROVE  /\ IsChunks(Append(chs, Chunk(value, n)))
           /\ Total(Append(chs, Chunk(value, n))) = Total(chs) + n
<1> DEFINE one == <<Chunk(value, n)>>
<1>1. one \in Seq(Chunks({value})) /\ Len(one) = 1 /\ one[1].len = n
    BY ChunkType
<1>2. Append(chs, Chunk(value, n)) = chs \o one
    <2>1. PICK V : chs \in Seq(Chunks(V))
        BY DEF IsChunks
    <2> DEFINE S == Chunks(V)
    <2> HIDE DEF S
    <2> QED
        BY <2>1 DEF S
<1> HIDE DEF one
<1>3. IsChunks(one) /\ Total(one) = n
    BY <1>1, ShortTotals DEF IsChunks
<1> QED
    BY <1>2, <1>3, ConcatChunks

LEMMA ElementBytes ==
    ASSUME NEW record, record.num_elements \in Nat, NEW i, NEW offset
    PROVE  /\ IsChunks(ElementsOf(record, i, offset))
           /\ Total(ElementsOf(record, i, offset)) = ElementSize * record.num_elements
<1> DEFINE v == [semantic_name_offset |-> offset, record |-> i]
           n == record.num_elements
           chs == ElementsOf(record, i, offset)
           S == Chunks({v})
<1>1. chs = [j \in 1..n |-> Chunk(v, ElementSize)]
    BY DEF ElementsOf
<1>2. Chunk(v, ElementSize) \in S /\ Chunk(v, ElementSize).len = ElementSize
    BY ChunkType DEF ElementSize
<1> HIDE DEF chs, S, v
<1>3. /\ chs \in Seq(S) /\ Len(chs) = n
      /\ \A j \in 1..n : chs[j].len = ElementSize
    BY <1>1, <1>2
<1>4. Total(chs) = ElementSize * n
    <2>1. \A j \in 1..n : Lens(chs)[j] = ElementSize
        BY <1>3, LensType DEF S
    <2>2. ElementSize \in Nat
        BY DEF ElementSize
    <2>3. SumUpTo(Lens(chs), n) = ElementSize * n
        BY <2>1, <2>2, SumOfEqual
    <2> QED
        BY <1>3, <2>3, LensType DEF S
<1> QED
    BY <1>3, <1>4 DEF IsChunks, S, chs

IsCopied(records, offsets, n, s) ==
    s = [i \in 0..n |-> IF i = 0 THEN <<>>
                        ELSE s[i-1] \o ElementsOf(records[i], i, offsets[i])]

LEMMA CopiedExists ==
    ASSUME NEW records, Len(records) \in Nat, NEW offsets
    PROVE  \E s : /\ IsCopied(records, offsets, Len(records), s)
                  /\ Elements(records, offsets) = s[Len(records)]
<1> DEFINE n == Len(records)
           T == {k \in 0 .. n : \E s : IsCopied(records, offsets, k, s)}
<1>1. 0 \in T
    <2>1. IsCopied(records, offsets, 0, [i \in 0..0 |-> <<>>])
        BY DEF IsCopied
    <2> QED
        BY <2>1
<1>2. ASSUME NEW k \in 1 .. n, k - 1 \in T
      PROVE  k \in T
    <2>1. PICK s : IsCopied(records, offsets, k - 1, s)
        BY <1>2
    <2> DEFINE t == [i \in 0..k |-> IF i = k
                        THEN s[k-1] \o ElementsOf(records[k], k, offsets[k])
                        ELSE s[i]]
    <2>2. IsCopied(records, offsets, k, t)
        BY <2>1 DEF IsCopied
    <2> QED
        BY <2>2
<1>3. T = 0 .. n
    <2> HIDE DEF T
    <2>1. T \subseteq 0 .. n
        BY DEF T
    <2> QED
        BY <1>1, <1>2, <2>1, Upwards
<1>4. \E s : IsCopied(records, offsets, n, s)
    BY <1>3
<1> QED
    BY <1>4 DEF Elements, IsCopied

LEMMA ElementsBytes ==
    ASSUME NEW records, IsRecords(records), NEW offsets
    PROVE  /\ IsChunks(Elements(records, offsets))
           /\ ElementCount(records) \in Nat
           /\ Total(Elements(records, offsets)) = ElementSize * ElementCount(records)
<1> DEFINE n == Len(records)
           f == [i \in DOMAIN records |-> records[i].num_elements]
<1>1. /\ n \in Nat /\ DOMAIN records = 1 .. n
      /\ \A i \in 1 .. n : f[i] = records[i].num_elements /\ f[i] \in Nat
    BY RecordType
<1>2. f \in Seq(Nat) /\ Len(f) = n
    BY <1>1
<1>3. PICK s : /\ IsCopied(records, offsets, n, s)
               /\ Elements(records, offsets) = s[n]
    BY <1>1, CopiedExists
<1>4. ElementCount(records) = SumUpTo(f, n)
    BY <1>2 DEF ElementCount, SumOf
<1> HIDE DEF f
<1>5. \A k \in 0 .. n : SumUpTo(f, k) \in Nat
    BY <1>1, SumType
<1> DEFINE T == {k \in 0 .. n : /\ IsChunks(s[k])
                                /\ Total(s[k]) = ElementSize * SumUpTo(f, k)}
<1>6. 0 \in T
    <2>1. s[0] = <<>>
        BY <1>1, <1>3 DEF IsCopied
    <2> QED
        BY <1>1, <2>1, EmptyChunks, SumZero DEF ElementSize
<1>7. ASSUME NEW k \in 1 .. n, k - 1 \in T
      PROVE  k \in T
    <2> DEFINE e == ElementsOf(records[k], k, offsets[k])
    <2>1. s[k] = s[k - 1] \o e
        <3>1. k \in 0 .. n /\ k # 0
            BY <1>1
        <3>2. s[k] = IF k = 0 THEN <<>> ELSE s[k - 1] \o e
            BY <1>3, <3>1, Zenon DEF IsCopied
        <3> QED
            BY <3>1, <3>2, Zenon
    <2>2. IsChunks(e) /\ Total(e) = ElementSize * f[k]
        BY <1>1, ElementBytes
    <2> HIDE DEF e
    <2>3. IsChunks(s[k]) /\ Total(s[k]) = Total(s[k - 1]) + Total(e)
        BY <1>7, <2>1, <2>2, ConcatChunks
    <2>4. SumUpTo(f, k) = SumUpTo(f, k - 1) + f[k]
        BY SumStep
    <2>5. Total(s[k - 1]) = ElementSize * SumUpTo(f, k - 1)
        BY <1>7
    <2>6. SumUpTo(f, k - 1) \in Nat /\ f[k] \in Nat
        BY <1>1, <1>5
    <2>7. Total(s[k]) = ElementSize * SumUpTo(f, k)
        BY <2>2, <2>3, <2>4, <2>5, <2>6 DEF ElementSize
    <2> QED
        BY <1>1, <2>3, <2>7
<1>8. T = 0 .. n
    <2> HIDE DEF T
    <2>1. T \subseteq 0 .. n
        BY DEF T
    <2> QED
        BY <1>1, <1>6, <1>7, <2>1, Upwards
<1> QED
    BY <1>1, <1>3, <1>4, <1>5, <1>8

(* The name buffer holds the bytes it counts.                              *)
IsNames(names) ==
    /\ \E L, C, K, O : names \in [length : L, chunks : C, cache : K, offsets : O]
    /\ names.length \in Nat
    /\ IsChunks(names.chunks)
    /\ Total(names.chunks) = names.length

LEMMA NameStored ==
    ASSUME NEW names, IsNames(names), NEW name, name.len \in Nat,
           NEW buf_offset, NEW v7,
           NEW r, r = get_semantic_name_offset(names, name, buf_offset, v7)
    PROVE  IsNames(r)
<1> DEFINE offset == names.length + buf_offset
           hits == CachedAt(names, name)
           found == CHOOSE i \in hits : TRUE
           offsets == Append(names.offsets, names.cache[found].offset)
           chunks == Append(names.chunks, Chunk(name, name.len + 1))
           cache == IF Shareable(name, v7)
                    THEN Append(names.cache, [name |-> name, offset |-> offset])
                    ELSE names.cache
<1>1. r = IF Shareable(name, v7) /\ hits # {}
          THEN [names EXCEPT !.offsets = offsets]
          ELSE [length |-> names.length + name.len + 1, chunks |-> chunks,
                cache |-> cache, offsets |-> Append(names.offsets, offset)]
    <2>1. PICK L, C, K, O : names \in [length : L, chunks : C, cache : K, offsets : O]
        BY DEF IsNames
    <2> QED
        BY <2>1 DEF get_semantic_name_offset
<1>2. /\ IsChunks(chunks)
      /\ Total(chunks) = names.length + name.len + 1
      /\ names.length + name.len + 1 \in Nat
    <2>1. name.len + 1 \in Nat
        OBVIOUS
    <2>2. IsChunks(chunks) /\ Total(chunks) = Total(names.chunks) + (name.len + 1)
        BY <2>1, AppendChunk DEF IsNames
    <2> HIDE DEF chunks
    <2> QED
        BY <2>2 DEF IsNames
<1> HIDE DEF hits, offsets, chunks, cache, offset
<1>3. CASE Shareable(name, v7) /\ hits # {}
    <2>1. PICK L, C, K, O : names \in [length : L, chunks : C, cache : K, offsets : O]
        BY DEF IsNames
    <2>2. /\ r \in [length : L, chunks : C, cache : K, offsets : O \union {offsets}]
          /\ r.length = names.length /\ r.chunks = names.chunks
        BY <1>1, <1>3, <2>1
    <2>3. \E A, B, D, E : r \in [length : A, chunks : B, cache : D, offsets : E]
        BY <2>2, Zenon
    <2> QED
        BY <2>2, <2>3 DEF IsNames
<1>4. CASE ~ (Shareable(name, v7) /\ hits # {})
    <2>1. r = [length |-> names.length + name.len + 1, chunks |-> chunks,
               cache |-> cache, offsets |-> Append(names.offsets, offset)]
        BY <1>1, <1>4
    <2>2. /\ r \in [length : {r.length}, chunks : {r.chunks}, cache : {r.cache},
                    offsets : {r.offsets}]
          /\ r.length = names.length + name.len + 1 /\ r.chunks = chunks
        BY <2>1
    <2>3. \E A, B, D, E : r \in [length : A, chunks : B, cache : D, offsets : E]
        BY <2>2, Zenon
    <2> QED
        BY <1>2, <2>2, <2>3 DEF IsNames
<1> QED
    BY <1>3, <1>4

IsCollected(records, buf_offset, v7, n, s) ==
    s = [i \in 0..n |-> IF i = 0 THEN NoNames
                        ELSE get_semantic_name_offset(s[i-1], records[i].name,
                                                      buf_offset, v7)]

LEMMA CollectedExists ==
    ASSUME NEW records, NEW buf_offset, NEW v7, NEW n \in Nat
    PROVE  \E s : IsCollected(records, buf_offset, v7, n, s)
<1> DEFINE T == {k \in 0 .. n : \E s : IsCollected(records, buf_offset, v7, k, s)}
<1>1. 0 \in T
    <2>1. IsCollected(records, buf_offset, v7, 0, [i \in 0..0 |-> NoNames])
        BY DEF IsCollected
    <2> QED
        BY <2>1
<1>2. ASSUME NEW k \in 1 .. n, k - 1 \in T
      PROVE  k \in T
    <2>1. PICK s : IsCollected(records, buf_offset, v7, k - 1, s)
        BY <1>2
    <2> DEFINE t == [i \in 0..k |-> IF i = k
                        THEN get_semantic_name_offset(s[k-1], records[k].name,
                                                      buf_offset, v7)
                        ELSE s[i]]
    <2>2. IsCollected(records, buf_offset, v7, k, t)
        BY <2>1 DEF IsCollected
    <2> QED
        BY <2>2
<1>3. T = 0 .. n
    <2> HIDE DEF T
    <2>1. T \subseteq 0 .. n
        BY DEF T
    <2> QED
        BY <1>1, <1>2, <2>1, Upwards
<1> QED
    BY <1>3

LEMMA NamesBytes ==
    ASSUME NEW records, IsRecords(records), NEW buf_offset, NEW v7,
           NEW names, names = collect_semantic_names(records, buf_offset, v7)
    PROVE  IsNames(names)
<1> DEFINE n == Len(records)
           collected == CHOOSE s : IsCollected(records, buf_offset, v7, n, s)
           last == collected[n]
           pad == PaddingTo4(last.length)
<1>1. n \in Nat /\ \A i \in 1 .. n : records[i].name.len \in Nat
    BY RecordType
<1>2. IsCollected(records, buf_offset, v7, n, collected)
    BY <1>1, CollectedExists
<1>3. names = IF v7 /\ pad # 0
              THEN [last EXCEPT !.length = last.length + pad,
                                !.chunks = Append(last.chunks, Chunk("padding", pad))]
              ELSE last
    BY DEF collect_semantic_names, IsCollected
<1> HIDE DEF collected
<1> DEFINE T == {k \in 0 .. n : IsNames(collected[k])}
<1>4. 0 \in T
    <2>1. collected[0] = NoNames
        BY <1>1, <1>2 DEF IsCollected
    <2>2. /\ NoNames \in [length : {0}, chunks : {<<>>}, cache : {<<>>}, offsets : {<<>>}]
          /\ NoNames.length = 0 /\ NoNames.chunks = <<>>
        BY DEF NoNames
    <2>3. \E A, B, D, E : NoNames \in [length : A, chunks : B, cache : D, offsets : E]
        BY <2>2, Zenon
    <2>4. IsNames(NoNames)
        BY <2>2, <2>3, EmptyChunks DEF IsNames
    <2> QED
        BY <1>1, <2>1, <2>4
<1>5. ASSUME NEW k \in 1 .. n, k - 1 \in T
      PROVE  k \in T
    <2>1. collected[k] = get_semantic_name_offset(collected[k - 1], records[k].name,
                                                  buf_offset, v7)
        <3>1. k \in 0 .. n /\ k # 0
            BY <1>1
        <3> QED
            BY <1>2, <3>1, Zenon DEF IsCollected
    <2>2. IsNames(collected[k])
        BY <1>1, <1>5, <2>1, NameStored
    <2> QED
        BY <1>1, <2>2
<1>6. T = 0 .. n
    <2> HIDE DEF T
    <2>1. T \subseteq 0 .. n
        BY DEF T
    <2> QED
        BY <1>1, <1>4, <1>5, <2>1, Upwards
<1>7. IsNames(last)
    BY <1>1, <1>6
<1> HIDE DEF last
<1>8. pad \in Nat
    BY <1>7, RoundUpType DEF IsNames
<1> HIDE DEF pad
<1>9. CASE v7 /\ pad # 0
    <2> DEFINE length == last.length + pad
               chunks == Append(last.chunks, Chunk("padding", pad))
    <2>1. length \in Nat /\ IsChunks(chunks) /\ Total(chunks) = length
        BY <1>7, <1>8, AppendChunk DEF IsNames
    <2>2. names = [last EXCEPT !.length = length, !.chunks = chunks]
        BY <1>3, <1>9
    <2> HIDE DEF length, chunks
    <2>3. PICK L, C, K, O : last \in [length : L, chunks : C, cache : K, offsets : O]
        BY <1>7 DEF IsNames
    <2>4. /\ names \in [length : {length}, chunks : {chunks}, cache : K, offsets : O]
          /\ names.length = length /\ names.chunks = chunks
        BY <2>2, <2>3
    <2>5. \E A, B, D, E : names \in [length : A, chunks : B, cache : D, offsets : E]
        BY <2>4, Zenon
    <2> QED
        BY <2>1, <2>4, <2>5 DEF IsNames
<1>10. CASE ~ (v7 /\ pad # 0)
    BY <1>3, <1>7, <1>10
<1> QED
    BY <1>9, <1>10

(* What dxil_container_add_io_signature writes                             *)
SignatureChunks(records, count, names) ==
    <<Word(count), Word(8)>> \o Elements(records, names.offsets) \o names.chunks

LEMMA SignatureBytes ==
    ASSUME NEW records, IsRecords(records), NEW v7,
           NEW count, count = ElementCount(records),
           NEW names, names = collect_semantic_names(records, 8 + ElementSize * count, v7),
           NEW chs, chs = SignatureChunks(records, count, names)
    PROVE  /\ 8 + ElementSize * count + names.length \in Nat
           /\ IsChunks(chs)
           /\ Total(chs) = 8 + ElementSize * count + names.length
<1> DEFINE A == <<Word(count), Word(8)>>
           B == Elements(records, names.offsets)
<1>1. IsChunks(A) /\ Total(A) = 8
    <2>1. A \in Seq(Chunks({count, 8})) /\ Len(A) = 2
        BY ChunkType
    <2>2. A[1].len = 4 /\ A[2].len = 4
        BY ChunkType
    <2> HIDE DEF A
    <2> QED
        BY <2>1, <2>2, ShortTotals DEF IsChunks
<1>2. /\ IsChunks(B) /\ count \in Nat /\ Total(B) = ElementSize * count
    BY ElementsBytes
<1>3. IsNames(names)
    BY NamesBytes
<1> HIDE DEF A, B
<1>4. IsChunks(A \o B) /\ Total(A \o B) = 8 + ElementSize * count
    BY <1>1, <1>2, ConcatChunks
<1>5. /\ IsChunks(A \o B \o names.chunks)
      /\ Total(A \o B \o names.chunks) = 8 + ElementSize * count + names.length
    BY <1>3, <1>4, ConcatChunks DEF IsNames
<1>6. 8 + ElementSize * count + names.length \in Nat
    BY <1>2, <1>3 DEF IsNames, ElementSize
<1> QED
    BY <1>5, <1>6 DEF A, B, SignatureChunks
-----------------------------------------------------------------------------
(* The finished file: the directory, then the parts as one block.          *)

LEMMA Copied ==
    ASSUME NEW parts, IsBlob(parts), IsLaid(parts),
           NEW bl, IsBlob(bl), IsLaid(bl), NEW r, r = CopyOf(parts, bl)
    PROVE  /\ IsBlob(r) /\ IsLaid(r)
           /\ r.ok => /\ bl.ok
                      /\ r.size = bl.size + parts.size
                      /\ \A offset, value :
                            /\ Holds(bl, offset, value) => Holds(r, offset, value)
                            /\ Holds(parts, offset, value)
                                  => Holds(r, offset + bl.size, value)
<1>1. CASE ~ bl.ok
    BY <1>1 DEF CopyOf
<1>2. CASE bl.ok /\ bl.size + parts.size > bl.limit
    <2>1. PICK V : bl \in Blobs(V)
        BY DEF IsBlob
    <2>2. r = [bl EXCEPT !.out_of_memory = TRUE, !.ok = FALSE]
        BY <1>2 DEF CopyOf
    <2>3. /\ r \in Blobs(V) /\ ~ r.ok /\ r.out_of_memory /\ r.chunks = bl.chunks
          /\ r.size = bl.size /\ r.limit = bl.limit
        BY <2>1, <2>2 DEF Blobs
    <2>4. IsLaid(r)
        BY <2>3 DEF IsLaid
    <2>5. IsBlob(r)
        BY <2>3 DEF IsBlob
    <2> QED
        BY <2>3, <2>4, <2>5
<1>3. CASE bl.ok /\ ~ (bl.size + parts.size > bl.limit)
    <2>1. PICK U : bl \in Blobs(U)
        BY DEF IsBlob
    <2>2. PICK W : parts \in Blobs(W)
        BY DEF IsBlob
    <2> DEFINE V == U \union W
    <2>3. bl \in Blobs(V) /\ parts \in Blobs(V)
        <3>1. U \subseteq V /\ W \subseteq V
            OBVIOUS
        <3> HIDE DEF V
        <3> QED
            BY <2>1, <2>2, <3>1, Widen
    <2> HIDE DEF V
    <2> DEFINE R == [at : Nat, value : V, len : Nat]
               a == bl.chunks
               b == [i \in DOMAIN parts.chunks |->
                       [parts.chunks[i] EXCEPT !.at = @ + bl.size]]
               n == Len(bl.chunks)
               m == Len(parts.chunks)
    <2>4. /\ a \in Seq(R) /\ parts.chunks \in Seq(R)
          /\ bl.size \in Nat /\ parts.size \in Nat /\ bl.limit \in Nat
        BY <2>3 DEF Blobs
    <2>5. /\ n \in Nat /\ m \in Nat
          /\ DOMAIN bl.chunks = 1 .. n /\ DOMAIN parts.chunks = 1 .. m
          /\ \A i \in 1 .. n : bl.chunks[i].at \in Nat /\ bl.chunks[i].len \in Nat
          /\ \A i \in 1 .. m : /\ parts.chunks[i].at \in Nat
                               /\ parts.chunks[i].len \in Nat
        BY BlobType
    <2>6. \A i \in 1 .. m : parts.chunks[i] \in R
        <3> HIDE DEF R
        <3> QED
            BY <2>4
    <2>7. \A i \in 1 .. m : /\ b[i] \in R
                            /\ b[i].at = parts.chunks[i].at + bl.size
                            /\ b[i].value = parts.chunks[i].value
                            /\ b[i].len = parts.chunks[i].len
        <3> SUFFICES ASSUME NEW i \in 1 .. m
                     PROVE  /\ b[i] \in R
                            /\ b[i].at = parts.chunks[i].at + bl.size
                            /\ b[i].value = parts.chunks[i].value
                            /\ b[i].len = parts.chunks[i].len
            OBVIOUS
        <3> DEFINE q == parts.chunks[i]
        <3>1. q \in R /\ q.at + bl.size \in Nat
            BY SMTT(30), <2>4, <2>5, <2>6
        <3>2. b[i] = [q EXCEPT !.at = q.at + bl.size]
            BY <2>5, <3>1
        <3> HIDE DEF b, q
        <3>3. b[i] \in R /\ b[i].at = q.at + bl.size /\ b[i].value = q.value
              /\ b[i].len = q.len
            BY <3>1, <3>2
        <3> QED
            BY <3>3 DEF q
    <2>8. b \in Seq(R) /\ Len(b) = m
        <3>1. b = [i \in 1 .. m |-> b[i]]
            BY <2>5
        <3> HIDE DEF b, R
        <3>2. [i \in 1 .. m |-> b[i]] \in Seq(R) /\ Len([i \in 1 .. m |-> b[i]]) = m
            BY <2>5, <2>7
        <3> QED
            BY <3>1, <3>2
    <2>9. r = [bl EXCEPT !.chunks = a \o b, !.size = bl.size + parts.size]
        <3>1. ~ bl.out_of_memory /\ bl.ok
            BY <1>3 DEF IsLaid
        <3>2. r = [bl EXCEPT !.chunks = @ \o b, !.size = @ + parts.size]
            BY <1>3, <3>1 DEF CopyOf
        <3> HIDE DEF b
        <3> QED
            BY <2>3, <3>2 DEF Blobs
    <2> HIDE DEF b
    <2>10. /\ a \o b \in Seq(R) /\ Len(a \o b) = n + m
           /\ \A i \in 1 .. n : (a \o b)[i] = bl.chunks[i]
           /\ \A i \in 1 .. m : (a \o b)[n + i] = b[i]
        <3>1. a \in Seq(R) /\ b \in Seq(R) /\ Len(a) = n
            BY <2>4, <2>8
        <3> HIDE DEF R, a
        <3>2. a \o b \in Seq(R) /\ Len(a \o b) = Len(a) + Len(b)
            BY <3>1
        <3>3. /\ \A i \in 1 .. Len(a) : (a \o b)[i] = a[i]
              /\ \A i \in 1 .. Len(b) : (a \o b)[Len(a) + i] = b[i]
            BY <3>1
        <3> QED
            BY <2>8, <3>1, <3>2, <3>3 DEF a
    <2>11. /\ r.chunks = a \o b /\ r.size = bl.size + parts.size
           /\ r.limit = bl.limit /\ r.ok = bl.ok /\ r.out_of_memory = bl.out_of_memory
           /\ r \in Blobs(V)
        <3>1. bl.size + parts.size \in Nat
            BY <2>4
        <3> DEFINE x == a \o b
        <3>2. x \in Seq([at : Nat, value : V, len : Nat])
            BY <2>10
        <3>3. r = [bl EXCEPT !.chunks = x, !.size = bl.size + parts.size]
            BY <2>9
        <3> HIDE DEF x
        <3>4. /\ r.chunks = x /\ r.size = bl.size + parts.size
              /\ r.limit = bl.limit /\ r.ok = bl.ok
              /\ r.out_of_memory = bl.out_of_memory /\ r \in Blobs(V)
            BY <2>3, <3>1, <3>2, <3>3 DEF Blobs
        <3> QED
            BY <3>4 DEF x
    <2> HIDE DEF a, R, n, m
    <2>12. /\ DOMAIN r.chunks = 1 .. n + m
           /\ \A i \in 1 .. n : r.chunks[i] = bl.chunks[i]
           /\ \A i \in 1 .. m : r.chunks[n + i] = b[i]
        <3>1. DOMAIN (a \o b) = 1 .. n + m
            BY <2>10
        <3> QED
            BY <2>10, <2>11, <3>1
    <2>13. ASSUME NEW i \in 1 .. n
           PROVE  /\ r.chunks[i].at + r.chunks[i].len <= bl.size
                  /\ \A j \in 1..i-1 :
                        r.chunks[j].at + r.chunks[j].len <= r.chunks[i].at
        <3>1. \A j \in 1..i-1 : j \in 1 .. n
            BY <2>5
        <3> QED
            BY <2>5, <2>12, <3>1 DEF IsLaid
    <2>14. ASSUME NEW i \in 1 .. m
           PROVE  /\ r.chunks[n + i].at + r.chunks[n + i].len <= r.size
                  /\ \A j \in 1 .. n + i - 1 :
                        r.chunks[j].at + r.chunks[j].len <= r.chunks[n + i].at
        <3>1. /\ r.chunks[n + i].at = parts.chunks[i].at + bl.size
              /\ r.chunks[n + i].len = parts.chunks[i].len
            BY <2>7, <2>12
        <3>2. parts.chunks[i].at + parts.chunks[i].len <= parts.size
            BY <2>5 DEF IsLaid
        <3>3. r.chunks[n + i].at + r.chunks[n + i].len <= r.size
            <4>1. /\ parts.chunks[i].at \in Nat /\ parts.chunks[i].len \in Nat
                  /\ bl.size \in Nat /\ parts.size \in Nat
                BY <2>4, <2>5
            <4>2. r.size = bl.size + parts.size
                BY <2>11
            <4> QED
                BY <3>1, <3>2, <4>1, <4>2
        <3>4. ASSUME NEW j \in 1 .. n + i - 1
              PROVE  r.chunks[j].at + r.chunks[j].len <= r.chunks[n + i].at
            <4>1. CASE j \in 1 .. n
                <5>1. r.chunks[j].at + r.chunks[j].len <= bl.size
                    BY <2>13, <4>1
                <5>2. r.chunks[j].at \in Nat /\ r.chunks[j].len \in Nat
                    BY <2>5, <2>12, <4>1
                <5>3. bl.size <= r.chunks[n + i].at
                    <6>1. bl.size \in Nat /\ parts.chunks[i].at \in Nat
                        BY <2>4, <2>5
                    <6> QED
                        BY <3>1, <6>1
                <5>4. bl.size \in Nat /\ r.chunks[n + i].at \in Nat
                    BY <2>4, <2>5, <3>1
                <5> QED
                    BY <5>1, <5>2, <5>3, <5>4
            <4>2. CASE j \notin 1 .. n
                <5> DEFINE k == j - n
                <5>1. k \in 1 .. i - 1 /\ j = n + k /\ k \in 1 .. m
                    BY <2>5, <4>2
                <5> HIDE DEF k
                <5>2. parts.chunks[k].at + parts.chunks[k].len <= parts.chunks[i].at
                    BY <2>5, <5>1 DEF IsLaid
                <5>3. /\ r.chunks[j].at = parts.chunks[k].at + bl.size
                      /\ r.chunks[j].len = parts.chunks[k].len
                    BY <2>7, <2>12, <5>1
                <5>4. /\ bl.size \in Nat /\ parts.chunks[i].at \in Nat
                      /\ parts.chunks[k].at \in Nat /\ parts.chunks[k].len \in Nat
                    BY <2>4, <2>5, <5>1
                <5> QED
                    BY <3>1, <5>2, <5>3, <5>4
            <4> QED
                BY <4>1, <4>2
        <3> QED
            BY <3>3, <3>4
    <2>15. IsLaid(r)
        <3>1. ASSUME NEW i \in DOMAIN r.chunks
              PROVE  /\ r.chunks[i].at + r.chunks[i].len <= r.size
                     /\ \A j \in 1..i-1 :
                           r.chunks[j].at + r.chunks[j].len <= r.chunks[i].at
            <4>1. CASE i \in 1 .. n
                <5>1. r.chunks[i].at \in Nat /\ r.chunks[i].len \in Nat
                    BY <2>5, <2>12, <4>1
                <5>2. bl.size <= r.size /\ bl.size \in Nat /\ r.size \in Nat
                    BY <2>4, <2>11
                <5>3. r.chunks[i].at + r.chunks[i].len <= bl.size
                    BY <2>13, <4>1
                <5>4. r.chunks[i].at + r.chunks[i].len <= r.size
                    BY <5>1, <5>2, <5>3
                <5> QED
                    BY <2>13, <4>1, <5>4
            <4>2. CASE i \notin 1 .. n
                <5> DEFINE k == i - n
                <5>1. k \in 1 .. m /\ i = n + k
                    BY <2>5, <2>12, <4>2
                <5> HIDE DEF k
                <5>2. /\ r.chunks[n + k].at + r.chunks[n + k].len <= r.size
                      /\ \A j \in 1 .. n + k - 1 :
                            r.chunks[j].at + r.chunks[j].len <= r.chunks[n + k].at
                    BY <2>14, <5>1
                <5>3. 1 .. n + k - 1 = 1 .. i - 1
                    <6>1. n \in Nat /\ k \in Nat /\ i = n + k
                        BY <2>5, <5>1
                    <6> QED
                        BY <6>1
                <5> QED
                    BY <5>1, <5>2, <5>3, Zenon
            <4> QED
                BY <4>1, <4>2
        <3>2. r.size <= r.limit /\ (r.ok <=> ~ r.out_of_memory)
            BY <1>3, <2>4, <2>11 DEF IsLaid
        <3> QED
            BY <3>1, <3>2 DEF IsLaid
    <2>16. IsBlob(r)
        BY <2>11 DEF IsBlob
    <2>17. ASSUME NEW offset, NEW value, Holds(bl, offset, value)
           PROVE  Holds(r, offset, value)
        <3>1. PICK i \in 1 .. n : /\ bl.chunks[i].at = offset
                                  /\ bl.chunks[i].value = value
                                  /\ bl.chunks[i].len > 0
            BY <2>5, <2>17 DEF Holds
        <3>2. i \in DOMAIN r.chunks /\ r.chunks[i] = bl.chunks[i]
            BY <2>5, <2>12
        <3> QED
            BY <3>1, <3>2 DEF Holds
    <2>18. ASSUME NEW offset, NEW value, Holds(parts, offset, value)
           PROVE  Holds(r, offset + bl.size, value)
        <3>1. PICK i \in 1 .. m : /\ parts.chunks[i].at = offset
                                  /\ parts.chunks[i].value = value
                                  /\ parts.chunks[i].len > 0
            BY <2>5, <2>18 DEF Holds
        <3>2. n + i \in DOMAIN r.chunks /\ r.chunks[n + i] = b[i]
            BY <2>5, <2>12
        <3>3. /\ r.chunks[n + i].at = offset + bl.size
              /\ r.chunks[n + i].value = value
              /\ r.chunks[n + i].len > 0
            BY <2>7, <3>1, <3>2
        <3> QED
            BY <3>2, <3>3 DEF Holds
    <2> QED
        BY <1>3, <2>11, <2>15, <2>16, <2>17, <2>18
<1> QED
    <2>1. bl.size \in Nat /\ parts.size \in Nat /\ bl.limit \in Nat
        BY BlobType
    <2> QED
        BY <1>1, <1>2, <1>3

LEMMA FrontSums ==
    ASSUME NEW n \in Nat, NEW f,
           f[1] = 4, f[2] = 16, f[3] = 2, f[4] = 2, f[5] = 4, f[6] = 4,
           \A i \in 1 .. n : f[6 + i] = 4
    PROVE  /\ SumUpTo(f, 4) = 24 /\ SumUpTo(f, 5) = 28
           /\ SumUpTo(f, 6 + n) = 32 + 4 * n
           /\ \A i \in 1 .. n : SumUpTo(f, 5 + i) = 28 + 4 * i
<1>1. SumUpTo(f, 4) = 24 /\ SumUpTo(f, 5) = 28 /\ SumUpTo(f, 6) = 32
    <2>1. \A k \in Nat \ {0} : SumUpTo(f, k) = SumUpTo(f, k - 1) + f[k]
        BY SumStep
    <2>2. SumUpTo(f, 0) = 0
        BY SumZero
    <2>3. /\ SumUpTo(f, 1) = SumUpTo(f, 0) + f[1]
          /\ SumUpTo(f, 2) = SumUpTo(f, 1) + f[2]
          /\ SumUpTo(f, 3) = SumUpTo(f, 2) + f[3]
          /\ SumUpTo(f, 4) = SumUpTo(f, 3) + f[4]
          /\ SumUpTo(f, 5) = SumUpTo(f, 4) + f[5]
          /\ SumUpTo(f, 6) = SumUpTo(f, 5) + f[6]
        BY <2>1
    <2> QED
        BY <2>2, <2>3
<1>2. \A i \in 1 .. 6 + n : f[i] \in Nat
    <2> SUFFICES ASSUME NEW i \in 1 .. 6 + n
                 PROVE  f[i] \in Nat
        OBVIOUS
    <2>1. CASE i \in 1 .. 6
        BY <2>1
    <2>2. CASE i \notin 1 .. 6
        <3>1. i - 6 \in 1 .. n /\ 6 + (i - 6) = i
            BY <2>2
        <3> QED
            BY <3>1
    <2> QED
        BY <2>1, <2>2
<1>3. ASSUME NEW k \in 0 .. n
      PROVE  SumUpTo(f, 6 + k) = 32 + 4 * k
    <2> DEFINE g == [i \in 1 .. k |-> f[6 + i]]
    <2>1. k \in Nat /\ \A i \in 1 .. k : i \in 1 .. n /\ g[i] = 4 /\ g[i] = f[6 + i]
        OBVIOUS
    <2>2. \A i \in 1 .. 6 + k : f[i] \in Nat
        <3>1. 1 .. 6 + k \subseteq 1 .. 6 + n
            OBVIOUS
        <3> QED
            BY <1>2, <3>1
    <2> HIDE DEF g
    <2>3. SumUpTo(f, 6 + k) = SumUpTo(f, 6) + SumUpTo(g, k)
        <3>1. 6 \in Nat
            OBVIOUS
        <3> QED
            BY <2>1, <2>2, <3>1, SumShift
    <2>4. SumUpTo(g, k) = 4 * k
        BY <2>1, SumOfEqual
    <2> QED
        BY <1>1, <2>3, <2>4
<1>4. \A i \in 1 .. n : SumUpTo(f, 5 + i) = 28 + 4 * i
    <2> SUFFICES ASSUME NEW i \in 1 .. n PROVE SumUpTo(f, 5 + i) = 28 + 4 * i
        OBVIOUS
    <2> DEFINE k == i - 1
    <2>1. k \in 0 .. n /\ 5 + i = 6 + k /\ 28 + 4 * i = 32 + 4 * k
        OBVIOUS
    <2> HIDE DEF k
    <2> QED
        BY <1>3, <2>1
<1>5. n \in 0 .. n
    OBVIOUS
<1> QED
    BY <1>1, <1>3, <1>4, <1>5

LEMMA Concat ==
    ASSUME NEW S, NEW a \in Seq(S), NEW b \in Seq(S)
    PROVE  /\ a \o b \in Seq(S)
           /\ Len(a \o b) = Len(a) + Len(b)
OBVIOUS

(* What dxil_container_write writes before the parts                       *)
Directory(file_size, count, header, O) ==
    <<Word("DXBC"), Chunk("digest", 16), Chunk("major", 2), Chunk("minor", 2),
      Word(file_size), Word(count)>>
    \o [i \in DOMAIN O |-> Word(header + O[i])]

(* and where a reader finds it                                             *)
IsDirectory(chs, file_size, count, header, O) ==
    /\ IsChunks(chs)
    /\ Len(chs) = 6 + Len(O)
    /\ Total(chs) = 32 + 4 * Len(O)
    /\ chs[5] = Word(file_size) /\ SumUpTo(Lens(chs), 4) = 24
    /\ chs[6] = Word(count) /\ SumUpTo(Lens(chs), 5) = 28
    /\ \A i \in 1 .. Len(O) : /\ chs[6 + i] = Word(header + O[i])
                              /\ SumUpTo(Lens(chs), 5 + i) = 28 + 4 * i

LEMMA DirectoryBytes ==
    ASSUME NEW file_size, NEW count, NEW O \in Seq(Nat), NEW header,
           NEW chs, chs = Directory(file_size, count, header, O)
    PROVE  IsDirectory(chs, file_size, count, header, O)
<1> DEFINE front == <<Word("DXBC"), Chunk("digest", 16), Chunk("major", 2),
                      Chunk("minor", 2), Word(file_size), Word(count)>>
           dir == [i \in DOMAIN O |-> Word(header + O[i])]
           n == Len(O)
           V == {"DXBC", "digest", "major", "minor", file_size, count}
           W == {header + O[i] : i \in 1 .. n}
           U == V \union W
           S == Chunks(U)
           f == Lens(chs)
<1>1. n \in Nat /\ DOMAIN O = 1 .. n
    OBVIOUS
<1>2. /\ \A v \in U : Word(v) \in S
      /\ Chunk("digest", 16) \in S /\ Chunk("major", 2) \in S
      /\ Chunk("minor", 2) \in S
    BY ChunkType
<1>3. front \in Seq(S) /\ Len(front) = 6
    <2>1. /\ "DXBC" \in U /\ file_size \in U /\ count \in U
        OBVIOUS
    <2> HIDE DEF U, S
    <2> QED
        BY <1>2, <2>1
<1>4. dir \in Seq(S) /\ Len(dir) = n /\ \A i \in 1 .. n : dir[i] = Word(header + O[i])
    <2>1. \A i \in 1 .. n : header + O[i] \in U
        OBVIOUS
    <2> HIDE DEF U, S
    <2> QED
        BY <1>1, <1>2, <2>1
<1>5. /\ front[1].len = 4 /\ front[2].len = 16 /\ front[3].len = 2
      /\ front[4].len = 2 /\ front[5] = Word(file_size) /\ front[6] = Word(count)
    BY ChunkType
<1>0. chs = front \o dir
    BY DEF Directory
<1> HIDE DEF front, dir, n, V, W, U, S, f
<1> DEFINE all == front \o dir
<1>6. chs \in Seq(S) /\ Len(chs) = 6 + n
    <2>0. dir \in Seq(S) /\ Len(dir) = n
        BY <1>4
    <2>1. all \in Seq(S) /\ Len(all) = 6 + n
        BY <1>3, <2>0, Concat
    <2> HIDE DEF all
    <2>2. chs = all
        BY <1>0 DEF all
    <2> QED
        BY <2>1, <2>2, Zenon
<1>7. /\ \A i \in 1 .. 6 : chs[i] = front[i]
      /\ \A i \in 1 .. n : chs[6 + i] = dir[i]
    <2>0. dir \in Seq(S) /\ Len(dir) = n
        BY <1>4
    <2>1. /\ \A i \in 1 .. 6 : all[i] = front[i]
          /\ \A i \in 1 .. n : all[6 + i] = dir[i]
        <3>1. front \in Seq(S) /\ dir \in Seq(S)
            BY <1>3, <2>0
        <3>2. /\ \A i \in 1 .. Len(front) : all[i] = front[i]
              /\ \A i \in 1 .. Len(dir) : all[Len(front) + i] = dir[i]
            BY <3>1
        <3> HIDE DEF all
        <3> QED
            BY <1>3, <2>0, <3>2, Zenon
    <2> HIDE DEF all
    <2>2. chs = all
        BY <1>0 DEF all
    <2> QED
        BY <2>1, <2>2, Zenon
<1>8. IsChunks(chs)
    BY <1>6 DEF IsChunks, S
<1>9. \A i \in 1 .. 6 + n : f[i] = chs[i].len /\ f[i] \in Nat
    BY <1>6, LensType DEF S, f
<1>10. /\ f[1] = 4 /\ f[2] = 16 /\ f[3] = 2 /\ f[4] = 2 /\ f[5] = 4 /\ f[6] = 4
       /\ \A i \in 1 .. n : f[6 + i] = 4
    <2>1. /\ f[1] = 4 /\ f[2] = 16 /\ f[3] = 2 /\ f[4] = 2 /\ f[5] = 4 /\ f[6] = 4
        <3>1. /\ f[1] = chs[1].len /\ f[2] = chs[2].len /\ f[3] = chs[3].len
              /\ f[4] = chs[4].len /\ f[5] = chs[5].len /\ f[6] = chs[6].len
            BY <1>1, <1>9
        <3>2. /\ chs[1] = front[1] /\ chs[2] = front[2] /\ chs[3] = front[3]
              /\ chs[4] = front[4] /\ chs[5] = front[5] /\ chs[6] = front[6]
            BY <1>7
        <3>3. front[5].len = 4 /\ front[6].len = 4
            BY <1>5, ChunkType
        <3>4. /\ chs[1].len = 4 /\ chs[2].len = 16 /\ chs[3].len = 2
              /\ chs[4].len = 2 /\ chs[5].len = 4 /\ chs[6].len = 4
            BY <1>5, <3>2, <3>3
        <3> QED
            BY <3>1, <3>4
    <2>2. ASSUME NEW i \in 1 .. n
          PROVE  f[6 + i] = 4
        <3>1. 6 + i \in 1 .. 6 + n
            BY <1>1
        <3>2. f[6 + i] = chs[6 + i].len
            BY <1>9, <3>1
        <3>3. chs[6 + i] = Word(header + O[i])
            BY <1>4, <1>7
        <3>4. Word(header + O[i]).len = 4
            BY ChunkType, Zenon
        <3> QED
            BY <3>2, <3>3, <3>4
    <2> QED
        BY <2>1, <2>2
<1>11. /\ SumUpTo(f, 4) = 24 /\ SumUpTo(f, 5) = 28
       /\ SumUpTo(f, 6 + n) = 32 + 4 * n
       /\ \A i \in 1 .. n : SumUpTo(f, 5 + i) = 28 + 4 * i
    BY <1>1, <1>10, FrontSums
<1>14. Total(chs) = 32 + 4 * n
    <2>1. Total(chs) = SumUpTo(f, 6 + n)
        BY <1>6, LensType DEF S, f
    <2> QED
        BY <1>11, <2>1, Zenon
<1>15. /\ chs[5] = Word(file_size) /\ chs[6] = Word(count)
       /\ \A i \in 1 .. n : chs[6 + i] = Word(header + O[i])
    BY <1>4, <1>5, <1>7
<1> QED
    BY <1>6, <1>8, <1>11, <1>14, <1>15, Zenon DEF n, f, IsDirectory

LEMMA BlobInit ==
    ASSUME NEW limit \in Nat, NEW bl, bl = blob_init(limit)
    PROVE  /\ IsBlob(bl) /\ IsLaid(bl)
           /\ bl.size = 0 /\ bl.limit = limit /\ bl.ok /\ bl.chunks = <<>>
<1>1. /\ bl \in Blobs({})
      /\ bl.size = 0 /\ bl.limit = limit /\ bl.ok /\ ~ bl.out_of_memory
      /\ bl.chunks = <<>>
    <2>1. <<>> \in Seq([at : Nat, value : {}, len : Nat])
        OBVIOUS
    <2> QED
        BY <2>1 DEF blob_init, Blobs
<1>2. DOMAIN bl.chunks = {}
    BY <1>1
<1>3. IsLaid(bl)
    BY <1>1, <1>2 DEF IsLaid
<1> QED
    BY <1>1, <1>3 DEF IsBlob

LEMMA FileWritten ==
    ASSUME NEW con, IsContainer(con), NEW codes, PartsAre(con, codes),
           NEW limit \in Nat, NEW r, r = dxil_container_write(con, blob_init(limit)),
           NEW header, header = 32 + 4 * Len(codes)
    PROVE  /\ IsBlob(r) /\ IsLaid(r)
           /\ r.ok =>
                 /\ r.size = header + con.parts.size
                 /\ ReadWord(r, 24) = r.size
                 /\ ReadWord(r, 28) = Len(codes)
                 /\ \A i \in 1 .. Len(codes) :
                       ReadWord(r, 28 + 4 * i) = header + con.part_offsets[i]
                 /\ \A i \in DOMAIN codes :
                       /\ ReadWord(r, header + con.part_offsets[i]) = codes[i]
                       /\ ReadWord(r, header + con.part_offsets[i] + 4)
                             = EndOfPart(con, i) - con.part_offsets[i] - 8
<1> DEFINE n == Len(codes)
           O == con.part_offsets
           bl == blob_init(limit)
           chs == Directory(header + con.parts.size, n, header, O)
           head == WriteAll(bl, chs)
<1>1. O \in Seq(Nat) /\ Len(O) = n /\ con.parts.size \in Nat /\ DOMAIN O = 1 .. n
      /\ n \in Nat
    BY BlobType DEF IsContainer, PartsAre
<1>2. header_size(con) = header
    BY <1>1 DEF header_size
<1>3. r = CopyOf(con.parts, head)
    BY <1>1, <1>2 DEF dxil_container_write, Directory
<1>4. /\ IsBlob(bl) /\ IsLaid(bl) /\ bl.size = 0
    BY BlobInit
<1>5. /\ IsChunks(chs)
      /\ Len(chs) = 6 + n
      /\ Total(chs) = header
      /\ chs[5] = Word(header + con.parts.size) /\ SumUpTo(Lens(chs), 4) = 24
      /\ chs[6] = Word(n) /\ SumUpTo(Lens(chs), 5) = 28
      /\ \A i \in 1 .. n : /\ chs[6 + i] = Word(header + O[i])
                           /\ SumUpTo(Lens(chs), 5 + i) = 28 + 4 * i
    <2>1. /\ IsChunks(chs)
          /\ Len(chs) = 6 + Len(O)
          /\ Total(chs) = 32 + 4 * Len(O)
          /\ chs[5] = Word(header + con.parts.size) /\ SumUpTo(Lens(chs), 4) = 24
          /\ chs[6] = Word(n) /\ SumUpTo(Lens(chs), 5) = 28
          /\ \A i \in 1 .. Len(O) : /\ chs[6 + i] = Word(header + O[i])
                                    /\ SumUpTo(Lens(chs), 5 + i) = 28 + 4 * i
        <3>1. chs = Directory(header + con.parts.size, n, header, O)
            OBVIOUS
        <3>2. O \in Seq(Nat)
            BY <1>1
        <3> HIDE DEF chs, O, n
        <3>3. IsDirectory(chs, header + con.parts.size, n, header, O)
            BY <3>1, <3>2, DirectoryBytes
        <3> QED
            BY <3>3, Zenon DEF IsDirectory
    <2> HIDE DEF chs, O
    <2> QED
        BY <1>1, <2>1
<1> HIDE DEF chs, bl, O
<1>6. /\ IsBlob(head) /\ IsLaid(head)
      /\ head.ok => /\ head.size = bl.size + Total(chs)
                    /\ \A j \in 1 .. Len(chs) :
                          chs[j].len > 0 =>
                             Holds(head, bl.size + SumUpTo(Lens(chs), j - 1),
                                   chs[j].value)
    <2>1. head = WriteAll(bl, chs)
        OBVIOUS
    <2>2. IsBlob(bl) /\ IsLaid(bl) /\ IsChunks(chs)
        BY <1>4, <1>5
    <2> HIDE DEF head
    <2> QED
        BY <2>1, <2>2, Written
<1> HIDE DEF head
<1>7. head.ok => /\ head.size = header
                 /\ Holds(head, 24, header + con.parts.size)
                 /\ Holds(head, 28, n)
                 /\ \A i \in 1 .. n : Holds(head, 28 + 4 * i, header + O[i])
    <2> SUFFICES ASSUME head.ok
                 PROVE  /\ head.size = header
                        /\ Holds(head, 24, header + con.parts.size)
                        /\ Holds(head, 28, n)
                        /\ \A i \in 1 .. n : Holds(head, 28 + 4 * i, header + O[i])
        OBVIOUS
    <2>1. ASSUME NEW j \in 1 .. 6 + n, NEW v, chs[j] = Word(v),
                 NEW s \in Nat, SumUpTo(Lens(chs), j - 1) = s
          PROVE  Holds(head, s, v)
        <3>1. chs[j].len > 0 /\ chs[j].value = v
            <4>1. chs[j].len = 4 /\ chs[j].value = v
                BY <2>1, ChunkType, Zenon
            <4> QED
                BY <4>1
        <3>2. bl.size + SumUpTo(Lens(chs), j - 1) = s
            BY <1>4, <2>1
        <3>3. j \in 1 .. Len(chs)
            BY <1>5, <2>1
        <3> QED
            BY <1>6, <3>1, <3>2, <3>3
    <2>2. head.size = header
        BY <1>1, <1>4, <1>5, <1>6
    <2>3. Holds(head, 24, header + con.parts.size)
        <3>1. 5 \in 1 .. 6 + n /\ 24 \in Nat /\ 5 - 1 = 4
            BY <1>1
        <3>2. SumUpTo(Lens(chs), 5 - 1) = 24
            BY <1>5, <3>1
        <3> QED
            BY <1>5, <2>1, <3>1, <3>2
    <2>4. Holds(head, 28, n)
        <3>1. 6 \in 1 .. 6 + n /\ 28 \in Nat /\ 6 - 1 = 5
            BY <1>1
        <3>2. SumUpTo(Lens(chs), 6 - 1) = 28
            BY <1>5, <3>1
        <3> QED
            BY <1>5, <2>1, <3>1, <3>2
    <2>5. ASSUME NEW i \in 1 .. n
          PROVE  Holds(head, 28 + 4 * i, header + O[i])
        <3> DEFINE j == 6 + i
                   s == 28 + 4 * i
        <3>1. j \in 1 .. 6 + n /\ s \in Nat /\ j - 1 = 5 + i
            BY <1>1
        <3>2. chs[j] = Word(header + O[i]) /\ SumUpTo(Lens(chs), j - 1) = s
            BY <1>5, <3>1
        <3> HIDE DEF j, s
        <3>3. Holds(head, s, header + O[i])
            BY <2>1, <3>1, <3>2
        <3> QED
            BY <3>3 DEF s
    <2> QED
        BY <2>2, <2>3, <2>4, <2>5
<1>8. /\ IsBlob(r) /\ IsLaid(r)
      /\ r.ok => /\ head.ok
                 /\ r.size = head.size + con.parts.size
                 /\ \A offset, value :
                       /\ Holds(head, offset, value) => Holds(r, offset, value)
                       /\ Holds(con.parts, offset, value)
                             => Holds(r, offset + head.size, value)
    BY <1>3, <1>6, Copied DEF IsContainer
<1>9. ASSUME r.ok
      PROVE  /\ r.size = header + con.parts.size
             /\ ReadWord(r, 24) = r.size
             /\ ReadWord(r, 28) = n
             /\ \A i \in 1 .. n : ReadWord(r, 28 + 4 * i) = header + O[i]
    <2>1. r.size = header + con.parts.size
        BY <1>7, <1>8, <1>9
    <2>2. /\ Holds(r, 24, r.size) /\ Holds(r, 28, n)
          /\ \A i \in 1 .. n : Holds(r, 28 + 4 * i, header + O[i])
        BY <1>7, <1>8, <1>9, <2>1
    <2> QED
        BY <1>8, <2>1, <2>2, ReadHeld
<1>10. ASSUME r.ok, NEW i \in DOMAIN codes
       PROVE  /\ ReadWord(r, header + O[i]) = codes[i]
              /\ ReadWord(r, header + O[i] + 4) = EndOfPart(con, i) - O[i] - 8
    <2>1. /\ Holds(con.parts, O[i], codes[i])
          /\ Holds(con.parts, O[i] + 4, EndOfPart(con, i) - O[i] - 8)
        BY <1>10 DEF PartsAre, O
    <2>2. O[i] + header = header + O[i] /\ O[i] + 4 + header = header + O[i] + 4
        <3>1. O[i] \in Nat /\ header \in Nat
            <4>1. PICK k \in DOMAIN con.parts.chunks : con.parts.chunks[k].at = O[i]
                BY <2>1 DEF Holds
            <4>2. O[i] \in Nat
                BY <4>1, BlobType DEF IsContainer
            <4> QED
                BY <1>1, <4>2
        <3> QED
            BY <3>1
    <2>3. /\ Holds(r, O[i] + header, codes[i])
          /\ Holds(r, O[i] + 4 + header, EndOfPart(con, i) - O[i] - 8)
        BY <1>7, <1>8, <1>10, <2>1
    <2>4. /\ Holds(r, header + O[i], codes[i])
          /\ Holds(r, header + O[i] + 4, EndOfPart(con, i) - O[i] - 8)
        BY <2>2, <2>3
    <2> QED
        BY <1>8, <2>4, ReadHeld
<1> QED
    BY <1>8, <1>9, <1>10 DEF O
-----------------------------------------------------------------------------
(* The parts as nir_to_dxil adds them.                                     *)

(* con is old with one more part, or after a write that failed.            *)
Adds(old, con, fourcc) ==
    /\ IsContainer(con)
    /\ con.parts.ok =>
          \A codes \in Seq(Codes) :
             PartsAre(old, codes) => PartsAre(con, Append(codes, fourcc))

LEMMA AddFilled ==
    ASSUME NEW old, IsContainer(old), NEW fourcc \in Codes, NEW size \in Nat,
           NEW chs, IsChunks(chs), Total(chs) = size,
           NEW con, con = add_part(old, fourcc, size, chs)
    PROVE  Adds(old, con, fourcc)
BY AddPart DEF Adds

LEMMA FeaturesAdded ==
    ASSUME NEW old, IsContainer(old), NEW con, con = dxil_container_add_features(old)
    PROVE  Adds(old, con, "SFI0")
<1> DEFINE chs == <<Chunk("features", 8)>>
<1>1. con = add_part(old, "SFI0", 8, chs)
    BY DEF dxil_container_add_features
<1>2. IsChunks(chs) /\ Total(chs) = 8
    BY FeatureBytes
<1>3. "SFI0" \in Codes /\ 8 \in Nat
    BY DEF Codes
<1> HIDE DEF chs
<1> QED
    BY <1>1, <1>2, <1>3, AddFilled

LEMMA SignatureAdded ==
    ASSUME NEW old, IsContainer(old), NEW part \in {"ISG1", "OSG1", "PSG1"},
           NEW records, IsRecords(records), NEW v7,
           NEW con, con = dxil_container_add_io_signature(old, part, records, v7)
    PROVE  Adds(old, con, part)
<1> DEFINE count == ElementCount(records)
           names == collect_semantic_names(records, 8 + ElementSize * count, v7)
           size == 8 + ElementSize * count + names.length
           chs == SignatureChunks(records, count, names)
<1>1. con = add_part(old, part, size, chs)
    BY DEF dxil_container_add_io_signature, SignatureChunks
<1>2. size \in Nat /\ IsChunks(chs) /\ Total(chs) = size
    <2>1. /\ count = ElementCount(records)
          /\ names = collect_semantic_names(records, 8 + ElementSize * count, v7)
          /\ size = 8 + ElementSize * count + names.length
          /\ chs = SignatureChunks(records, count, names)
        OBVIOUS
    <2> HIDE DEF count, names, chs, size
    <2>2. /\ 8 + ElementSize * count + names.length \in Nat
          /\ IsChunks(chs)
          /\ Total(chs) = 8 + ElementSize * count + names.length
        <3>1. IsRecords(records)
            OBVIOUS
        <3>2. /\ count = ElementCount(records)
              /\ names = collect_semantic_names(records, 8 + ElementSize * count, v7)
              /\ chs = SignatureChunks(records, count, names)
            BY <2>1
        <3> QED
            BY <3>1, <3>2, SignatureBytes
    <2> QED
        BY <2>1, <2>2
<1>3. part \in Codes
    BY DEF Codes
<1> HIDE DEF chs, size
<1> QED
    BY <1>1, <1>2, <1>3, AddFilled

LEMMA StateAdded ==
    ASSUME NEW old, IsContainer(old), NEW m, IsShader(m),
           NEW con, con = dxil_container_add_state_validation(old, m)
    PROVE  Adds(old, con, "PSV0")
<1>1. "PSV0" \in Codes
    BY DEF Codes
<1> QED
    BY <1>1, StateBytes, AddFilled DEF dxil_container_add_state_validation

LEMMA ModuleAdded ==
    ASSUME NEW old, IsContainer(old), NEW m, m.bitcode \in Nat,
           NEW con, con = dxil_container_add_module(old, m)
    PROVE  Adds(old, con, "DXIL")
<1> DEFINE size == 24 + m.bitcode
           chs == <<Word("version"), Word(size \div 4), Word("magic"),
                    Word("dxil_version"), Word(16), Word(m.bitcode),
                    Chunk("bitcode", m.bitcode)>>
<1>1. con = add_part(old, "DXIL", size, chs)
    BY DEF dxil_container_add_module
<1>2. size \in Nat /\ IsChunks(chs) /\ Total(chs) = size
    BY ModuleBytes
<1>3. "DXIL" \in Codes
    BY DEF Codes
<1> HIDE DEF chs, size
<1> QED
    BY <1>1, <1>2, <1>3, AddFilled
-----------------------------------------------------------------------------
(* The invariant.                                                          *)

IsSeq(s) == \E V : s \in Seq(V)

(* While the signatures are laid out there is a module for each stage that *)
(* has been converted.                                                     *)
Converted ==
    pc \in {"passes", "link", "signatures"} =>
       /\ IsSeq(stages) /\ IsSeq(mods) /\ at \in Nat
       /\ pc # "signatures" => mods = <<>>
       /\ pc = "signatures" => Len(mods) = at - 1

CInv == /\ Converted
        /\ IsContainer(c) /\ IsBlob(blob)
        /\ IInv

LEMMA SeqType ==
    ASSUME NEW s, IsSeq(s)
    PROVE  Len(s) \in Nat /\ DOMAIN s = 1 .. Len(s)
BY DEF IsSeq

LEMMA IsSeqOfFunction ==
    ASSUME NEW s, NEW n \in Nat, s = [i \in 1 .. n |-> s[i]]
    PROVE  IsSeq(s) /\ Len(s) = n
<1> DEFINE V == {s[i] : i \in 1 .. n}
<1>1. \A i \in 1 .. n : s[i] \in V
    OBVIOUS
<1> HIDE DEF V
<1>2. [i \in 1 .. n |-> s[i]] \in Seq(V) /\ Len([i \in 1 .. n |-> s[i]]) = n
    BY <1>1
<1>3. s \in Seq(V) /\ Len(s) = n
    BY <1>2, Zenon
<1> QED
    BY <1>3 DEF IsSeq

LEMMA IsSeqAppend ==
    ASSUME NEW s, IsSeq(s), NEW e
    PROVE  IsSeq(Append(s, e)) /\ Len(Append(s, e)) = Len(s) + 1
<1>1. PICK V : s \in Seq(V)
    BY DEF IsSeq
<1> DEFINE W == V \union {e}
<1>2. V \subseteq W /\ e \in W
    OBVIOUS
<1> HIDE DEF W
<1>3. s \in Seq(W)
    BY <1>1, <1>2
<1>4. Append(s, e) \in Seq(W) /\ Len(Append(s, e)) = Len(s) + 1
    BY <1>2, <1>3
<1> QED
    BY <1>4 DEF IsSeq

LEMMA Empty ==
    ASSUME NEW limit \in Nat, NEW con, con = dxil_container_init(limit)
    PROVE  /\ IsContainer(con) /\ PartsAre(con, <<>>)
           /\ con.parts.size = 0
<1>1. /\ con \in [parts : {con.parts}, part_offsets : {con.part_offsets}]
      /\ con.parts = blob_init(limit) /\ con.part_offsets = <<>>
    BY DEF dxil_container_init
<1>2. \E P, O : con \in [parts : P, part_offsets : O]
    BY <1>1, Zenon
<1>3. /\ IsBlob(con.parts) /\ IsLaid(con.parts)
      /\ con.parts.size = 0 /\ con.parts.ok
    BY <1>1, BlobInit
<1>4. con.part_offsets \in Seq(Nat) /\ DOMAIN con.part_offsets = {}
    BY <1>1
<1>5. OffsetsFit(con)
    BY <1>4 DEF OffsetsFit
<1>6. IsContainer(con)
    BY <1>2, <1>3, <1>4, <1>5 DEF IsContainer
<1>7. PartsAre(con, <<>>)
    BY <1>1, <1>3 DEF PartsAre
<1> QED
    BY <1>3, <1>6, <1>7

LEMMA InitInv == Init => CInv
<1> SUFFICES ASSUME Init PROVE CInv
    OBVIOUS
<1>1. /\ stages \in Pipelines /\ mods = <<>> /\ at = Len(stages)
      /\ pc = "passes"
      /\ c = dxil_container_init(0) /\ blob = blob_init(0)
    BY DEF Init, SignatureInit
<1>2. IsContainer(c) /\ IsBlob(blob) /\ IsLaid(blob)
    BY <1>1, Empty, BlobInit
<1>3. IsSeq(stages)
    BY <1>1, PipelinesAreSequences DEF IsSeq
<1>4. IsSeq(mods)
    <2>1. mods \in Seq({})
        BY <1>1
    <2> QED
        BY <2>1 DEF IsSeq
<1>5. Converted
    BY <1>1, <1>3, <1>4, SeqType DEF Converted
<1>6. IInv
    <2>1. IsLaid(c.parts) /\ OffsetsFit(c)
        BY <1>2 DEF IsContainer
    <2>2. Building /\ PartsTile /\ NoPartialSuccess
        BY <1>1, <2>1 DEF Building, ContainerParts, PartsTile, NoPartialSuccess,
                          OffsetsFit
    <2> QED
        BY <1>2, <2>1, <2>2 DEF IInv
<1> QED
    BY <1>2, <1>5, <1>6 DEF CInv

LEMMA SignatureStep ==
    ASSUME CInv, SignatureNext, UNCHANGED <<shader, c, blob>>
    PROVE  CInv'
<1>1. /\ pc \in {"passes", "link", "signatures"}
      /\ pc' \in {"passes", "link", "signatures"}
    BY DEF SignatureNext, RunPasses, Link, EndLink, PreprocessSignatures
<1>2. /\ IsSeq(stages) /\ IsSeq(mods) /\ at \in Nat
      /\ pc # "signatures" => mods = <<>>
      /\ pc = "signatures" => Len(mods) = at - 1
    BY <1>1 DEF CInv, Converted
<1>3. Len(stages) \in Nat /\ DOMAIN stages = 1 .. Len(stages)
    BY <1>2, SeqType
<1>4. /\ IsSeq(stages') /\ IsSeq(mods') /\ at' \in Nat
      /\ pc' # "signatures" => mods' = <<>>
      /\ pc' = "signatures" => Len(mods') = at' - 1
    <2>1. CASE RunPasses
        <3>1. stages' = [i \in 1 .. Len(stages) |-> stages'[i]]
            BY <1>3, <2>1 DEF RunPasses
        <3>2. IsSeq(stages')
            BY <1>3, <3>1, IsSeqOfFunction
        <3> QED
            BY <1>2, <2>1, <3>2 DEF RunPasses
    <2>2. CASE Link
        <3>1. stages' = [i \in 1 .. Len(stages) |-> stages'[i]]
            <4>1. PICK p, q : stages' = [stages EXCEPT ![at - 1] = p, ![at] = q]
                BY <2>2 DEF Link
            <4>2. DOMAIN stages' = 1 .. Len(stages)
                BY <1>3, <4>1
            <4>3. stages \in [DOMAIN stages -> {stages[i] : i \in DOMAIN stages}]
                BY <1>2 DEF IsSeq
            <4> QED
                BY <4>1, <4>2, <4>3
        <3>2. IsSeq(stages')
            BY <1>3, <3>1, IsSeqOfFunction
        <3> QED
            BY <1>2, <2>2, <3>2 DEF Link
    <2>3. CASE EndLink
        <3>1. Len(<<>>) = 0
            OBVIOUS
        <3> QED
            BY <1>2, <2>3, <3>1 DEF EndLink, sigVars
    <2>4. CASE PreprocessSignatures
        <3>1. PICK s : /\ stages' = [stages EXCEPT ![at] = s]
                       /\ mods' = Append(mods, preprocess_signatures(s))
            BY <2>4 DEF PreprocessSignatures
        <3>2. stages' = [i \in 1 .. Len(stages) |-> stages'[i]]
            <4>1. DOMAIN stages' = 1 .. Len(stages)
                BY <1>3, <3>1
            <4>2. stages \in [DOMAIN stages -> {stages[i] : i \in DOMAIN stages}]
                BY <1>2 DEF IsSeq
            <4> QED
                BY <3>1, <4>1, <4>2
        <3>3. IsSeq(stages')
            BY <1>3, <3>2, IsSeqOfFunction
        <3>4. IsSeq(mods') /\ Len(mods') = Len(mods) + 1
            BY <1>2, <3>1, IsSeqAppend
        <3>5. pc = "signatures" /\ pc' = "signatures" /\ at' = at + 1
            BY <2>4 DEF PreprocessSignatures
        <3> QED
            BY <1>2, <3>3, <3>4, <3>5
    <2> QED
        BY <2>1, <2>2, <2>3, <2>4 DEF SignatureNext
<1>5. Converted'
    BY <1>4 DEF Converted
<1>6. IsContainer(c)' /\ IsBlob(blob)' /\ IsLaid(c.parts)' /\ IsLaid(blob)'
    BY DEF CInv, IInv
<1>7. Building' /\ PartsTile'
    BY <1>1 DEF Building, ContainerParts, PartsTile
<1>8. NoPartialSuccess'
    BY <1>1 DEF CInv, IInv, NoPartialSuccess
<1> QED
    BY <1>5, <1>6, <1>7, <1>8 DEF CInv, IInv

LEMMA StartStep ==
    ASSUME CInv, SignaturesAreWhole, StartContainer
    PROVE  CInv'
<1>1. PICK i \in DOMAIN stages, v \in Validators, r \in Resources :
         shader' = ShaderOf(i, v, r)
    BY DEF StartContainer
<1>2. PICK limit \in Limits : /\ c' = dxil_container_init(limit)
                              /\ blob' = blob_init(limit)
    BY DEF StartContainer
<1>3. /\ pc = "signatures" /\ pc' = "SFI0" /\ at > Len(stages)
      /\ IsSeq(stages) /\ IsSeq(mods) /\ at \in Nat /\ Len(mods) = at - 1
    BY DEF StartContainer, CInv, Converted
<1>4. limit \in Nat /\ r \in Nat /\ Bitcode \in Nat
    BY SizesAreNumbers
<1>5. i \in DOMAIN mods
    BY <1>3, SeqType
<1>6. IsModule(mods[i])
    BY <1>5 DEF SignaturesAreWhole
<1>7. IsShader(shader)'
    <2> DEFINE m == mods[i]
    <2>1. /\ IsRecords(m.inputs.records) /\ IsRecords(m.outputs.records)
          /\ IsRecords(m.patch_consts.records)
        <3>1. /\ IsRecords(m["inputs"].records) /\ IsRecords(m["outputs"].records)
              /\ IsRecords(m["patch_consts"].records)
            BY <1>6 DEF IsModule, Parts
        <3> QED
            BY <3>1
    <2>2. /\ m.strings.length \in Nat /\ m.index_table \in Seq(Int)
          /\ m.dwords \in [1..4 -> Nat] /\ m.io_deps \in [1..4 -> Nat]
        BY <1>6 DEF IsModule
    <2>3. /\ shader'.inputs = m.inputs.records
          /\ shader'.outputs = m.outputs.records
          /\ shader'.patch_consts = m.patch_consts.records
          /\ shader'.strings = m.strings /\ shader'.index_table = m.index_table
          /\ shader'.view_id_deps = m.dwords /\ shader'.io_deps = m.io_deps
          /\ shader'.resources = r /\ shader'.bitcode = Bitcode
        BY <1>1 DEF ShaderOf
    <2> HIDE DEF m
    <2> QED
        BY <1>1, <1>4, <2>1, <2>2, <2>3 DEF IsShader, ShaderFields, ShaderOf
<1>8. IsContainer(c)' /\ PartsAre(c, <<>>)' /\ IsBlob(blob)' /\ IsLaid(blob)'
    BY <1>2, <1>4, Empty, BlobInit
<1>9. (blob = blob_init(blob.limit))'
    BY <1>2, <1>4, BlobInit
<1>10. Building'
    BY <1>3, <1>7, <1>8, <1>9 DEF Building, PartsBefore
<1>11. Converted' /\ PartsTile'
    BY <1>3 DEF Converted, PartsTile
<1>12. NoPartialSuccess' /\ IsLaid(c.parts)'
    BY <1>3, <1>8 DEF NoPartialSuccess, IsContainer, OffsetsFit
<1> QED
    BY <1>8, <1>10, <1>11, <1>12 DEF CInv, IInv

(* A part was added that belongs after the ones before it.                 *)
LEMMA AddStep ==
    ASSUME CInv, NEW part \in Codes, NEW next \in ContainerParts, NEW con,
           Add(part, next, con), IsContainer(c) => Adds(c, con, part),
           IsShader(shader)',
           PartsBefore(part) \in Seq(Codes),
           PartsBefore(next)' = Append(PartsBefore(part), part),
           next = "PSG1" => Tess(shader.kind)'
    PROVE  CInv'
<1>1. /\ pc = part /\ c' = con /\ pc' = IF con.parts.ok THEN next ELSE "failed"
      /\ blob' = blob
    BY DEF Add
<1>2. pc \in ContainerParts
    BY <1>1 DEF Codes, ContainerParts
<1>3. /\ PartsAre(c, PartsBefore(part)) /\ blob = blob_init(blob.limit)
      /\ IsContainer(c) /\ IsBlob(blob) /\ IsLaid(blob)
    BY <1>1, <1>2 DEF CInv, IInv, Building
<1>4. Adds(c, con, part)
    BY <1>3
<1>5. IsContainer(c)' /\ IsBlob(blob)' /\ IsLaid(blob)'
    BY <1>1, <1>3, <1>4 DEF Adds
<1>6. pc' \notin {"passes", "link", "signatures", "done"}
    BY <1>1 DEF ContainerParts
<1>7. Converted' /\ PartsTile'
    BY <1>6 DEF Converted, PartsTile
<1>8. NoPartialSuccess' /\ IsLaid(c.parts)'
    BY <1>5, <1>6 DEF NoPartialSuccess, IsContainer, OffsetsFit
<1>9. Building'
    <2>1. CASE con.parts.ok
        <3>1. pc' = next
            BY <1>1, <2>1
        <3>2. PartsAre(con, Append(PartsBefore(part), part))
            BY <1>3, <1>4, <2>1 DEF Adds
        <3>3. PartsAre(c', PartsBefore(next)')
            BY <1>1, <3>2
        <3>4. (blob = blob_init(blob.limit))'
            BY <1>1, <1>3
        <3>5. PartsAre(c, PartsBefore(pc))'
            BY <3>1, <3>3
        <3> QED
            BY <3>1, <3>4, <3>5 DEF Building
    <2>2. CASE ~ con.parts.ok
        BY <1>1, <2>2 DEF Building, ContainerParts
    <2> QED
        BY <2>1, <2>2
<1> QED
    BY <1>5, <1>7, <1>8, <1>9 DEF CInv, IInv

LEMMA CodeTuples ==
    /\ <<"SFI0", "ISG1", "OSG1", "PSG1">> = Append(<<"SFI0", "ISG1", "OSG1">>, "PSG1")
    /\ <<"SFI0", "ISG1", "OSG1", "PSV0">> = Append(<<"SFI0", "ISG1", "OSG1">>, "PSV0")
    /\ <<"SFI0", "ISG1", "OSG1", "PSV0", "DXIL">>
          = Append(<<"SFI0", "ISG1", "OSG1", "PSV0">>, "DXIL")
    /\ <<"SFI0", "ISG1", "OSG1", "PSG1", "PSV0">>
          = Append(<<"SFI0", "ISG1", "OSG1", "PSG1">>, "PSV0")
    /\ <<"SFI0", "ISG1", "OSG1", "PSG1", "PSV0", "DXIL">>
          = Append(<<"SFI0", "ISG1", "OSG1", "PSG1", "PSV0">>, "DXIL")
<1>1. <<"SFI0", "ISG1", "OSG1", "PSG1">> = Append(<<"SFI0", "ISG1", "OSG1">>, "PSG1")
    OBVIOUS
<1>2. <<"SFI0", "ISG1", "OSG1", "PSV0">> = Append(<<"SFI0", "ISG1", "OSG1">>, "PSV0")
    OBVIOUS
<1>3. <<"SFI0", "ISG1", "OSG1", "PSV0", "DXIL">>
         = Append(<<"SFI0", "ISG1", "OSG1", "PSV0">>, "DXIL")
    OBVIOUS
<1>4. <<"SFI0", "ISG1", "OSG1", "PSG1", "PSV0">>
         = Append(<<"SFI0", "ISG1", "OSG1", "PSG1">>, "PSV0")
    OBVIOUS
<1>5. <<"SFI0", "ISG1", "OSG1", "PSG1", "PSV0", "DXIL">>
         = Append(<<"SFI0", "ISG1", "OSG1", "PSG1", "PSV0">>, "DXIL")
    OBVIOUS
<1> QED
    BY <1>1, <1>2, <1>3, <1>4, <1>5

LEMMA CodeSeqs ==
    /\ <<>> \in Seq(Codes) /\ <<"SFI0">> \in Seq(Codes)
    /\ <<"SFI0", "ISG1">> \in Seq(Codes)
    /\ <<"SFI0", "ISG1", "OSG1">> \in Seq(Codes)
    /\ <<"SFI0", "ISG1", "OSG1", "PSG1">> \in Seq(Codes)
    /\ <<"SFI0", "ISG1", "OSG1", "PSV0">> \in Seq(Codes)
    /\ <<"SFI0", "ISG1", "OSG1", "PSV0", "DXIL">> \in Seq(Codes)
    /\ <<"SFI0", "ISG1", "OSG1", "PSG1", "PSV0">> \in Seq(Codes)
    /\ <<"SFI0", "ISG1", "OSG1", "PSG1", "PSV0", "DXIL">> \in Seq(Codes)
BY DEF Codes

(* The parts of a shader kind follow each other.                           *)
LEMMA PartsInOrder ==
    /\ PartsBefore("SFI0") = <<>>
    /\ PartsBefore("ISG1") = Append(PartsBefore("SFI0"), "SFI0")
    /\ PartsBefore("OSG1") = Append(PartsBefore("ISG1"), "ISG1")
    /\ PartsBefore("PSG1") = Append(PartsBefore("OSG1"), "OSG1")
    /\ ~ Tess(shader.kind) =>
          PartsBefore("PSV0") = Append(PartsBefore("OSG1"), "OSG1")
    /\ Tess(shader.kind) =>
          PartsBefore("PSV0") = Append(PartsBefore("PSG1"), "PSG1")
    /\ PartsBefore("DXIL") = Append(PartsBefore("PSV0"), "PSV0")
    /\ PartsBefore("write") = Append(PartsBefore("DXIL"), "DXIL")
    /\ \A part \in ContainerParts : PartsBefore(part) \in Seq(Codes)
<1> DEFINE T == IF Tess(shader.kind) THEN <<"PSG1">> ELSE <<>>
<1>1. /\ PartsBefore("SFI0") = <<>>
      /\ PartsBefore("ISG1") = <<"SFI0">>
      /\ PartsBefore("OSG1") = <<"SFI0", "ISG1">>
      /\ PartsBefore("PSG1") = <<"SFI0", "ISG1", "OSG1">>
      /\ PartsBefore("PSV0") = <<"SFI0", "ISG1", "OSG1">> \o T
      /\ PartsBefore("DXIL") = <<"SFI0", "ISG1", "OSG1">> \o T \o <<"PSV0">>
      /\ PartsBefore("write") =
            <<"SFI0", "ISG1", "OSG1">> \o T \o <<"PSV0", "DXIL">>
    BY DEF PartsBefore, ExpectedParts
<1>2. /\ <<"SFI0">> = Append(<<>>, "SFI0")
      /\ <<"SFI0", "ISG1">> = Append(<<"SFI0">>, "ISG1")
      /\ <<"SFI0", "ISG1", "OSG1">> = Append(<<"SFI0", "ISG1">>, "OSG1")
    OBVIOUS
<1>3. CASE Tess(shader.kind)
    <2>1. /\ PartsBefore("PSV0") = <<"SFI0", "ISG1", "OSG1", "PSG1">>
          /\ PartsBefore("DXIL") = <<"SFI0", "ISG1", "OSG1", "PSG1", "PSV0">>
          /\ PartsBefore("write") = <<"SFI0", "ISG1", "OSG1", "PSG1", "PSV0", "DXIL">>
        BY <1>1, <1>3
    <2>2. /\ PartsBefore("PSV0") = Append(PartsBefore("PSG1"), "PSG1")
          /\ PartsBefore("DXIL") = Append(PartsBefore("PSV0"), "PSV0")
          /\ PartsBefore("write") = Append(PartsBefore("DXIL"), "DXIL")
        BY <1>1, <2>1, CodeTuples, Zenon
    <2>3. \A part \in ContainerParts : PartsBefore(part) \in Seq(Codes)
        <3>1. /\ PartsBefore("SFI0") \in Seq(Codes) /\ PartsBefore("ISG1") \in Seq(Codes)
              /\ PartsBefore("OSG1") \in Seq(Codes) /\ PartsBefore("PSG1") \in Seq(Codes)
            BY <1>1, CodeSeqs, Zenon
        <3>2. PartsBefore("PSV0") \in Seq(Codes) /\ PartsBefore("DXIL") \in Seq(Codes)
            BY <2>1, CodeSeqs, Zenon
        <3>3. PartsBefore("write") \in Seq(Codes)
            BY <2>1, CodeSeqs, Zenon
        <3> QED
            BY <3>1, <3>2, <3>3, Zenon DEF ContainerParts
    <2> QED
        BY <1>1, <1>2, <1>3, <2>2, <2>3
<1>4. CASE ~ Tess(shader.kind)
    <2>1. /\ PartsBefore("PSV0") = <<"SFI0", "ISG1", "OSG1">>
          /\ PartsBefore("DXIL") = <<"SFI0", "ISG1", "OSG1", "PSV0">>
          /\ PartsBefore("write") = <<"SFI0", "ISG1", "OSG1", "PSV0", "DXIL">>
        BY <1>1, <1>4
    <2>2. /\ PartsBefore("PSV0") = Append(PartsBefore("OSG1"), "OSG1")
          /\ PartsBefore("DXIL") = Append(PartsBefore("PSV0"), "PSV0")
          /\ PartsBefore("write") = Append(PartsBefore("DXIL"), "DXIL")
        BY <1>1, <1>2, <2>1, CodeTuples, Zenon
    <2>3. \A part \in ContainerParts : PartsBefore(part) \in Seq(Codes)
        <3>1. /\ PartsBefore("SFI0") \in Seq(Codes) /\ PartsBefore("ISG1") \in Seq(Codes)
              /\ PartsBefore("OSG1") \in Seq(Codes) /\ PartsBefore("PSG1") \in Seq(Codes)
            BY <1>1, CodeSeqs, Zenon
        <3>2. PartsBefore("PSV0") \in Seq(Codes) /\ PartsBefore("DXIL") \in Seq(Codes)
            BY <2>1, CodeSeqs, Zenon
        <3>3. PartsBefore("write") \in Seq(Codes)
            BY <2>1, CodeSeqs, Zenon
        <3> QED
            BY <3>1, <3>2, <3>3, Zenon DEF ContainerParts
    <2> QED
        BY <1>1, <1>2, <1>4, <2>2, <2>3
<1> QED
    BY <1>3, <1>4

LEMMA FillState ==
    ASSUME NEW m, IsShader(m), NEW r, r = dxil_fill_validation_state(m)
    PROVE  IsShader(r) /\ r.kind = m.kind
<1>1. r = m \/ r = [m EXCEPT !.entry_function_name = m.strings.length,
                             !.strings = copy_semantic_name_to_string(@, Entry)]
    BY DEF dxil_fill_validation_state
<1> QED
    <2> DEFINE q == copy_semantic_name_to_string(m.strings, Entry)
    <2>1. q.length \in Nat
        <3>1. m.strings.length \in Nat
            BY DEF IsShader
        <3>2. q.length = m.strings.length + Entry.len + 1
            BY DEF copy_semantic_name_to_string
        <3> QED
            BY <3>1, <3>2, SizesAreNumbers
    <2>2. \/ r = m
          \/ r = [m EXCEPT !.entry_function_name = m.strings.length, !.strings = q]
        BY <1>1 DEF IsShader, ShaderFields
    <2> HIDE DEF q
    <2>3. CASE r = m
        BY <2>3
    <2>4. CASE r = [m EXCEPT !.entry_function_name = m.strings.length, !.strings = q]
        <3>1. /\ DOMAIN m = ShaderFields
              /\ DOMAIN r = DOMAIN m
              /\ r.kind = m.kind /\ r.inputs = m.inputs /\ r.outputs = m.outputs
              /\ r.patch_consts = m.patch_consts /\ r.strings = q
              /\ r.index_table = m.index_table /\ r.view_id_deps = m.view_id_deps
              /\ r.io_deps = m.io_deps /\ r.resources = m.resources
              /\ r.bitcode = m.bitcode
            BY <2>4 DEF IsShader, ShaderFields
        <3> QED
            BY <2>1, <3>1 DEF IsShader
    <2> QED
        BY <2>2, <2>3, <2>4

LEMMA PartSteps ==
    ASSUME CInv,
           AddFeatures \/ AddInputs \/ AddOutputs \/ AddPatchConstants
           \/ AddStateValidation \/ AddModule
    PROVE  CInv'
<1>1. pc \in ContainerParts
    BY DEF AddFeatures, AddInputs, AddOutputs, AddPatchConstants,
           AddStateValidation, AddModule, Add, ContainerParts
<1>2. IsShader(shader) /\ (pc = "PSG1" => Tess(shader.kind))
    BY <1>1 DEF CInv, IInv, Building
<1>3. ASSUME shader'.kind = shader.kind, NEW part
      PROVE  PartsBefore(part)' = PartsBefore(part)
    BY <1>3 DEF PartsBefore, ExpectedParts
<1>4. CASE AddFeatures
    <2>1. IsContainer(c) => Adds(c, dxil_container_add_features(c), "SFI0")
        BY FeaturesAdded
    <2>2. /\ Add("SFI0", "ISG1", dxil_container_add_features(c)) /\ shader' = shader
        BY <1>4 DEF AddFeatures
    <2>3. PartsBefore("ISG1")' = Append(PartsBefore("SFI0"), "SFI0")
        BY <1>3, <2>2, PartsInOrder
    <2>4. "SFI0" \in Codes /\ "SFI0" \in ContainerParts /\ "ISG1" \in ContainerParts
        BY DEF Codes, ContainerParts
    <2> QED
        BY <1>2, <2>1, <2>2, <2>3, <2>4, PartsInOrder, AddStep
<1>5. CASE AddInputs
    <2> DEFINE con == Signature("ISG1", shader.inputs)
    <2>1. IsContainer(c) => Adds(c, con, "ISG1")
        BY <1>2, SignatureAdded DEF Signature, IsShader
    <2>2. /\ Add("ISG1", "OSG1", con) /\ shader' = shader
        BY <1>5 DEF AddInputs
    <2> HIDE DEF con
    <2>3. PartsBefore("OSG1")' = Append(PartsBefore("ISG1"), "ISG1")
        BY <1>3, <2>2, PartsInOrder
    <2>4. "ISG1" \in Codes /\ "ISG1" \in ContainerParts /\ "OSG1" \in ContainerParts
        BY DEF Codes, ContainerParts
    <2> QED
        BY <1>2, <2>1, <2>2, <2>3, <2>4, PartsInOrder, AddStep
<1>6. CASE AddOutputs
    <2> DEFINE con == Signature("OSG1", shader.outputs)
    <2>1. IsContainer(c) => Adds(c, con, "OSG1")
        BY <1>2, SignatureAdded DEF Signature, IsShader
    <2>2. /\ Add("OSG1", IF Tess(shader.kind) THEN "PSG1" ELSE "PSV0", con)
          /\ shader' = shader
        BY <1>6 DEF AddOutputs
    <2> HIDE DEF con
    <2>3. /\ "OSG1" \in Codes /\ "OSG1" \in ContainerParts
          /\ "PSG1" \in ContainerParts /\ "PSV0" \in ContainerParts
        BY DEF Codes, ContainerParts
    <2>4. CASE Tess(shader.kind)
        <3>1. Add("OSG1", "PSG1", con)
            BY <2>2, <2>4
        <3>2. PartsBefore("PSG1")' = Append(PartsBefore("OSG1"), "OSG1")
            BY <1>3, <2>2, PartsInOrder
        <3> QED
            BY <1>2, <2>1, <2>2, <2>3, <2>4, <3>1, <3>2, PartsInOrder, AddStep
    <2>5. CASE ~ Tess(shader.kind)
        <3>1. Add("OSG1", "PSV0", con)
            BY <2>2, <2>5
        <3>2. PartsBefore("PSV0")' = Append(PartsBefore("OSG1"), "OSG1")
            BY <1>3, <2>2, <2>5, PartsInOrder
        <3> QED
            BY <1>2, <2>1, <2>2, <2>3, <3>1, <3>2, PartsInOrder, AddStep
    <2> QED
        BY <2>4, <2>5
<1>7. CASE AddPatchConstants
    <2> DEFINE con == Signature("PSG1", shader.patch_consts)
    <2>1. IsContainer(c) => Adds(c, con, "PSG1")
        BY <1>2, SignatureAdded DEF Signature, IsShader
    <2>2. /\ Add("PSG1", "PSV0", con) /\ shader' = shader /\ pc = "PSG1"
        BY <1>7 DEF AddPatchConstants, Add
    <2> HIDE DEF con
    <2>3. PartsBefore("PSV0")' = Append(PartsBefore("PSG1"), "PSG1")
        BY <1>2, <1>3, <2>2, PartsInOrder
    <2>4. "PSG1" \in Codes /\ "PSG1" \in ContainerParts /\ "PSV0" \in ContainerParts
        BY DEF Codes, ContainerParts
    <2> QED
        BY <1>2, <2>1, <2>2, <2>3, <2>4, PartsInOrder, AddStep
<1>8. CASE AddStateValidation
    <2> DEFINE con == dxil_container_add_state_validation(c, shader')
    <2>1. IsShader(shader') /\ shader'.kind = shader.kind
        BY <1>2, <1>8, FillState DEF AddStateValidation
    <2>2. IsContainer(c) => Adds(c, con, "PSV0")
        BY <2>1, StateAdded
    <2>3. Add("PSV0", "DXIL", con)
        BY <1>8 DEF AddStateValidation
    <2> HIDE DEF con
    <2>4. PartsBefore("DXIL")' = Append(PartsBefore("PSV0"), "PSV0")
        BY <1>3, <2>1, PartsInOrder
    <2>5. "PSV0" \in Codes /\ "PSV0" \in ContainerParts /\ "DXIL" \in ContainerParts
        BY DEF Codes, ContainerParts
    <2> QED
        BY <2>1, <2>2, <2>3, <2>4, <2>5, PartsInOrder, AddStep
<1>9. CASE AddModule
    <2>1. IsContainer(c) => Adds(c, dxil_container_add_module(c, shader), "DXIL")
        BY <1>2, ModuleAdded DEF IsShader
    <2>2. /\ Add("DXIL", "write", dxil_container_add_module(c, shader))
          /\ shader' = shader
        BY <1>9 DEF AddModule
    <2>3. PartsBefore("write")' = Append(PartsBefore("DXIL"), "DXIL")
        BY <1>3, <2>2, PartsInOrder
    <2>4. "DXIL" \in Codes /\ "DXIL" \in ContainerParts /\ "write" \in ContainerParts
        BY DEF Codes, ContainerParts
    <2> QED
        BY <1>2, <2>1, <2>2, <2>3, <2>4, PartsInOrder, AddStep
<1> QED
    BY <1>4, <1>5, <1>6, <1>7, <1>8, <1>9

LEMMA WriteStep ==
    ASSUME CInv, Write
    PROVE  CInv'
<1> DEFINE codes == ExpectedParts
           n == Len(codes)
           O == c.part_offsets
           header == 32 + 4 * n
<1>1. /\ pc = "write" /\ blob' = dxil_container_write(c, blob)
      /\ pc' = IF blob'.ok THEN "done" ELSE "failed"
      /\ shader' = shader /\ c' = c
    BY DEF Write
<1>2. /\ IsContainer(c) /\ IsLaid(c.parts) /\ IsBlob(blob)
      /\ blob = blob_init(blob.limit) /\ PartsAre(c, codes)
    BY <1>1 DEF CInv, IInv, Building, ContainerParts, PartsBefore
<1>3. n \in Nat /\ 1 \in 1 .. n /\ DOMAIN codes = 1 .. n /\ codes # <<>>
    <2>1. codes = PartsBefore("write")
        BY DEF PartsBefore
    <2>2. codes \in Seq(Codes)
        BY <2>1, PartsInOrder DEF ContainerParts
    <2>3. /\ codes = Append(PartsBefore("DXIL"), "DXIL")
          /\ PartsBefore("DXIL") \in Seq(Codes)
        BY <2>1, PartsInOrder DEF ContainerParts
    <2> HIDE DEF codes
    <2>4. Len(codes) = Len(PartsBefore("DXIL")) + 1
        BY <2>3
    <2>5. Len(PartsBefore("DXIL")) \in Nat
        BY <2>3
    <2>6. Len(<<>>) = 0
        OBVIOUS
    <2> QED
        BY <2>2, <2>4, <2>5, <2>6
<1>4. /\ IsBlob(blob') /\ IsLaid(blob')
      /\ blob'.ok =>
            /\ blob'.size = header + c.parts.size
            /\ ReadWord(blob', 24) = blob'.size
            /\ ReadWord(blob', 28) = n
            /\ \A i \in 1 .. n : ReadWord(blob', 28 + 4 * i) = header + O[i]
            /\ \A i \in DOMAIN codes :
                  /\ ReadWord(blob', header + O[i]) = codes[i]
                  /\ ReadWord(blob', header + O[i] + 4) = EndOfPart(c, i) - O[i] - 8
    <2>1. blob.limit \in Nat /\ blob' = dxil_container_write(c, blob_init(blob.limit))
        BY <1>1, <1>2, BlobType
    <2>2. header = 32 + 4 * Len(codes)
        OBVIOUS
    <2> HIDE DEF codes, header
    <2> QED
        BY <1>2, <2>1, <2>2, FileWritten
<1>5. /\ O \in Seq(Nat) /\ Len(O) = n /\ O[1] = 0 /\ c.parts.size \in Nat
      /\ \A i \in 1 .. n : O[i] \in Nat
    <2>1. O \in Seq(Nat) /\ Len(O) = n
        BY <1>2 DEF IsContainer, PartsAre
    <2>2. O[1] = 0
        BY <1>2, <1>3 DEF PartsAre
    <2>3. c.parts.size \in Nat
        BY <1>2, BlobType DEF IsContainer
    <2> HIDE DEF O
    <2> QED
        BY <2>1, <2>2, <2>3
<1> HIDE DEF codes, O, header
<1>6. PartsTile'
    <2>1. SUFFICES ASSUME blob'.ok
                   PROVE  /\ ReadWord(blob', 24) = blob'.size
                          /\ PartCount' = Len(ExpectedParts')
                          /\ PartAt(1)' = 32 + 4 * PartCount'
                          /\ \A i \in 1..PartCount' :
                                /\ PartCode(i)' = ExpectedParts'[i]
                                /\ PartAt(i)' + 8 + PartSize(i)' =
                                      IF i = PartCount' THEN blob'.size
                                                        ELSE PartAt(i + 1)'
        BY <1>1 DEF PartsTile
    <2>2. PartCount' = n
        BY <1>4, <2>1 DEF PartCount
    <2>3. ExpectedParts' = codes
        BY <1>1 DEF ExpectedParts, codes
    <2>4. \A i \in 1 .. n : PartAt(i)' = header + O[i]
        BY <1>4, <2>1 DEF PartAt
    <2>5. header = 32 + 4 * n /\ header \in Nat
        BY <1>3 DEF header
    <2>6. ASSUME NEW i \in 1 .. n
          PROVE  /\ PartCode(i)' = codes[i]
                 /\ PartSize(i)' = EndOfPart(c, i) - O[i] - 8
        <3>1. i \in DOMAIN codes
            BY <1>3
        <3>2. PartCode(i)' = ReadWord(blob', header + O[i])
            BY <2>4 DEF PartCode
        <3>3. PartSize(i)' = ReadWord(blob', header + O[i] + 4)
            BY <2>4 DEF PartSize
        <3> QED
            BY <1>4, <2>1, <3>1, <3>2, <3>3
    <2>7. ASSUME NEW i \in 1 .. n
          PROVE  PartAt(i)' + 8 + PartSize(i)' =
                    IF i = n THEN blob'.size ELSE PartAt(i + 1)'
        <3>1. CASE i = n
            <4>1. EndOfPart(c, i) = c.parts.size
                BY <1>5, <3>1 DEF EndOfPart, O
            <4>2. blob'.size = header + c.parts.size
                BY <1>4, <2>1
            <4> QED
                BY SMTT(30), <1>5, <2>4, <2>5, <2>6, <3>1, <4>1, <4>2
        <3>2. CASE i # n
            <4>0. n \in Nat
                BY <1>3
            <4>1. i + 1 \in 1 .. n
                BY <3>2, <4>0
            <4>2. EndOfPart(c, i) = O[i + 1]
                BY <1>5, <3>2 DEF EndOfPart, O
            <4>3. PartAt(i + 1)' = header + O[i + 1] /\ O[i + 1] \in Nat
                BY <1>5, <2>4, <4>1
            <4>4. PartAt(i)' + 8 + PartSize(i)' = header + O[i + 1]
                <5>1. /\ PartAt(i)' = header + O[i]
                      /\ PartSize(i)' = O[i + 1] - O[i] - 8
                    BY <2>4, <2>6, <4>2
                <5>2. header \in Nat /\ O[i] \in Nat /\ O[i + 1] \in Nat
                    BY <1>5, <2>5, <4>3
                <5> QED
                    BY <5>1, <5>2
            <4> QED
                BY <3>2, <4>3, <4>4
        <3> QED
            BY <3>1, <3>2
    <2>8. PartAt(1)' = 32 + 4 * n
        BY <1>3, <1>5, <2>4, <2>5
    <2>9. ReadWord(blob', 24) = blob'.size
        BY <1>4, <2>1
    <2> QED
        BY <2>2, <2>3, <2>6, <2>7, <2>8, <2>9 DEF codes
<1>7. IsContainer(c)' /\ IsLaid(c.parts)'
    BY <1>1, <1>2
<1>8. NoPartialSuccess'
    <2>1. ~ c'.parts.out_of_memory
        BY <1>1, <1>2 DEF PartsAre, IsLaid
    <2>2. blob'.ok => ~ blob'.out_of_memory
        BY <1>4 DEF IsLaid
    <2>3. OffsetsFit(c')
        BY <1>1, <1>2 DEF IsContainer
    <2> QED
        BY <1>1, <2>1, <2>2, <2>3 DEF NoPartialSuccess, OffsetsFit
<1>9. Converted' /\ Building'
    BY <1>1 DEF Converted, Building, ContainerParts
<1> QED
    BY <1>4, <1>6, <1>7, <1>8, <1>9 DEF CInv, IInv

LEMMA NextInv ==
    CInv /\ SignaturesAreWhole /\ [Next]_vars => CInv'
<1> SUFFICES ASSUME CInv, SignaturesAreWhole, [Next]_vars
             PROVE  CInv'
    OBVIOUS
<1>1. CASE SignatureNext /\ UNCHANGED <<shader, c, blob>>
    BY <1>1, SignatureStep
<1>2. CASE StartContainer
    BY <1>2, StartStep
<1>3. CASE AddFeatures \/ AddInputs \/ AddOutputs \/ AddPatchConstants
           \/ AddStateValidation \/ AddModule
    BY <1>3, PartSteps
<1>4. CASE Write
    BY <1>4, WriteStep
<1>5. CASE UNCHANGED vars
    <2>1. /\ stages' = stages /\ mods' = mods /\ at' = at /\ pc' = pc
          /\ shader' = shader /\ c' = c /\ blob' = blob
        BY <1>5 DEF vars
    <2>2. Converted' /\ IsContainer(c)' /\ IsBlob(blob)'
        BY <2>1 DEF CInv, Converted
    <2>3. IsLaid(c.parts)' /\ IsLaid(blob)' /\ NoPartialSuccess'
        BY <2>1 DEF CInv, IInv, NoPartialSuccess
    <2>4. Building'
        <3>1. PartsBefore(pc)' = PartsBefore(pc)
            BY <2>1 DEF PartsBefore, ExpectedParts
        <3> QED
            BY <2>1, <3>1 DEF CInv, IInv, Building
    <2>5. PartsTile'
        BY <2>1 DEF CInv, IInv, PartsTile, PartCount, PartAt, PartCode, PartSize,
                    ExpectedParts
    <2> QED
        BY <2>2, <2>3, <2>4, <2>5 DEF CInv, IInv
<1> QED
    BY <1>1, <1>2, <1>3, <1>4, <1>5 DEF Next

(* Whatever the pipeline, the validator and the memory: the container that *)
(* is being built always keeps its parts in order behind true headers.     *)
THEOREM Invariance == Spec /\ []SignaturesAreWhole => []IInv
<1>1. CInv => IInv
    BY DEF CInv
<1> QED
    BY <1>1, InitInv, NextInv, PTL DEF Spec

(* In a finished container each part ends where the next begins, the last  *)
(* at the end of the file, although every size is written before what it   *)
(* measures.                                                               *)
THEOREM SizesAreKept == Spec /\ []SignaturesAreWhole => []PartsTile
<1>1. IInv => PartsTile
    BY DEF IInv
<1> QED
    BY <1>1, Invariance, PTL

(* No container is handed out after memory ran out for any piece of it.    *)
THEOREM NoPartialContainer == Spec /\ []SignaturesAreWhole => []NoPartialSuccess
<1>1. IInv => NoPartialSuccess
    BY DEF IInv
<1> QED
    BY <1>1, Invariance, PTL
=============================================================================
