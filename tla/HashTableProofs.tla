--------------------------- MODULE HashTableProofs ---------------------------
(***************************************************************************)
(* For every set of keys, every hash function and every table of prime     *)
(* sizes: the hash table stays sound, its iteration is exact, moving the   *)
(* entries always finds a slot, and the table implements the map.          *)
(***************************************************************************)
EXTENDS HashTable, FiniteSetTheorems, FunctionTheorems,
        WellFoundedInduction, TLAPS
-----------------------------------------------------------------------------
(* Double hashing modulo a prime meets every slot.                         *)

LEMMA LeastNat ==
    ASSUME NEW T, T \subseteq Nat, T # {}
    PROVE  \E x \in T : \A y \in T : x <= y
<1>1. PICK x \in T : \A y \in T : ~ (<<y, x>> \in OpToRel(<, Nat))
    BY WFMin, NatLessThanWellFounded
<1>2. \A y \in T : ~ (y < x)
    BY <1>1, Zenon DEF OpToRel
<1> QED
    BY <1>2

LEMMA DivMod ==
    ASSUME NEW a \in Nat, NEW b \in Nat \ {0}
    PROVE  /\ a % b \in 0 .. b - 1
           /\ a \div b \in Nat
           /\ a = b * (a \div b) + (a % b)
    OBVIOUS

IsPrime(p) == p \in Nat /\ p > 1 /\ \A d \in 2 .. p - 1 : p % d # 0
Divides(p, x) == \E q \in Int : x = p * q

(* A prime divides no product of two smaller numbers: the least y that     *)
(* makes it divide x * y would divide p.                                   *)
LEMMA Euclid ==
    ASSUME NEW p, IsPrime(p), NEW x \in 1 .. p - 1, NEW y \in 1 .. p - 1,
           Divides(p, x * y)
    PROVE  FALSE
<1> DEFINE T == {d \in 1 .. p - 1 : Divides(p, x * d)}
<1>0. p \in Nat /\ p > 1
    BY DEF IsPrime
<1>1. PICK d \in T : \A e \in T : d <= e
    <2>1. T \subseteq Nat /\ y \in T
        BY <1>0
    <2> HIDE DEF T
    <2> QED
        BY <2>1, LeastNat
<1>2. PICK q \in Int : x * d = p * q
    BY <1>1 DEF Divides
<1>3. d # 1
    <2> SUFFICES ASSUME d = 1 PROVE FALSE
        OBVIOUS
    <2>1. x = p * q
        BY <1>0, <1>2
    <2>2. q > 0
        BY <1>0, <2>1
    <2>3. p * q >= p
        BY <1>0, <2>2
    <2> QED
        BY <1>0, <2>1, <2>3
<1>4. /\ p % d \in 1 .. d - 1 /\ p \div d \in Nat
      /\ p = d * (p \div d) + (p % d)
    <2>1. d \in 2 .. p - 1 /\ d \in Nat \ {0}
        BY <1>0, <1>1, <1>3
    <2>2. p % d # 0
        BY <2>1 DEF IsPrime
    <2>3. /\ p % d \in 0 .. d - 1 /\ p \div d \in Nat
          /\ p = d * (p \div d) + (p % d)
        BY <1>0, <2>1, DivMod
    <2> QED
        BY <2>1, <2>2, <2>3
<1> DEFINE r == p % d
           c == p \div d
<1>5. r \in 1 .. d - 1 /\ c \in Nat /\ p = d * c + r
    BY <1>4
<1> HIDE DEF r, c
<1>6. x * r = p * (x - q * c)
    <2>1. x * p = x * (d * c) + x * r
        BY <1>0, <1>5
    <2>2. x * (d * c) = (x * d) * c
        BY <1>0, <1>5, <1>1
    <2>3. (x * d) * c = p * (q * c)
        BY <1>0, <1>2, <1>5
    <2>4. p * (x - q * c) = x * p - p * (q * c)
        BY <1>0, <1>5
    <2> QED
        BY <1>0, <2>1, <2>2, <2>3, <2>4, <1>5
<1>7. r \in T
    <2>1. r \in 1 .. p - 1
        BY <1>0, <1>5, <1>1
    <2>2. x - q * c \in Int
        BY <1>0, <1>5
    <2> QED
        BY <2>1, <2>2, <1>6 DEF Divides
<1> QED
    BY <1>7, <1>1, <1>5

LEMMA ProbesDiffer ==
    ASSUME NEW p, IsPrime(p), NEW h \in Nat, NEW y \in 1 .. p - 1,
           NEW m \in 0 .. p - 1, NEW n \in 0 .. p - 1, m < n,
           (h + m * y) % p = (h + n * y) % p
    PROVE  FALSE
<1> DEFINE a == h + m * y
           b == h + n * y
<1>0. p \in Nat \ {0}
    BY DEF IsPrime
<1>1. a \in Nat /\ b \in Nat
    BY <1>0
<1>2. b - a = (n - m) * y
    BY <1>0
<1>3. a % p = b % p
    OBVIOUS
<1> HIDE DEF a, b
<1>4. PICK q1 \in Nat : a = p * q1 + (a % p)
    <2>1. a \div p \in Nat /\ a = p * (a \div p) + (a % p)
        BY <1>0, <1>1, DivMod
    <2> QED
        BY <2>1
<1>5. PICK q2 \in Nat : b = p * q2 + (b % p)
    <2>1. b \div p \in Nat /\ b = p * (b \div p) + (b % p)
        BY <1>0, <1>1, DivMod
    <2> QED
        BY <2>1
<1>6. a % p \in Int
    BY <1>0, <1>1
<1>7. (n - m) * y = p * (q2 - q1)
    <2> DEFINE r == a % p
    <2>1. r \in Int /\ a = p * q1 + r /\ b = p * q2 + r
        BY <1>3, <1>4, <1>5, <1>6
    <2> HIDE DEF r
    <2> QED
        BY <1>0, <2>1, <1>2
<1>8. Divides(p, (n - m) * y)
    <2>1. q2 - q1 \in Int
        OBVIOUS
    <2> QED
        BY <1>7, <2>1 DEF Divides
<1>9. n - m \in 1 .. p - 1
    BY <1>0
<1> QED
    BY <1>8, <1>9, Euclid

(* As many probes as slots, all different, leave no slot out.              *)
LEMMA ProbesCover ==
    ASSUME NEW p, IsPrime(p), NEW h \in Nat, NEW y \in 1 .. p - 1,
           NEW s \in 0 .. p - 1
    PROVE  \E n \in 0 .. p - 1 : (h + n * y) % p = s
<1> DEFINE S == 0 .. p - 1
           f == [n \in S |-> (h + n * y) % p]
<1>0. p \in Nat \ {0}
    BY DEF IsPrime
<1>1. f \in [S -> S]
    <2>1. ASSUME NEW n \in S PROVE (h + n * y) % p \in S
        <3>1. h + n * y \in Nat
            BY <1>0
        <3> QED
            BY <1>0, <3>1, DivMod
    <2> QED
        BY <2>1
<1>2. \A m, n \in S : f[m] = f[n] => m = n
    <2> SUFFICES ASSUME NEW m \in S, NEW n \in S, f[m] = f[n], m # n
                 PROVE  FALSE
        OBVIOUS
    <2>1. (h + m * y) % p = (h + n * y) % p
        OBVIOUS
    <2>2. CASE m < n
        BY <2>1, <2>2, ProbesDiffer
    <2>3. CASE n < m
        BY <2>1, <2>3, ProbesDiffer
    <2> QED
        BY <1>0, <2>2, <2>3
<1>3. IsFiniteSet(S)
    BY <1>0, FS_Interval
<1>4. f \in Surjection(S, S)
    <2> HIDE DEF f, S
    <2>1. f \in Injection(S, S)
        BY <1>1, <1>2, Fun_IsInj
    <2> QED
        BY <2>1, <1>3, FS_Injection
<1>5. \E n \in S : f[n] = s
    <2>1. s \in S
        OBVIOUS
    <2> HIDE DEF f, S
    <2>2. \A t \in S : \E n \in S : f[n] = t
        BY <1>4, Fun_SurjectionProperties
    <2> QED
        BY <2>1, <2>2
<1> QED
    BY <1>5
-----------------------------------------------------------------------------
(* The sizes, the probes and the slots of a table.                         *)

LEMMA SizeFacts ==
    ASSUME NEW i \in 1 .. Len(Sizes)
    PROVE  /\ Size(i) \in Nat \ {0} /\ IsPrime(Size(i))
           /\ MaxEntries(i) \in Nat \ {0} /\ MaxEntries(i) < Size(i)
           /\ Sizes[i].rehash \in Nat \ {0} /\ Sizes[i].rehash < Size(i)
<1>1. i \in DOMAIN Sizes
    BY SizesAreSizes
<1>2. Sizes[i] \in [max_entries : Nat \ {0}, size : Nat \ {0},
                    rehash : Nat \ {0}]
    <2> DEFINE R == [max_entries : Nat \ {0}, size : Nat \ {0},
                     rehash : Nat \ {0}]
    <2>1. Sizes \in Seq(R)
        BY SizesAreSizes
    <2> HIDE DEF R
    <2>2. Sizes[i] \in R
        BY <2>1
    <2> QED
        BY <2>2 DEF R
<1>3. /\ Size(i) \in Nat \ {0} /\ MaxEntries(i) \in Nat \ {0}
      /\ Sizes[i].rehash \in Nat \ {0}
    BY <1>2 DEF Size, MaxEntries
<1>4. /\ Size(i) > 1 /\ Sizes[i].rehash < Size(i)
      /\ \A d \in 2 .. Size(i) - 1 : Size(i) % d # 0
    BY <1>1, SizesArePrime DEF Size
<1>5. MaxEntries(i) < Size(i)
    BY <1>1, SizesGrow DEF Size, MaxEntries
<1> QED
    BY <1>3, <1>4, <1>5 DEF IsPrime

LEMMA LargerSizes ==
    ASSUME NEW i \in 1 .. Len(Sizes), NEW j \in 1 .. Len(Sizes), i < j
    PROVE  MaxEntries(i) < MaxEntries(j) /\ Size(i) < Size(j)
<1>1. i \in DOMAIN Sizes /\ j \in DOMAIN Sizes
    BY SizesAreSizes
<1> QED
    BY <1>1, SizesGrow DEF Size, MaxEntries

LEMMA HashFacts ==
    ASSUME NEW i \in 1 .. Len(Sizes), NEW k \in Keys
    PROVE  /\ Hash[k] % Size(i) \in Nat
           /\ DoubleHash(i, k) \in 1 .. Size(i) - 1
<1>1. Hash[k] \in Nat
    BY HashIsNat
<1>2. Hash[k] % Size(i) \in 0 .. Size(i) - 1
    BY <1>1, SizeFacts, DivMod
<1>3. Hash[k] % Sizes[i].rehash \in 0 .. Sizes[i].rehash - 1
    BY <1>1, SizeFacts, DivMod
<1> QED
    BY <1>2, <1>3, SizeFacts DEF DoubleHash

LEMMA ProbeType ==
    ASSUME NEW i \in 1 .. Len(Sizes), NEW k \in Keys, NEW n \in Nat
    PROVE  Probe(i, k, n) \in 0 .. Size(i) - 1
<1> DEFINE h == Hash[k] % Size(i)
           y == DoubleHash(i, k)
<1>1. h \in Nat /\ y \in Nat /\ Size(i) \in Nat \ {0}
    BY HashFacts, SizeFacts
<1> HIDE DEF h, y
<1>2. h + n * y \in Nat
    BY <1>1
<1>3. (h + n * y) % Size(i) \in 0 .. Size(i) - 1
    BY <1>1, <1>2, DivMod
<1> QED
    BY <1>3 DEF Probe, h, y

(* Whatever the hash of a key, its probes meet every slot.                 *)
LEMMA EverySlotIsProbed ==
    ASSUME NEW i \in 1 .. Len(Sizes), NEW k \in Keys,
           NEW a \in 0 .. Size(i) - 1
    PROVE  \E n \in 0 .. Size(i) - 1 : Probe(i, k, n) = a
<1> DEFINE h == Hash[k] % Size(i)
           y == DoubleHash(i, k)
<1>1. h \in Nat /\ y \in 1 .. Size(i) - 1 /\ IsPrime(Size(i))
    BY HashFacts, SizeFacts
<1> HIDE DEF h, y
<1>2. \E n \in 0 .. Size(i) - 1 : (h + n * y) % Size(i) = a
    BY <1>1, ProbesCover
<1> QED
    BY <1>2 DEF Probe, h, y

LEMMA SlotFacts ==
    ASSUME NEW t, TableOK(t)
    PROVE  /\ DOMAIN t.table = 0 .. Size(t.size_index) - 1
           /\ t.size_index \in 1 .. Len(Sizes)
           /\ \A a \in DOMAIN t.table : Present(t.table[a])
                                          <=> t.table[a] \in Entry
           /\ IsFiniteSet(Filled(t)) /\ IsFiniteSet(Tombstones(t))
           /\ IsFiniteSet(DOMAIN t.table)
           /\ Cardinality(DOMAIN t.table) = Size(t.size_index)
<1>1. /\ DOMAIN t.table = 0 .. Size(t.size_index) - 1
      /\ t.size_index \in 1 .. Len(Sizes)
      /\ \A a \in DOMAIN t.table : Present(t.table[a])
                                     <=> t.table[a] \in Entry
    BY MarkersAreNoData DEF TableOK, Present
<1>2. Size(t.size_index) \in Nat \ {0}
    BY <1>1, SizeFacts
<1>3. /\ IsFiniteSet(DOMAIN t.table)
      /\ Cardinality(DOMAIN t.table) = Size(t.size_index)
    BY <1>1, <1>2, FS_Interval
<1>4. Filled(t) \in SUBSET DOMAIN t.table
        /\ Tombstones(t) \in SUBSET DOMAIN t.table
    BY DEF Filled, Tombstones
<1> QED
    BY <1>1, <1>3, <1>4, FS_Subset

LEMMA EntryFacts ==
    ASSUME NEW t, TableOK(t), NEW a \in Filled(t)
    PROVE  /\ t.table[a] \in Entry
           /\ t.table[a].key \in Keys /\ t.table[a].data \in Values
           /\ a \in 0 .. Size(t.size_index) - 1
           /\ t.table[a] # Free /\ t.table[a] # Deleted
<1>1. t.table[a] \in Entry /\ a \in DOMAIN t.table
    BY SlotFacts DEF Filled
<1> QED
    BY <1>1, SlotFacts, MarkersAreNoData DEF Entry

(* The first slot of S on the way of k: it is unique, and there is one     *)
(* whenever S has a slot.                                                  *)
LEMMA FirstProbedIs ==
    ASSUME NEW t, NEW k, NEW S, Size(t.size_index) \in Nat,
           NEW n \in 0 .. Size(t.size_index) - 1,
           Probe(t.size_index, k, n) \in S,
           \A m \in 0 .. n - 1 : Probe(t.size_index, k, m) \notin S
    PROVE  FirstProbed(t, k, S) = {Probe(t.size_index, k, n)}
<1> DEFINE At(m) == Probe(t.size_index, k, m)
           I == {m \in 0 .. Size(t.size_index) - 1 :
                   At(m) \in S /\ \A l \in 0 .. m - 1 : At(l) \notin S}
<1>1. n \in I
    OBVIOUS
<1>2. ASSUME NEW m \in I PROVE m = n
    <2>1. ~ (m < n) /\ ~ (n < m)
        BY <1>1
    <2> QED
        BY <2>1
<1>3. FirstProbed(t, k, S) = {At(m) : m \in I}
    BY DEF FirstProbed
<1> HIDE DEF I
<1> QED
    BY <1>1, <1>2, <1>3

LEMMA FirstProbedMeets ==
    ASSUME NEW t, NEW k, NEW S, NEW a \in FirstProbed(t, k, S)
    PROVE  /\ a \in S
           /\ \E n \in 0 .. Size(t.size_index) - 1 :
                 /\ Probe(t.size_index, k, n) = a
                 /\ \A m \in 0 .. n - 1 : Probe(t.size_index, k, m) \notin S
    BY DEF FirstProbed

LEMMA FirstProbedExists ==
    ASSUME NEW t, TableOK(t), NEW k \in Keys,
           NEW S, S \subseteq DOMAIN t.table, S # {}
    PROVE  FirstProbed(t, k, S) # {}
<1> DEFINE N == Size(t.size_index)
           T == {n \in 0 .. N - 1 : Probe(t.size_index, k, n) \in S}
<1>0. N \in Nat \ {0} /\ t.size_index \in 1 .. Len(Sizes)
    BY SlotFacts, SizeFacts
<1>1. PICK a \in S : a \in 0 .. N - 1
    BY SlotFacts
<1>2. \E n \in 0 .. N - 1 : Probe(t.size_index, k, n) = a
    BY <1>0, <1>1, EverySlotIsProbed
<1>3. T # {} /\ T \subseteq Nat
    BY <1>0, <1>1, <1>2
<1>4. PICK n \in T : \A m \in T : n <= m
    <2> HIDE DEF T
    <2> QED
        BY <1>3, LeastNat
<1>5. \A m \in 0 .. n - 1 : Probe(t.size_index, k, m) \notin S
    BY <1>0, <1>4
<1>6. n \in 0 .. N - 1 /\ Probe(t.size_index, k, n) \in S
    BY <1>4
<1>7. FirstProbed(t, k, S) = {Probe(t.size_index, k, n)}
    BY <1>0, <1>5, <1>6, FirstProbedIs
<1> QED
    BY <1>7
-----------------------------------------------------------------------------
(* What the functions of the table find and change.                        *)

(* The part of soundness that also a table under construction has.         *)
WellKept(t) == TableOK(t) /\ EntriesAreReached(t) /\ KeysAreUnique(t)

(* hash_table_search finds every entry, and nothing but entries of its key.*)
LEMMA SearchFinds ==
    ASSUME NEW t, WellKept(t), NEW a \in Filled(t)
    PROVE  hash_table_search(t, t.table[a].key) = {a}
<1> DEFINE k == t.table[a].key
           At(n) == Probe(t.size_index, k, n)
           stops == {b \in DOMAIN t.table : \/ t.table[b] = Free
                                            \/ /\ Present(t.table[b])
                                               /\ t.table[b].key = k}
<1>0. TableOK(t) /\ k \in Keys /\ Size(t.size_index) \in Nat
    BY EntryFacts, SlotFacts, SizeFacts DEF WellKept
<1>1. PICK n \in 0 .. Size(t.size_index) - 1 : LeadsTo(t, k, n, a)
    BY DEF WellKept, EntriesAreReached
<1>2. At(n) = a /\ a \in stops
    BY <1>1 DEF LeadsTo, Filled
<1>3. ASSUME NEW m \in 0 .. n - 1 PROVE At(m) \notin stops
    <2>1. At(m) # a /\ t.table[At(m)] # Free
        BY <1>1 DEF LeadsTo
    <2>2. At(m) \in Filled(t) => t.table[At(m)].key # k
        BY <2>1 DEF WellKept, KeysAreUnique
    <2> QED
        BY <2>1, <2>2 DEF Filled
<1>4. FirstProbed(t, k, stops) = {a}
    <2> HIDE DEF stops
    <2> QED
        BY <1>0, <1>2, <1>3, FirstProbedIs
<1>5. t.table[a] # Free
    BY <1>0, EntryFacts
<1> QED
    BY <1>4, <1>5 DEF hash_table_search

LEMMA SearchMeans ==
    ASSUME NEW t, NEW k, NEW a \in hash_table_search(t, k)
    PROVE  a \in Filled(t) /\ t.table[a].key = k
<1> DEFINE stops == {b \in DOMAIN t.table : \/ t.table[b] = Free
                                            \/ /\ Present(t.table[b])
                                               /\ t.table[b].key = k}
<1>1. a \in FirstProbed(t, k, stops) /\ t.table[a] # Free
    BY DEF hash_table_search
<1>2. a \in stops
    <2> HIDE DEF stops
    <2> QED
        BY <1>1, FirstProbedMeets
<1> QED
    BY <1>1, <1>2 DEF Filled

LEMMA SearchIff ==
    ASSUME NEW t, WellKept(t), NEW k
    PROVE  hash_table_search(t, k) # {}
              <=> \E a \in Filled(t) : t.table[a].key = k
    BY SearchFinds, SearchMeans

(* The slot for a key that is not there: nothing on the way to it is free. *)
LEMMA AvailableMeans ==
    ASSUME NEW t, TableOK(t), NEW k \in Keys, NEW b \in Available(t, k)
    PROVE  /\ b \in DOMAIN t.table /\ b \notin Filled(t)
           /\ \E n \in 0 .. Size(t.size_index) - 1 :
                 /\ Probe(t.size_index, k, n) = b
                 /\ \A m \in 0 .. n - 1 :
                       /\ Probe(t.size_index, k, m) # b
                       /\ t.table[Probe(t.size_index, k, m)] # Free
<1>1. b \in Absent(t)
    BY FirstProbedMeets DEF Available
<1>2. PICK n \in 0 .. Size(t.size_index) - 1 :
          /\ Probe(t.size_index, k, n) = b
          /\ \A m \in 0 .. n - 1 : Probe(t.size_index, k, m) \notin Absent(t)
    BY FirstProbedMeets DEF Available
<1>3. ASSUME NEW m \in 0 .. n - 1
      PROVE  t.table[Probe(t.size_index, k, m)] # Free
    <2>0. t.size_index \in 1 .. Len(Sizes) /\ Size(t.size_index) \in Nat
        BY SlotFacts, SizeFacts
    <2>1. m \in Nat
        BY <2>0
    <2>2. Probe(t.size_index, k, m) \in DOMAIN t.table
        BY <2>0, <2>1, ProbeType, SlotFacts
    <2> QED
        BY <1>2, <2>2 DEF Absent, Present
<1> QED
    BY <1>1, <1>2, <1>3 DEF Absent, Filled

LEMMA AvailableExists ==
    ASSUME NEW t, TableOK(t), NEW k \in Keys,
           Cardinality(Filled(t)) < Size(t.size_index)
    PROVE  Available(t, k) # {}
<1>1. Filled(t) # DOMAIN t.table
    BY SlotFacts, SizeFacts
<1>2. Absent(t) # {} /\ Absent(t) \subseteq DOMAIN t.table
    BY <1>1 DEF Absent, Filled
<1> QED
    BY <1>2, FirstProbedExists DEF Available

(* A table u that differs from t in one slot that was free, deleted or an  *)
(* entry of the same key, or is now deleted, keeps what t keeps.           *)
LEMMA StoreInNewSlot ==
    ASSUME NEW t, WellKept(t), NEW k \in Keys, NEW d \in Values,
           \A a \in Filled(t) : t.table[a].key # k,
           NEW b \in Available(t, k), NEW u, TableOK(u),
           u.size_index = t.size_index,
           u.table = [t.table EXCEPT ![b] = [key |-> k, data |-> d]]
    PROVE  /\ WellKept(u)
           /\ b \notin Filled(t) /\ Filled(u) = Filled(t) \union {b}
           /\ Tombstones(u) = Tombstones(t) \ {b}
<1> DEFINE e == [key |-> k, data |-> d]
<1>0. TableOK(t) /\ e \in Entry /\ e # Free /\ e # Deleted /\ e.key = k
    BY MarkersAreNoData DEF WellKept, Entry
<1> HIDE DEF e
<1>1. b \in DOMAIN t.table /\ b \notin Filled(t)
    BY <1>0, AvailableMeans
<1>2. /\ DOMAIN u.table = DOMAIN t.table
      /\ u.table[b] = e
      /\ \A a \in DOMAIN t.table : a # b => u.table[a] = t.table[a]
    BY <1>0, <1>1 DEF TableOK, e
<1>3. Filled(u) = Filled(t) \union {b}
    BY <1>0, <1>1, <1>2 DEF Filled, Present
<1>4. Tombstones(u) = Tombstones(t) \ {b}
    BY <1>0, <1>1, <1>2 DEF Tombstones
<1>5. KeysAreUnique(u)
    BY <1>0, <1>1, <1>2, <1>3 DEF KeysAreUnique, WellKept, Filled
<1>6. \A n, l, a : LeadsTo(t, l, n, a) => LeadsTo(u, l, n, a)
    <2> SUFFICES ASSUME NEW n, NEW l, NEW a, LeadsTo(t, l, n, a),
                        NEW m \in 0 .. n - 1
                 PROVE  u.table[Probe(u.size_index, l, m)] # Free
        BY DEF LeadsTo
    <2>1. t.table[Probe(t.size_index, l, m)] # Free
        BY DEF LeadsTo
    <2> QED
        BY <2>1, <1>0 DEF e, TableOK
<1>7. EntriesAreReached(u)
    <2> SUFFICES ASSUME NEW a \in Filled(u)
                 PROVE  \E n \in 0 .. Size(u.size_index) - 1 :
                           LeadsTo(u, u.table[a].key, n, a)
        BY DEF EntriesAreReached
    <2>1. CASE a = b
        <3>1. PICK n \in 0 .. Size(t.size_index) - 1 : LeadsTo(t, k, n, b)
            BY <1>0, AvailableMeans DEF LeadsTo
        <3> QED
            BY <3>1, <2>1, <1>0, <1>2, <1>6
    <2>2. CASE a # b
        <3>1. a \in Filled(t) /\ u.table[a] = t.table[a]
            BY <2>2, <1>2, <1>3 DEF Filled
        <3> QED
            BY <3>1, <1>6 DEF WellKept, EntriesAreReached
    <2> QED
        BY <2>1, <2>2
<1> QED
    BY <1>1, <1>3, <1>4, <1>5, <1>7 DEF WellKept

LEMMA KeptByChange ==
    ASSUME NEW t, WellKept(t), NEW u, TableOK(u),
           u.size_index = t.size_index,
           \A a \in DOMAIN t.table : t.table[a] # Free => u.table[a] # Free,
           Filled(u) \subseteq Filled(t),
           \A a \in Filled(u) : u.table[a].key = t.table[a].key
    PROVE  WellKept(u)
<1>1. KeysAreUnique(u)
    BY DEF WellKept, KeysAreUnique
<1>2. ASSUME NEW a \in Filled(u)
      PROVE  \E n \in 0 .. Size(u.size_index) - 1 :
                LeadsTo(u, u.table[a].key, n, a)
    <2> DEFINE k == t.table[a].key
    <2>0. /\ TableOK(t) /\ k \in Keys
          /\ t.size_index \in 1 .. Len(Sizes) /\ Size(t.size_index) \in Nat
          /\ DOMAIN t.table = 0 .. Size(t.size_index) - 1
        BY EntryFacts, SlotFacts, SizeFacts DEF WellKept
    <2>1. PICK n \in 0 .. Size(t.size_index) - 1 : LeadsTo(t, k, n, a)
        BY DEF WellKept, EntriesAreReached
    <2>2. ASSUME NEW m \in 0 .. n - 1
          PROVE  u.table[Probe(t.size_index, k, m)] # Free
        <3>1. m \in Nat
            BY <2>0
        <3>2. Probe(t.size_index, k, m) \in DOMAIN t.table
            BY <2>0, <3>1, ProbeType
        <3> QED
            BY <2>1, <3>2 DEF LeadsTo
    <2> QED
        BY <2>1, <2>2 DEF LeadsTo
<1> QED
    BY <1>1, <1>2 DEF WellKept, EntriesAreReached

(* An entry gets other data, or becomes a tombstone.                       *)
LEMMA ChangeSlot ==
    ASSUME NEW t, WellKept(t), NEW a \in Filled(t), NEW s,
           s = Deleted \/ (s \in Entry /\ s.key = t.table[a].key),
           NEW u, TableOK(u), u.size_index = t.size_index,
           u.table = [t.table EXCEPT ![a] = s]
    PROVE  /\ WellKept(u)
           /\ s = Deleted => /\ Filled(u) = Filled(t) \ {a}
                             /\ Tombstones(u) = Tombstones(t) \union {a}
                             /\ a \notin Tombstones(t)
           /\ s # Deleted => /\ Filled(u) = Filled(t)
                             /\ Tombstones(u) = Tombstones(t)
<1>0. /\ TableOK(t) /\ a \in DOMAIN t.table /\ s # Free
      /\ t.table[a] # Free /\ t.table[a] # Deleted
    BY EntryFacts, MarkersAreNoData DEF WellKept, Filled
<1>1. /\ DOMAIN u.table = DOMAIN t.table
      /\ u.table[a] = s
      /\ \A c \in DOMAIN t.table : c # a => u.table[c] = t.table[c]
    BY <1>0 DEF TableOK
<1>2. \A c \in DOMAIN t.table : t.table[c] # Free => u.table[c] # Free
    BY <1>0, <1>1
<1>3. CASE s = Deleted
    <2>1. Filled(u) = Filled(t) \ {a} /\ a \notin Tombstones(t)
        BY <1>0, <1>1, <1>3 DEF Filled, Tombstones, Present
    <2>2. Tombstones(u) = Tombstones(t) \union {a}
        BY <1>0, <1>1, <1>3 DEF Tombstones
    <2>3. /\ Filled(u) \subseteq Filled(t)
          /\ \A c \in Filled(u) : u.table[c].key = t.table[c].key
        BY <2>1, <1>1, <1>3 DEF Filled
    <2>4. WellKept(u)
        BY <2>3, <1>2, KeptByChange
    <2> QED
        BY <2>1, <2>2, <2>4, <1>3
<1>4. CASE s # Deleted
    <2>1. Filled(u) = Filled(t)
        BY <1>0, <1>1, <1>4 DEF Filled, Present
    <2>2. Tombstones(u) = Tombstones(t)
        BY <1>0, <1>1, <1>4 DEF Tombstones
    <2>3. /\ Filled(u) \subseteq Filled(t)
          /\ \A c \in Filled(u) : u.table[c].key = t.table[c].key
        BY <2>1, <1>1, <1>4 DEF Filled
    <2>4. WellKept(u)
        BY <2>3, <1>2, KeptByChange
    <2> QED
        BY <2>1, <2>2, <2>4, <1>4
<1> QED
    BY <1>3, <1>4

LEMMA EmptyTableIsSound ==
    ASSUME NEW i \in 1 .. Len(Sizes)
    PROVE  /\ SoundTable(EmptyTable(i)) /\ Filled(EmptyTable(i)) = {}
           /\ Tombstones(EmptyTable(i)) = {}
           /\ EmptyTable(i).size_index = i
           /\ EmptyTable(i).entries = 0 /\ EmptyTable(i).deleted_entries = 0
<1> DEFINE t == EmptyTable(i)
<1>1. TableOK(t) /\ t.size_index = i /\ t.entries = 0
        /\ t.deleted_entries = 0
    BY DEF EmptyTable, TableOK
<1>2. Filled(t) = {} /\ Tombstones(t) = {}
    BY MarkersAreNoData DEF EmptyTable, Filled, Tombstones, Present
<1>3. Counted(t)
    BY <1>1, <1>2, FS_EmptySet DEF Counted
<1> QED
    BY <1>1, <1>2, <1>3
    DEF SoundTable, EntriesAreReached, KeysAreUnique

(* _mesa_hash_table_next_entry finds the first entry at or after a slot.   *)
LEMMA NextEntryIs ==
    ASSUME NEW t, TableOK(t), NEW a \in 0 .. Size(t.size_index)
    PROVE  /\ NextEntry(t, a) \in a .. Size(t.size_index)
           /\ \/ NextEntry(t, a) = Size(t.size_index)
              \/ NextEntry(t, a) \in Filled(t)
           /\ \A c \in a .. NextEntry(t, a) - 1 : c \notin Filled(t)
<1> DEFINE end == Size(t.size_index)
           T == {b \in a .. end : b = end \/ Present(t.table[b])}
           Q(b) == /\ b = end \/ Present(t.table[b])
                   /\ \A c \in a .. b - 1 : ~ Present(t.table[c])
<1>0. end \in Nat /\ DOMAIN t.table = 0 .. end - 1
    BY SlotFacts, SizeFacts
<1>1. T \subseteq Nat /\ T # {}
    BY <1>0
<1>2. PICK b \in T : \A c \in T : b <= c
    <2> HIDE DEF T
    <2> QED
        BY <1>1, LeastNat
<1>3. b \in a .. end /\ Q(b)
    BY <1>0, <1>2
<1>4. NextEntry(t, a) = CHOOSE c \in a .. end : Q(c)
    BY DEF NextEntry
<1>5. NextEntry(t, a) \in a .. end /\ Q(NextEntry(t, a))
    <2> HIDE DEF Q
    <2> QED
        BY <1>3, <1>4
<1> QED
    BY <1>0, <1>5 DEF Filled
-----------------------------------------------------------------------------
(* The operations on a sound table.                                        *)

LEMMA CountFacts ==
    ASSUME NEW t, SoundTable(t)
    PROVE  /\ IsFiniteSet(Filled(t)) /\ IsFiniteSet(Tombstones(t))
           /\ t.entries = Cardinality(Filled(t)) /\ t.entries \in Nat
           /\ t.deleted_entries = Cardinality(Tombstones(t))
           /\ t.deleted_entries \in Nat
           /\ \A a \in Filled(t) : t.entries > 0
           /\ \A a \in Tombstones(t) : t.deleted_entries > 0
<1>1. TableOK(t) /\ Counted(t) /\ IsFiniteSet(Filled(t))
        /\ IsFiniteSet(Tombstones(t))
    BY SlotFacts DEF SoundTable
<1>2. /\ Cardinality(Filled(t)) = 0 <=> Filled(t) = {}
      /\ Cardinality(Tombstones(t)) = 0 <=> Tombstones(t) = {}
    BY <1>1, FS_EmptySet
<1> QED
    BY <1>1, <1>2 DEF Counted, TableOK

(* hash_table_get_entry and hash_table_insert store the entry in the slot  *)
(* of its key, or in a new one that a search will find.                    *)
LEMMA StoreResult ==
    ASSUME SoundTable(ht), NEW k \in Keys, NEW d \in Values,
           NEW a \in hash_table_get_entry(ht, k), NEW u, u = Stored(a, k, d)
    PROVE  /\ SoundTable(u)
           /\ u.size_index = ht.size_index
           /\ a \in DOMAIN ht.table
           /\ u.table = [ht.table EXCEPT ![a] = [key |-> k, data |-> d]]
           /\ Filled(u) = Filled(ht) \union {a}
           /\ \A b \in Filled(ht) : ht.table[b].key = k => b = a
           /\ a \in Filled(ht) => ht.table[a].key = k
           /\ u.entries + u.deleted_entries
                 <= ht.entries + ht.deleted_entries + 1
<1> DEFINE e == [key |-> k, data |-> d]
<1>0. WellKept(ht) /\ TableOK(ht) /\ e \in Entry /\ e # Deleted /\ e.key = k
    BY MarkersAreNoData DEF SoundTable, WellKept, Entry
<1>1. a \in hash_table_search(ht, k)
        \/ (hash_table_search(ht, k) = {} /\ a \in Available(ht, k))
    BY DEF hash_table_get_entry
<1>2. a \in DOMAIN ht.table
    BY <1>0, <1>1, SearchMeans, AvailableMeans DEF Filled
<1>3. /\ u.size_index = ht.size_index
      /\ u.table = [ht.table EXCEPT ![a] = e]
      /\ u.entries = IF Present(ht.table[a]) THEN ht.entries
                                             ELSE ht.entries + 1
      /\ u.deleted_entries = IF ht.table[a] = Deleted
                             THEN ht.deleted_entries - 1
                             ELSE ht.deleted_entries
      /\ u = [size_index |-> u.size_index, table |-> u.table,
              entries |-> u.entries, deleted_entries |-> u.deleted_entries]
    BY <1>0, <1>2 DEF Stored, TableOK
<1> HIDE DEF e
<1>4. TableOK(u)
    <2>1. u.entries \in Nat
        BY <1>0, <1>3 DEF TableOK
    <2>2. u.deleted_entries \in Nat
        <3>1. /\ ht.deleted_entries \in Nat
              /\ a \in Tombstones(ht) => ht.deleted_entries > 0
            BY CountFacts
        <3>2. a \in Tombstones(ht) <=> ht.table[a] = Deleted
            BY <1>2 DEF Tombstones
        <3> QED
            BY <3>1, <3>2, <1>3
    <2>3. u.table \in [0 .. Size(u.size_index) - 1
                         -> Entry \union {Free, Deleted}]
        BY <1>0, <1>2, <1>3 DEF TableOK
    <2> QED
        BY <2>1, <2>2, <2>3, <1>0, <1>3 DEF TableOK
<1>5. CASE a \in hash_table_search(ht, k)
    <2>1. a \in Filled(ht) /\ ht.table[a].key = k
        BY <1>5, SearchMeans
    <2>2. WellKept(u) /\ Filled(u) = Filled(ht)
            /\ Tombstones(u) = Tombstones(ht)
        BY <2>1, <1>0, <1>3, <1>4, ChangeSlot
    <2>3. u.entries = ht.entries /\ u.deleted_entries = ht.deleted_entries
        BY <2>1, <1>0, <1>3, EntryFacts DEF Filled
    <2>4. \A b \in Filled(ht) : ht.table[b].key = k => b = a
        BY <2>1, <1>0 DEF WellKept, KeysAreUnique
    <2>5. SoundTable(u)
        BY <2>2, <2>3, CountFacts DEF SoundTable, Counted, WellKept
    <2> QED
        BY <2>1, <2>2, <2>3, <2>4, <2>5, <1>2, <1>3, CountFacts DEF e
<1>6. CASE hash_table_search(ht, k) = {} /\ a \in Available(ht, k)
    <2>1. \A b \in Filled(ht) : ht.table[b].key # k
        BY <1>6, <1>0, SearchIff
    <2>2. /\ WellKept(u) /\ a \notin Filled(ht)
          /\ Filled(u) = Filled(ht) \union {a}
          /\ Tombstones(u) = Tombstones(ht) \ {a}
        BY <2>1, <1>0, <1>3, <1>4, <1>6, StoreInNewSlot DEF e
    <2>3. u.entries = ht.entries + 1
        BY <2>2, <1>2, <1>3 DEF Filled
    <2>4. u.entries = Cardinality(Filled(u))
        <3>1. /\ IsFiniteSet(Filled(ht))
              /\ ht.entries = Cardinality(Filled(ht)) /\ ht.entries \in Nat
            BY CountFacts
        <3>2. Cardinality(Filled(ht) \union {a}) = Cardinality(Filled(ht)) + 1
            BY <3>1, <2>2, FS_AddElement
        <3> QED
            BY <3>1, <3>2, <2>2, <2>3
    <2>5. u.deleted_entries = Cardinality(Tombstones(u))
        <3>1. /\ IsFiniteSet(Tombstones(ht))
              /\ ht.deleted_entries = Cardinality(Tombstones(ht))
            BY CountFacts
        <3>2. Cardinality(Tombstones(ht) \ {a})
                 = IF a \in Tombstones(ht) THEN Cardinality(Tombstones(ht)) - 1
                                           ELSE Cardinality(Tombstones(ht))
            BY <3>1, FS_RemoveElement
        <3>3. a \in Tombstones(ht) <=> ht.table[a] = Deleted
            BY <1>2 DEF Tombstones
        <3> QED
            BY <3>1, <3>2, <3>3, <2>2, <1>3
    <2>6. u.deleted_entries <= ht.deleted_entries
        BY <1>3, CountFacts
    <2>7. SoundTable(u)
        BY <2>2, <2>4, <2>5 DEF SoundTable, Counted, WellKept
    <2> QED
        BY <2>1, <2>2, <2>3, <2>6, <2>7, <1>2, <1>3, <1>4, CountFacts
        DEF e, TableOK
<1> QED
    BY <1>1, <1>5, <1>6

(* _mesa_hash_table_remove leaves a tombstone and keeps the others.        *)
LEMMA RemoveResult ==
    ASSUME SoundTable(ht), NEW a \in Filled(ht), _mesa_hash_table_remove(a)
    PROVE  /\ SoundTable(ht')
           /\ ht'.size_index = ht.size_index
           /\ ht'.table = [ht.table EXCEPT ![a] = Deleted]
           /\ Filled(ht') = Filled(ht) \ {a}
           /\ ht'.entries + ht'.deleted_entries
                 = ht.entries + ht.deleted_entries
<1>0. WellKept(ht) /\ TableOK(ht) /\ a \in DOMAIN ht.table
    BY DEF SoundTable, WellKept, Filled
<1>1. /\ ht'.size_index = ht.size_index
      /\ ht'.table = [ht.table EXCEPT ![a] = Deleted]
      /\ ht'.entries = ht.entries - 1
      /\ ht'.deleted_entries = ht.deleted_entries + 1
      /\ ht' = [size_index |-> ht'.size_index, table |-> ht'.table,
                entries |-> ht'.entries,
                deleted_entries |-> ht'.deleted_entries]
    BY <1>0 DEF _mesa_hash_table_remove, TableOK
<1>2. TableOK(ht')
    <2>1. ht'.entries \in Nat /\ ht'.deleted_entries \in Nat
        BY <1>1, CountFacts
    <2>2. ht'.table \in [0 .. Size(ht'.size_index) - 1
                           -> Entry \union {Free, Deleted}]
        BY <1>0, <1>1 DEF TableOK
    <2> QED
        BY <2>1, <2>2, <1>0, <1>1 DEF TableOK
<1>3. /\ WellKept(ht') /\ Filled(ht') = Filled(ht) \ {a}
      /\ Tombstones(ht') = Tombstones(ht) \union {a}
      /\ a \notin Tombstones(ht)
    BY <1>0, <1>1, <1>2, ChangeSlot
<1>4. /\ ht'.entries = Cardinality(Filled(ht'))
      /\ ht'.deleted_entries = Cardinality(Tombstones(ht'))
    <2>1. /\ IsFiniteSet(Filled(ht)) /\ IsFiniteSet(Tombstones(ht))
          /\ ht.entries = Cardinality(Filled(ht))
          /\ ht.deleted_entries = Cardinality(Tombstones(ht))
        BY CountFacts
    <2>2. Cardinality(Filled(ht) \ {a}) = Cardinality(Filled(ht)) - 1
        BY <2>1, FS_RemoveElement
    <2>3. Cardinality(Tombstones(ht) \union {a})
             = Cardinality(Tombstones(ht)) + 1
        BY <2>1, <1>3, FS_AddElement
    <2> QED
        BY <2>1, <2>2, <2>3, <1>1, <1>3
<1> QED
    BY <1>1, <1>3, <1>4, CountFacts DEF SoundTable, Counted, WellKept

LEMMA EntriesFit ==
    ASSUME NEW t, SoundTable(t)
    PROVE  t.entries <= Size(t.size_index) /\ t.entries \in Nat
<1>1. /\ TableOK(t) /\ IsFiniteSet(DOMAIN t.table)
      /\ Cardinality(DOMAIN t.table) = Size(t.size_index)
    BY SlotFacts DEF SoundTable
<1>2. Filled(t) \in SUBSET DOMAIN t.table
    BY DEF Filled
<1>3. Cardinality(Filled(t)) <= Cardinality(DOMAIN t.table)
    BY <1>1, <1>2, FS_Subset
<1> QED
    BY <1>1, <1>3, CountFacts

(* The conditions under which a table is rebuilt: to a larger size, or to  *)
(* the same size when tombstones and not entries fill it.                  *)
WorthRebuilding(i) == \/ i > ht.size_index
                      \/ i = ht.size_index /\ ht.entries < MaxEntries(i)

LEMMA RehashStep ==
    ASSUME IInv, pc \in {"idle", "resize"}, NEW i \in Nat,
           WorthRebuilding(i), _mesa_hash_table_rehash(i), UNCHANGED visits
    PROVE  IInv'
<1>0. /\ TypeOK /\ SoundTable(ht) /\ TableOK(ht) /\ visits = NoVisits
      /\ ht.size_index \in 1 .. Len(Sizes) /\ CallFits
      /\ ~ refused => ht.entries + ht.deleted_entries
                         <= MaxEntries(ht.size_index)
    BY DEF IInv, TypeOK, TableOK, SlackUnlessRefused
<1>1. CASE ClearInstead(i)
    <2>1. /\ ht' = EmptyTable(ht.size_index) /\ refused' = FALSE
          /\ UNCHANGED call /\ pc' = IF call = None THEN "idle" ELSE "store"
        BY <1>1 DEF ClearInstead, hash_table_clear_fast, Continue
    <2>2. /\ SoundTable(ht') /\ TableOK(ht')
          /\ ht'.size_index = ht.size_index
          /\ ht'.entries = 0 /\ ht'.deleted_entries = 0
        BY <2>1, <1>0, EmptyTableIsSound DEF SoundTable
    <2>3. MaxEntries(ht'.size_index) \in Nat \ {0}
        BY <2>2, <1>0, SizeFacts
    <2>4. SlackUnlessRefused'
        BY <2>1, <2>2, <2>3, <1>0 DEF SlackUnlessRefused
    <2>5. TypeOK' /\ CallFits' /\ visits' = NoVisits
        BY <2>1, <2>2, <1>0 DEF TypeOK, CallFits, NoVisits
    <2>6. pc' # "rehash" /\ pc' # "iterate"
        BY <2>1
    <2> QED
        BY <2>2, <2>4, <2>5, <2>6 DEF IInv
<1>2. CASE Refused(i)
    <2>1. /\ ht' = ht /\ refused' = TRUE /\ UNCHANGED call
          /\ pc' = IF call = None THEN "idle" ELSE "store"
        BY <1>2 DEF Refused, Continue
    <2> QED
        BY <2>1, <1>0
        DEF IInv, TypeOK, CallFits, SlackUnlessRefused, NoVisits
<1>3. CASE Granted(i)
    <2>1. /\ i <= Len(Sizes) /\ old' = ht /\ ht' = EmptyTable(i)
          /\ cursor' = NextEntry(ht, 0) /\ pc' = "rehash"
          /\ UNCHANGED <<call, refused>>
        BY <1>3 DEF Granted
    <2>2. i \in 1 .. Len(Sizes)
        BY <1>0, <2>1 DEF WorthRebuilding
    <2>3. /\ SoundTable(ht') /\ TableOK(ht') /\ Filled(ht') = {}
          /\ Tombstones(ht') = {} /\ ht'.size_index = i
          /\ ht'.deleted_entries = 0
        BY <2>1, <2>2, EmptyTableIsSound DEF SoundTable
    <2>4. 0 \in 0 .. Size(ht.size_index) /\ Size(ht.size_index) \in Nat
        BY <1>0, SizeFacts
    <2>5. /\ cursor' \in 0 .. Size(ht.size_index)
          /\ cursor' = Size(ht.size_index) \/ cursor' \in Filled(ht)
          /\ \A c \in 0 .. cursor' - 1 : c \notin Filled(ht)
        BY <1>0, <2>1, <2>4, NextEntryIs
    <2>6. Below(old', cursor') = {}
        BY <1>0, <2>1, <2>4, <2>5, EntryFacts DEF Below
    <2>7. old'.entries <= Size(ht'.size_index)
        <3>1. ht.entries <= Size(ht.size_index) /\ ht.entries \in Nat
            BY <1>0, EntriesFit
        <3>2. Size(ht.size_index) <= Size(i)
            BY <1>0, <2>2, LargerSizes, SizeFacts DEF WorthRebuilding
        <3> QED
            BY <3>1, <3>2, <2>1, <2>3, <2>4, <2>2, SizeFacts
    <2>8. Moving'
        BY <1>0, <2>1, <2>3, <2>5, <2>6, <2>7 DEF Moving, SoundTable
    <2>9. ~ refused' => old'.entries < MaxEntries(ht'.size_index)
        <3>1. /\ ht.entries \in Nat /\ ht.deleted_entries \in Nat
              /\ MaxEntries(ht.size_index) \in Nat /\ MaxEntries(i) \in Nat
            BY <1>0, <2>2, SizeFacts DEF TableOK
        <3>2. i > ht.size_index => MaxEntries(ht.size_index) < MaxEntries(i)
            BY <1>0, <2>2, LargerSizes
        <3> QED
            BY <3>1, <3>2, <1>0, <2>1, <2>3 DEF WorthRebuilding
    <2> QED
        BY <1>0, <2>1, <2>3, <2>8, <2>9
        DEF IInv, TypeOK, CallFits, SlackUnlessRefused, NoVisits
<1> QED
    BY <1>1, <1>2, <1>3 DEF _mesa_hash_table_rehash

LEMMA ResizeStep ==
    ASSUME IInv, Resize
    PROVE  IInv'
<1>0. /\ pc = "resize" /\ UNCHANGED visits /\ SoundTable(ht) /\ TypeOK
      /\ ht.size_index \in 1 .. Len(Sizes) /\ ht.size_index + 1 \in Nat
      /\ ht.size_index \in Nat /\ ht.size_index + 1 > ht.size_index
    BY DEF Resize, IInv, TypeOK, TableOK
<1>1. CASE _mesa_hash_table_rehash(ht.size_index + 1)
    BY <1>0, <1>1, RehashStep DEF WorthRebuilding
<1>2. CASE /\ ht.entries < MaxEntries(ht.size_index)
           /\ _mesa_hash_table_rehash(ht.size_index)
    BY <1>0, <1>2, RehashStep DEF WorthRebuilding
<1>3. CASE /\ ht.deleted_entries + ht.entries < MaxEntries(ht.size_index)
           /\ pc' = "store"
           /\ UNCHANGED <<ht, old, call, cursor, refused>>
    <2>1. ht.deleted_entries + ht.entries = ht.entries + ht.deleted_entries
        BY <1>0 DEF TypeOK, TableOK
    <2> QED
        BY <1>0, <1>3, <2>1
        DEF IInv, TypeOK, CallFits, SlackUnlessRefused, NoVisits
<1> QED
    BY <1>1, <1>2, <1>3 DEF Resize

LEMMA ReserveStep ==
    ASSUME IInv, NEW n, _mesa_hash_table_reserve(n)
    PROVE  IInv'
<1>0. /\ pc = "idle" /\ UNCHANGED visits
      /\ ht.size_index \in 1 .. Len(Sizes)
    BY DEF _mesa_hash_table_reserve, IInv, TypeOK, TableOK
<1>1. PICK i \in ht.size_index + 1 .. Len(Sizes) : _mesa_hash_table_rehash(i)
    BY DEF _mesa_hash_table_reserve
<1>2. i \in Nat /\ WorthRebuilding(i)
    BY <1>0, <1>1, SizesAreSizes DEF WorthRebuilding
<1> QED
    BY <1>0, <1>1, <1>2, RehashStep

(* The slot below the cursor is counted when the cursor passes it.         *)
LEMMA BelowNext ==
    ASSUME NEW t, TableOK(t), NEW a \in Filled(t)
    PROVE  /\ a + 1 \in 0 .. Size(t.size_index)
           /\ Below(t, NextEntry(t, a + 1)) = Below(t, a) \union {a}
           /\ a \notin Below(t, a)
           /\ IsFiniteSet(Below(t, a))
           /\ Cardinality(Below(t, NextEntry(t, a + 1)))
                 = Cardinality(Below(t, a)) + 1
<1>0. /\ a \in 0 .. Size(t.size_index) - 1 /\ Size(t.size_index) \in Nat
      /\ \A b \in Filled(t) : b \in 0 .. Size(t.size_index) - 1
    BY EntryFacts, SlotFacts, SizeFacts
<1>1. a + 1 \in 0 .. Size(t.size_index)
    BY <1>0
<1> DEFINE b == NextEntry(t, a + 1)
<1>2. /\ b \in a + 1 .. Size(t.size_index)
      /\ \A c \in a + 1 .. b - 1 : c \notin Filled(t)
    BY <1>1, NextEntryIs
<1> HIDE DEF b
<1>3. Below(t, b) = Below(t, a) \union {a}
    <2>1. \A c \in Filled(t) : c < b <=> c < a \/ c = a
        BY <1>0, <1>2
    <2> QED
        BY <2>1 DEF Below
<1>4. a \notin Below(t, a)
    BY <1>0 DEF Below
<1>5. IsFiniteSet(Below(t, a))
    <2>1. Below(t, a) \in SUBSET Filled(t)
        BY DEF Below
    <2> QED
        BY <2>1, SlotFacts, FS_Subset
<1>6. Cardinality(Below(t, b)) = Cardinality(Below(t, a)) + 1
    BY <1>3, <1>4, <1>5, FS_AddElement
<1> QED
    BY <1>1, <1>3, <1>4, <1>5, <1>6 DEF b

(* One round of the loop that moves the entries.                           *)
LEMMA MoveStep ==
    ASSUME IInv, RehashEntry
    PROVE  IInv'
<1> DEFINE e == old.table[cursor]
           k == old.table[cursor].key
           d == old.table[cursor].data
<1>0. /\ pc = "rehash" /\ cursor # Size(old.size_index) /\ Moving
      /\ TypeOK /\ TableOK(ht) /\ WellKept(ht) /\ SoundTable(old)
      /\ TableOK(old) /\ cursor \in Filled(old)
      /\ UNCHANGED <<old, pc, call, visits, refused>>
      /\ cursor' = NextEntry(old, cursor + 1)
    BY DEF RehashEntry, IInv, TypeOK, Moving, SoundTable, WellKept
<1>1. PICK b \in Available(ht, k) : ht' = [ht EXCEPT !.table[b] = e]
    BY DEF RehashEntry, hash_table_insert_rehash
<1>2. /\ e \in Entry /\ k \in Keys /\ d \in Values
      /\ e = [key |-> k, data |-> d] /\ e # Deleted
    BY <1>0, EntryFacts DEF Entry
<1>3. \A a \in Filled(ht) : ht.table[a].key # k
    <2> SUFFICES ASSUME NEW a \in Filled(ht), ht.table[a].key = k
                 PROVE  FALSE
        OBVIOUS
    <2>1. PICK c \in Below(old, cursor) : ht.table[a] = old.table[c]
        BY <1>0 DEF Moving
    <2>2. c \in Filled(old) /\ c < cursor
        BY DEF Below
    <2>3. c = cursor
        BY <2>1, <2>2, <1>0 DEF SoundTable, KeysAreUnique
    <2>4. cursor \in Nat
        BY <1>0, EntryFacts
    <2> QED
        BY <2>2, <2>3, <2>4
<1>4. b \in DOMAIN ht.table
    BY <1>0, <1>2, AvailableMeans
<1>5. /\ ht'.size_index = ht.size_index
      /\ ht'.table = [ht.table EXCEPT ![b] = e]
      /\ ht'.entries = ht.entries
      /\ ht'.deleted_entries = ht.deleted_entries
      /\ ht' = [size_index |-> ht'.size_index, table |-> ht'.table,
                entries |-> ht'.entries,
                deleted_entries |-> ht'.deleted_entries]
    BY <1>0, <1>1, <1>4 DEF TableOK
<1> HIDE DEF e, k, d
<1>6. TableOK(ht')
    BY <1>0, <1>2, <1>4, <1>5 DEF TableOK
<1>7. /\ WellKept(ht') /\ b \notin Filled(ht)
      /\ Filled(ht') = Filled(ht) \union {b}
      /\ Tombstones(ht') = Tombstones(ht) \ {b}
    BY <1>0, <1>1, <1>2, <1>3, <1>5, <1>6, StoreInNewSlot
<1>8. /\ ht'.table[b] = e
      /\ \A a \in Filled(ht) : ht'.table[a] = ht.table[a]
    BY <1>0, <1>4, <1>5, <1>7 DEF Filled
<1>9. /\ cursor' \in 0 .. Size(old.size_index)
      /\ cursor' = Size(old.size_index) \/ cursor' \in Filled(old)
    <2>1. cursor + 1 \in 0 .. Size(old.size_index)
        BY <1>0, BelowNext
    <2>2. cursor' \in cursor + 1 .. Size(old.size_index)
            /\ (cursor' = Size(old.size_index) \/ cursor' \in Filled(old))
        BY <2>1, <1>0, NextEntryIs
    <2> QED
        BY <2>1, <2>2, <1>0, SlotFacts, SizeFacts
<1>10. /\ Below(old, cursor') = Below(old, cursor) \union {cursor}
       /\ Cardinality(Below(old, cursor'))
             = Cardinality(Below(old, cursor)) + 1
    BY <1>0, BelowNext
<1>11. Cardinality(Filled(ht')) = Cardinality(Below(old, cursor'))
    <2>1. IsFiniteSet(Filled(ht))
        BY <1>0, SlotFacts
    <2>2. Cardinality(Filled(ht')) = Cardinality(Filled(ht)) + 1
        BY <2>1, <1>7, FS_AddElement
    <2> QED
        BY <2>2, <1>10, <1>0 DEF Moving
<1>12. \A c \in Filled(ht') : \E a \in Below(old, cursor') :
           ht'.table[c] = old.table[a]
    BY <1>0, <1>7, <1>8, <1>10 DEF Moving, e
<1>13. \A a \in Below(old, cursor') : \E c \in Filled(ht') :
           ht'.table[c] = old.table[a]
    BY <1>0, <1>7, <1>8, <1>10 DEF Moving, e
<1>14. Moving'
    <2>1. Tombstones(ht') = {} /\ ht'.deleted_entries = 0
            /\ old.entries <= Size(ht'.size_index)
        BY <1>0, <1>5, <1>7 DEF Moving
    <2> QED
        BY <2>1, <1>0, <1>7, <1>9, <1>11, <1>12, <1>13 DEF Moving, WellKept
<1> QED
    BY <1>0, <1>5, <1>6, <1>14
    DEF IInv, TypeOK, CallFits, SlackUnlessRefused, NoVisits

LEMMA MovedAll ==
    ASSUME IInv, RehashDone
    PROVE  /\ SoundTable(ht') /\ ht'.table = ht.table
           /\ ht'.size_index = ht.size_index /\ ht'.entries = old.entries
           /\ ht'.deleted_entries = 0 /\ Filled(ht') = Filled(ht)
           /\ \A b \in Filled(ht) : \E a \in Filled(old) :
                 ht.table[b] = old.table[a]
           /\ \A a \in Filled(old) : \E b \in Filled(ht) :
                 ht.table[b] = old.table[a]
<1>0. /\ cursor = Size(old.size_index) /\ Moving /\ TableOK(ht)
      /\ SoundTable(old) /\ TableOK(old)
      /\ ht' = [ht EXCEPT !.entries = old.entries]
    BY DEF RehashDone, IInv, TypeOK, Moving, SoundTable
<1>1. /\ ht'.size_index = ht.size_index /\ ht'.table = ht.table
      /\ ht'.entries = old.entries
      /\ ht'.deleted_entries = ht.deleted_entries
      /\ ht' = [size_index |-> ht'.size_index, table |-> ht'.table,
                entries |-> ht'.entries,
                deleted_entries |-> ht'.deleted_entries]
    BY <1>0 DEF TableOK
<1>2. TableOK(ht')
    BY <1>0, <1>1 DEF TableOK
<1>3. Filled(ht') = Filled(ht) /\ Tombstones(ht') = Tombstones(ht)
    BY <1>1 DEF Filled, Tombstones
<1>4. Below(old, cursor) = Filled(old)
    <2>1. \A a \in Filled(old) : a < cursor
        BY <1>0, EntryFacts, SlotFacts, SizeFacts
    <2> QED
        BY <2>1 DEF Below
<1>5. Counted(ht')
    <2>1. old.entries = Cardinality(Filled(old))
        BY <1>0, CountFacts
    <2>2. ht'.entries = Cardinality(Filled(ht'))
        BY <2>1, <1>0, <1>1, <1>3, <1>4 DEF Moving
    <2>3. Tombstones(ht') = {} /\ ht'.deleted_entries = 0
        BY <1>0, <1>1, <1>3 DEF Moving
    <2> QED
        BY <2>2, <2>3, FS_EmptySet DEF Counted
<1>6. EntriesAreReached(ht') /\ KeysAreUnique(ht')
    BY <1>0, <1>1, <1>3
    DEF Moving, EntriesAreReached, KeysAreUnique, LeadsTo
<1>7. /\ \A b \in Filled(ht) : \E a \in Filled(old) :
            ht.table[b] = old.table[a]
      /\ \A a \in Filled(old) : \E b \in Filled(ht) :
            ht.table[b] = old.table[a]
      /\ ht.deleted_entries = 0
    BY <1>0, <1>4 DEF Moving
<1> QED
    BY <1>1, <1>2, <1>3, <1>5, <1>6, <1>7 DEF SoundTable

LEMMA DoneStep ==
    ASSUME IInv, RehashDone
    PROVE  IInv'
<1>0. /\ pc = "rehash" /\ TypeOK /\ visits = NoVisits /\ CallFits
      /\ UNCHANGED <<call, visits, refused>>
      /\ pc' = IF call = None THEN "idle" ELSE "store"
      /\ ~ refused => old.entries < MaxEntries(ht.size_index)
      /\ MaxEntries(ht.size_index) \in Nat
    BY SizeFacts DEF RehashDone, Continue, IInv, SlackUnlessRefused, TypeOK,
                     TableOK
<1>1. /\ SoundTable(ht') /\ TableOK(ht') /\ ht'.size_index = ht.size_index
      /\ ht'.entries = old.entries /\ ht'.deleted_entries = 0
      /\ ht'.entries \in Nat
    BY MovedAll DEF SoundTable, TableOK
<1> QED
    BY <1>0, <1>1
    DEF IInv, TypeOK, CallFits, SlackUnlessRefused, NoVisits

LEMMA CallPair ==
    ASSUME IInv, call # None
    PROVE  call[1] \in Keys /\ call[2] \in Values /\ call = <<call[1], call[2]>>
    BY DEF IInv, TypeOK

LEMMA StoreStep ==
    ASSUME IInv, hash_table_insert
    PROVE  IInv'
<1>0. /\ pc = "store" /\ pc' = "idle" /\ call # None /\ call' = None
      /\ UNCHANGED <<old, cursor, visits, refused>>
      /\ TypeOK /\ SoundTable(ht) /\ visits = NoVisits
      /\ ~ refused => ht.entries + ht.deleted_entries
                         < MaxEntries(ht.size_index)
      /\ ht.size_index \in 1 .. Len(Sizes)
    BY DEF hash_table_insert, IInv, CallFits, SlackUnlessRefused, TypeOK,
           TableOK
<1>1. /\ SoundTable(ht') /\ TableOK(ht')
      /\ ht'.size_index = ht.size_index
      /\ ht'.entries + ht'.deleted_entries
            <= ht.entries + ht.deleted_entries + 1
    <2>1. CASE UNCHANGED ht
        <3>1. ht.entries + ht.deleted_entries
                 <= ht.entries + ht.deleted_entries + 1
            BY <1>0, CountFacts
        <3>2. SoundTable(ht) /\ TableOK(ht)
            BY <1>0 DEF SoundTable
        <3> QED
            BY <2>1, <3>1, <3>2
    <2>2. ASSUME NEW a \in hash_table_get_entry(ht, call[1]),
                 ht' = Stored(a, call[1], call[2])
          PROVE  /\ SoundTable(ht') /\ ht'.size_index = ht.size_index
                 /\ ht'.entries + ht'.deleted_entries
                       <= ht.entries + ht.deleted_entries + 1
        <3> DEFINE k == call[1]
                   d == call[2]
        <3>1. /\ k \in Keys /\ d \in Values
              /\ a \in hash_table_get_entry(ht, k) /\ ht' = Stored(a, k, d)
            BY <2>2, <1>0, CallPair
        <3> HIDE DEF k, d
        <3>2. SoundTable(ht')
            BY <3>1, <1>0, StoreResult
        <3>3. ht'.size_index = ht.size_index
            <4>1. TableOK(ht)
                BY <1>0 DEF TypeOK
            <4> QED
                BY <3>1, <4>1 DEF Stored, TableOK
        <3>4. ht'.entries + ht'.deleted_entries
                 <= ht.entries + ht.deleted_entries + 1
            BY <3>1, <1>0, StoreResult
        <3> QED
            BY <3>2, <3>3, <3>4
    <2> QED
        BY <2>1, <2>2 DEF hash_table_insert, SoundTable
<1>2. /\ ht.entries \in Nat /\ ht.deleted_entries \in Nat
      /\ ht'.entries \in Nat /\ ht'.deleted_entries \in Nat
      /\ MaxEntries(ht.size_index) \in Nat
    BY <1>0, <1>1, SizeFacts DEF TypeOK, TableOK
<1>3. SlackUnlessRefused'
    BY <1>0, <1>1, <1>2 DEF SlackUnlessRefused
<1> QED
    BY <1>0, <1>1, <1>3 DEF IInv, TypeOK, CallFits, NoVisits

LEMMA RemoveStep ==
    ASSUME IInv, NEW k \in Keys, _mesa_hash_table_remove_key(k)
    PROVE  IInv'
<1>0. /\ pc \in {"idle", "iterate"} /\ SoundTable(ht) /\ TypeOK
      /\ UNCHANGED <<old, pc, call, cursor, visits, refused>>
    BY DEF _mesa_hash_table_remove_key, IInv
<1>1. PICK a \in hash_table_search(ht, k) : _mesa_hash_table_remove(a)
    BY DEF _mesa_hash_table_remove_key
<1>2. a \in Filled(ht)
    BY SearchMeans
<1>3. /\ SoundTable(ht') /\ TableOK(ht') /\ ht'.size_index = ht.size_index
      /\ Filled(ht') = Filled(ht) \ {a}
      /\ ht'.table = [ht.table EXCEPT ![a] = Deleted]
      /\ ht'.entries + ht'.deleted_entries = ht.entries + ht.deleted_entries
    BY <1>0, <1>1, <1>2, RemoveResult DEF SoundTable
<1>4. \A b \in Filled(ht') : ht'.table[b] = ht.table[b]
    BY <1>2, <1>3, <1>0 DEF Filled, TypeOK, TableOK
<1>5. pc = "iterate" => Iterating'
    BY <1>0, <1>3, <1>4 DEF IInv, Iterating
<1>6. SlackUnlessRefused'
    BY <1>0, <1>3 DEF IInv, SlackUnlessRefused
<1> QED
    BY <1>0, <1>3, <1>5, <1>6 DEF IInv, TypeOK, CallFits, NoVisits

LEMMA ClearStep ==
    ASSUME IInv, _mesa_hash_table_clear
    PROVE  IInv'
<1>0. /\ pc = "idle" /\ TypeOK /\ visits = NoVisits /\ CallFits
      /\ UNCHANGED <<old, pc, call, cursor, visits>>
      /\ ht.size_index \in 1 .. Len(Sizes)
      /\ ht' = EmptyTable(ht.size_index) /\ refused' = FALSE
    BY DEF _mesa_hash_table_clear, hash_table_clear_fast, IInv, TypeOK,
           TableOK
<1>1. /\ SoundTable(ht') /\ TableOK(ht')
      /\ ht'.size_index = ht.size_index
      /\ ht'.entries = 0 /\ ht'.deleted_entries = 0
    BY <1>0, EmptyTableIsSound DEF SoundTable
<1>2. MaxEntries(ht'.size_index) \in Nat \ {0}
    BY <1>0, <1>1, SizeFacts
<1>3. SlackUnlessRefused'
    BY <1>0, <1>1, <1>2 DEF SlackUnlessRefused
<1>4. TypeOK' /\ CallFits' /\ visits' = NoVisits
    BY <1>0, <1>1 DEF TypeOK, CallFits, NoVisits
<1> QED
    BY <1>0, <1>1, <1>3, <1>4 DEF IInv

LEMMA CallStep ==
    ASSUME IInv, NEW k \in Keys, NEW d \in Values,
           _mesa_hash_table_insert(k, d)
    PROVE  IInv'
<1>1. <<k, d>> \in Keys \X Values /\ <<k, d>> # None
    BY MarkersAreNoData
<1>2. /\ pc = "idle" /\ pc' = "resize" /\ call' = <<k, d>>
      /\ UNCHANGED <<ht, old, cursor, visits, refused>>
    BY DEF _mesa_hash_table_insert
<1>3. SlackUnlessRefused'
    BY <1>2 DEF IInv, SlackUnlessRefused
<1> QED
    BY <1>1, <1>2, <1>3 DEF IInv, TypeOK, CallFits, NoVisits

(* A step of an iteration to the next entry at or after slot c.            *)
LEMMA MeetStep ==
    ASSUME IInv, NEW c \in 0 .. Size(ht.size_index),
           \A k \in Keys : visits[k] <= 1,
           \A a \in Filled(ht) :
              visits[ht.table[a].key] = IF a < c THEN 1 ELSE 0,
           pc # "rehash", pc' = "iterate", MeetEntry(NextEntry(ht, c)),
           UNCHANGED <<ht, old, call, refused>>, call = None,
           SlackUnlessRefused'
    PROVE  IInv'
<1> DEFINE n == NextEntry(ht, c)
           N == Size(ht.size_index)
<1>0. /\ SoundTable(ht) /\ TableOK(ht) /\ TypeOK /\ N \in Nat
      /\ visits \in [Keys -> Nat]
    BY SlotFacts, SizeFacts DEF IInv, SoundTable, TypeOK
<1>1. /\ n \in c .. N
      /\ n = N \/ n \in Filled(ht)
      /\ \A b \in c .. n - 1 : b \notin Filled(ht)
    BY <1>0, NextEntryIs
<1>2. /\ cursor' = n
      /\ visits' = IF n = N THEN visits
                   ELSE [visits EXCEPT ![ht.table[n].key] = @ + 1]
    BY DEF MeetEntry
<1>3. \A a \in Filled(ht) : a \in 0 .. N - 1 /\ ht.table[a].key \in Keys
    BY <1>0, EntryFacts
<1> HIDE DEF n, N
<1>4. CASE n = N
    <2>1. \A a \in Filled(ht) : a < c /\ a <= n
        BY <1>0, <1>1, <1>3, <1>4 DEF N
    <2>2. Iterating'
        BY <2>1, <1>0, <1>1, <1>2, <1>4 DEF Iterating, N
    <2> QED
        BY <2>2, <1>0, <1>2, <1>4 DEF IInv, TypeOK, CallFits
<1>5. CASE n # N
    <2> DEFINE k == ht.table[n].key
    <2>1. /\ n \in Filled(ht) /\ k \in Keys /\ visits[k] = 0
          /\ n \in 0 .. N - 1
        <3>1. n \in Filled(ht)
            BY <1>1, <1>5
        <3>2. k \in Keys /\ n \in 0 .. N - 1
            BY <3>1, <1>3
        <3>3. ~ (n < c)
            <4>1. c \in Int /\ n \in Int /\ c <= n
                BY <1>0, <1>1 DEF N
            <4> QED
                BY <4>1
        <3>4. visits[ht.table[n].key] = IF n < c THEN 1 ELSE 0
            BY <3>1
        <3> QED
            BY <3>1, <3>2, <3>3, <3>4
    <2>2. /\ visits' = [visits EXCEPT ![k] = @ + 1]
          /\ visits' \in [Keys -> Nat] /\ visits'[k] = 1
          /\ \A l \in Keys : l # k => visits'[l] = visits[l]
        <3>1. visits' = [visits EXCEPT ![k] = @ + 1]
            BY <1>2, <1>5
        <3> HIDE DEF k
        <3> QED
            BY <3>1, <2>1, <1>0
    <2>3. \A a \in Filled(ht) :
             visits'[ht.table[a].key] = IF a <= n THEN 1 ELSE 0
        <3> SUFFICES ASSUME NEW a \in Filled(ht)
                     PROVE  visits'[ht.table[a].key]
                               = IF a <= n THEN 1 ELSE 0
            OBVIOUS
        <3>1. CASE a = n
            BY <3>1, <2>1, <2>2
        <3>2. CASE a # n
            <4>1. ht.table[a].key # k
                BY <3>2, <2>1, <1>0 DEF SoundTable, KeysAreUnique
            <4>2. a <= n <=> a < c
                BY <3>2, <2>1, <1>0, <1>1, <1>3 DEF N
            <4> HIDE DEF k
            <4> QED
                BY <4>1, <4>2, <2>2, <1>3
        <3> QED
            BY <3>1, <3>2
    <2>4. \A l \in Keys : visits'[l] <= 1
        BY <2>2
    <2>5. Iterating'
        BY <2>1, <2>3, <2>4, <1>0, <1>2 DEF Iterating, N
    <2> QED
        BY <2>2, <2>5, <1>0 DEF IInv, TypeOK, CallFits
<1> QED
    BY <1>4, <1>5

LEMMA ForeachStep ==
    ASSUME IInv, ForeachBegin \/ ForeachNext \/ ForeachEnd
    PROVE  IInv'
<1>0. /\ TypeOK /\ TableOK(ht) /\ Size(ht.size_index) \in Nat
      /\ pc \in {"idle", "iterate"} /\ SoundTable(ht) /\ call = None
      /\ UNCHANGED <<ht, old, call, refused>> /\ pc' \in {"idle", "iterate"}
    BY SizeFacts, SlotFacts
    DEF IInv, TypeOK, CallFits, ForeachBegin, ForeachNext, ForeachEnd
<1>1. SlackUnlessRefused'
    BY <1>0 DEF IInv, SlackUnlessRefused
<1>2. \A a \in Filled(ht) : /\ a \in 0 .. Size(ht.size_index) - 1
                            /\ ht.table[a].key \in Keys
    BY <1>0, EntryFacts
<1>3. CASE ForeachBegin
    <2>1. visits = NoVisits
        BY <1>3 DEF IInv, ForeachBegin
    <2>2. /\ \A k \in Keys : visits[k] <= 1
          /\ \A a \in Filled(ht) :
                visits[ht.table[a].key] = IF a < 0 THEN 1 ELSE 0
          /\ 0 \in 0 .. Size(ht.size_index)
        BY <2>1, <1>0, <1>2 DEF NoVisits
    <2>3. /\ pc # "rehash" /\ pc' = "iterate"
          /\ MeetEntry(NextEntry(ht, 0))
        BY <1>3 DEF ForeachBegin
    <2> QED
        BY <2>2, <2>3, <1>0, <1>1, MeetStep
<1>4. CASE ForeachNext
    <2>1. /\ Iterating /\ pc = "iterate" /\ pc' = "iterate"
          /\ cursor # Size(ht.size_index)
          /\ MeetEntry(NextEntry(ht, cursor + 1))
        BY <1>4 DEF IInv, ForeachNext
    <2>2. cursor + 1 \in 0 .. Size(ht.size_index) /\ cursor \in Nat
        BY <2>1, <1>0 DEF Iterating
    <2>3. /\ \A k \in Keys : visits[k] <= 1
          /\ \A a \in Filled(ht) :
                visits[ht.table[a].key] = IF a < cursor + 1 THEN 1 ELSE 0
        <3>1. \A a \in Filled(ht) : a <= cursor <=> a < cursor + 1
            BY <2>2, <1>0, <1>2
        <3> QED
            BY <3>1, <2>1 DEF Iterating
    <2> DEFINE c == cursor + 1
    <2>4. /\ c \in 0 .. Size(ht.size_index)
          /\ \A a \in Filled(ht) :
                visits[ht.table[a].key] = IF a < c THEN 1 ELSE 0
          /\ MeetEntry(NextEntry(ht, c))
        BY <2>1, <2>2, <2>3
    <2> HIDE DEF c
    <2> QED
        BY <2>1, <2>3, <2>4, <1>0, <1>1, MeetStep
<1>5. CASE ForeachEnd
    <2>1. pc' = "idle" /\ visits' = NoVisits
        BY <1>5 DEF ForeachEnd
    <2> QED
        BY <2>1, <1>0, <1>1 DEF IInv, TypeOK, CallFits, NoVisits
<1> QED
    BY <1>3, <1>4, <1>5
-----------------------------------------------------------------------------
(* Every step of the table preserves the inductive invariant.              *)
LEMMA InductiveStep == IInv /\ [Next]_vars => IInv'
<1> SUFFICES ASSUME IInv, [Next]_vars PROVE IInv'
    OBVIOUS
<1>1. CASE UNCHANGED vars
    <2>1. UNCHANGED <<ht, old, pc, call, cursor, visits, refused>>
        BY <1>1 DEF vars
    <2>2. TypeOK' /\ (Moving => Moving') /\ (Iterating => Iterating')
        BY <2>1 DEF IInv, TypeOK, Moving, Iterating
    <2> QED
        BY <2>1, <2>2 DEF IInv, CallFits, SlackUnlessRefused, NoVisits
<1>2. CASE Next
    BY <1>2, CallStep, ResizeStep, MoveStep, DoneStep, StoreStep, RemoveStep,
       ClearStep, ReserveStep, ForeachStep
    DEF Next
<1> QED
    BY <1>1, <1>2

(* The inductive invariant holds in every reachable state.                 *)
THEOREM Invariance == Spec => []IInv
<1>1. _mesa_hash_table_init => IInv
    <2> SUFFICES ASSUME _mesa_hash_table_init PROVE IInv
        OBVIOUS
    <2>0. 1 \in 1 .. Len(Sizes)
        BY SizesAreSizes
    <2>1. /\ SoundTable(ht) /\ TableOK(ht) /\ ht.size_index = 1
          /\ ht.entries = 0 /\ ht.deleted_entries = 0
        BY <2>0, EmptyTableIsSound DEF _mesa_hash_table_init, SoundTable
    <2>2. MaxEntries(ht.size_index) \in Nat
        BY <2>0, <2>1, SizeFacts
    <2>3. TypeOK /\ visits = NoVisits /\ CallFits /\ pc = "idle"
        BY <2>1 DEF _mesa_hash_table_init, TypeOK, NoVisits, CallFits
    <2>4. SlackUnlessRefused
        BY <2>1, <2>2, <2>3 DEF SlackUnlessRefused
    <2> QED
        BY <2>1, <2>3, <2>4 DEF IInv
<1> QED
    BY <1>1, InductiveStep, PTL DEF Spec

(* hash_table.c: between calls the counters agree with the slots, no key   *)
(* is in two slots, and a search finds every entry: from every sequence of *)
(* inserts, removals, clears, reserves, moves and refused resizes, for     *)
(* every hash function and all sizes.                                      *)
THEOREM Soundness == Spec => []TableIsSound
<1>1. IInv => TableIsSound
    <2> SUFFICES ASSUME IInv, pc # "rehash"
                 PROVE  /\ ht.entries = Cardinality(SlotsWith(Present))
                        /\ ht.deleted_entries
                              = Cardinality({a \in DOMAIN ht.table :
                                               ht.table[a] = Deleted})
                        /\ \A a \in SlotsWith(Present) :
                              hash_table_search(ht, ht.table[a].key) = {a}
        BY DEF TableIsSound
    <2>1. SoundTable(ht) /\ WellKept(ht)
        BY DEF IInv, SoundTable, WellKept
    <2>2. SlotsWith(Present) = Filled(ht)
        BY DEF SlotsWith, Filled
    <2>3. {a \in DOMAIN ht.table : ht.table[a] = Deleted} = Tombstones(ht)
        BY DEF Tombstones
    <2> QED
        BY <2>1, <2>2, <2>3, CountFacts, SearchFinds
<1> QED
    BY <1>1, Invariance, PTL

(* hash_table.h: an iteration whose body deletes entries meets no key      *)
(* twice, and every entry that is still there when it ends was met.        *)
THEOREM ExactIteration == Spec => []IterationIsExact
<1>1. IInv => IterationIsExact
    <2> SUFFICES ASSUME IInv, pc = "iterate"
                 PROVE  /\ \A k \in Keys : visits[k] <= 1
                        /\ cursor = Size(ht.size_index) =>
                              \A a \in SlotsWith(Present) :
                                 visits[ht.table[a].key] = 1
        BY DEF IterationIsExact
    <2>1. Iterating /\ TableOK(ht)
        BY DEF IInv, TypeOK
    <2>2. SlotsWith(Present) = Filled(ht)
        BY DEF SlotsWith, Filled
    <2>3. \A a \in Filled(ht) : a \in 0 .. Size(ht.size_index) - 1
        BY <2>1, EntryFacts
    <2>4. Size(ht.size_index) \in Nat
        BY <2>1, SlotFacts, SizeFacts
    <2>5. cursor = Size(ht.size_index) => \A a \in Filled(ht) : a <= cursor
        BY <2>3, <2>4
    <2> QED
        BY <2>1, <2>2, <2>5 DEF Iterating
<1> QED
    BY <1>1, Invariance, PTL

(* hash_table.c: hash_table_insert_rehash, which has no other way out of   *)
(* its loop, always finds a slot in the new table.                         *)
THEOREM MovesEnd == Spec => []MovesFindASlot
<1>1. IInv => MovesFindASlot
    <2> SUFFICES ASSUME IInv, pc = "rehash", cursor # Size(old.size_index)
                 PROVE  Available(ht, old.table[cursor].key) # {}
        BY DEF MovesFindASlot, hash_table_insert_rehash
    <2>0. /\ Moving /\ TableOK(ht) /\ SoundTable(old) /\ TableOK(old)
          /\ cursor \in Filled(old) /\ old.table[cursor].key \in Keys
        BY EntryFacts DEF IInv, TypeOK, Moving, SoundTable
    <2>1. Below(old, cursor) \in SUBSET Filled(old)
            /\ Below(old, cursor) # Filled(old)
        BY <2>0, BelowNext DEF Below
    <2>2. IsFiniteSet(Filled(old)) /\ Cardinality(Filled(old)) \in Nat
            /\ Cardinality(Filled(old)) <= Size(ht.size_index)
        BY <2>0, CountFacts DEF Moving
    <2>3. /\ IsFiniteSet(Below(old, cursor))
          /\ Cardinality(Below(old, cursor)) <= Cardinality(Filled(old))
          /\ Cardinality(Below(old, cursor)) # Cardinality(Filled(old))
        BY <2>1, <2>2, FS_Subset
    <2>4. Cardinality(Below(old, cursor)) \in Nat
        BY <2>3, FS_CardinalityType
    <2>5. Size(ht.size_index) \in Nat
        BY <2>0, SlotFacts, SizeFacts
    <2>6. Cardinality(Filled(ht)) < Size(ht.size_index)
        BY <2>0, <2>2, <2>3, <2>4, <2>5 DEF Moving
    <2> QED
        BY <2>0, <2>6, AvailableExists
<1> QED
    BY <1>1, Invariance, PTL
-----------------------------------------------------------------------------
(* The table implements the map.                                           *)

MapOf(t) == [k \in {k \in Keys : hash_table_search(t, k) # {}} |->
                LET a == CHOOSE a \in hash_table_search(t, k) : TRUE
                IN  t.table[a].data]

(* What Contents is, before and after a step.                              *)
LEMMA ContentsIs == Contents = MapOf(Whole) /\ Contents' = MapOf(Whole')
    BY DEF Contents, MapOf

(* The map of a sound table: the keys of its entries with their data.      *)
LEMMA MapOfIs ==
    ASSUME NEW t, WellKept(t)
    PROVE  /\ MapOf(t) = [k \in DOMAIN MapOf(t) |-> MapOf(t)[k]]
           /\ \A k : k \in DOMAIN MapOf(t)
                       <=> \E a \in Filled(t) : t.table[a].key = k
           /\ \A a \in Filled(t) : MapOf(t)[t.table[a].key] = t.table[a].data
<1>1. DOMAIN MapOf(t) = {k \in Keys : hash_table_search(t, k) # {}}
    BY DEF MapOf
<1>2. \A a \in Filled(t) : t.table[a].key \in Keys
    BY EntryFacts DEF WellKept
<1>3. \A k : k \in DOMAIN MapOf(t)
               <=> \E a \in Filled(t) : t.table[a].key = k
    BY <1>1, <1>2, SearchIff
<1>4. ASSUME NEW a \in Filled(t)
      PROVE  MapOf(t)[t.table[a].key] = t.table[a].data
    <2> DEFINE k == t.table[a].key
    <2>1. hash_table_search(t, k) = {a} /\ k \in Keys
        BY SearchFinds, <1>2
    <2>2. (CHOOSE c \in hash_table_search(t, k) : TRUE) = a
        BY <2>1
    <2> HIDE DEF k
    <2> QED
        BY <2>1, <2>2 DEF MapOf, k
<1>5. MapOf(t) = [k \in DOMAIN MapOf(t) |-> MapOf(t)[k]]
    BY DEF MapOf
<1> QED
    BY <1>3, <1>4, <1>5

(* Two tables with the same entries are the same map.                      *)
LEMMA SameEntriesSameMap ==
    ASSUME NEW t, WellKept(t), NEW u, WellKept(u),
           \A b \in Filled(u) : \E a \in Filled(t) : u.table[b] = t.table[a],
           \A a \in Filled(t) : \E b \in Filled(u) : u.table[b] = t.table[a]
    PROVE  MapOf(u) = MapOf(t)
<1>1. DOMAIN MapOf(u) = DOMAIN MapOf(t)
    BY MapOfIs
<1>2. ASSUME NEW k \in DOMAIN MapOf(t) PROVE MapOf(u)[k] = MapOf(t)[k]
    <2>1. PICK a \in Filled(t) : t.table[a].key = k
        BY MapOfIs
    <2>2. PICK b \in Filled(u) : u.table[b] = t.table[a]
        OBVIOUS
    <2> QED
        BY <2>1, <2>2, MapOfIs
<1> QED
    BY <1>1, <1>2, MapOfIs

LEMMA EmptyMap ==
    ASSUME NEW i \in 1 .. Len(Sizes)
    PROVE  MapOf(EmptyTable(i)) = <<>>
<1>1. WellKept(EmptyTable(i)) /\ Filled(EmptyTable(i)) = {}
    BY EmptyTableIsSound DEF SoundTable, WellKept
<1>2. DOMAIN MapOf(EmptyTable(i)) = {}
    BY <1>1, MapOfIs
<1>3. MapOf(EmptyTable(i)) = [k \in {} |-> MapOf(EmptyTable(i))[k]]
    BY <1>1, <1>2, MapOfIs
<1> QED
    BY <1>3

LEMMA SoundIsWellKept ==
    ASSUME NEW t, SoundTable(t)
    PROVE  WellKept(t)
    BY DEF SoundTable, WellKept

(* The map m with d at k.                                                  *)
With(m, k, d) == [x \in DOMAIN m \union {k} |-> IF x = k THEN d ELSE m[x]]

LEMMA StoreIsPut ==
    ASSUME SoundTable(ht), NEW k \in Keys, NEW d \in Values,
           NEW a \in hash_table_get_entry(ht, k), NEW u, u = Stored(a, k, d)
    PROVE  MapOf(u) = With(MapOf(ht), k, d)
<1>1. /\ WellKept(u) /\ WellKept(ht) /\ TableOK(ht) /\ a \in DOMAIN ht.table
      /\ u.table = [ht.table EXCEPT ![a] = [key |-> k, data |-> d]]
      /\ Filled(u) = Filled(ht) \union {a}
      /\ \A b \in Filled(ht) : ht.table[b].key = k => b = a
      /\ a \in Filled(ht) => ht.table[a].key = k
    BY StoreResult, SoundIsWellKept DEF SoundTable
<1>2. /\ u.table[a].key = k /\ u.table[a].data = d
      /\ \A b \in Filled(ht) : b # a => u.table[b] = ht.table[b]
    BY <1>1 DEF Filled
<1>a. /\ \A x : x \in DOMAIN MapOf(u)
                  <=> \E b \in Filled(u) : u.table[b].key = x
      /\ \A b \in Filled(u) : MapOf(u)[u.table[b].key] = u.table[b].data
    <2>1. WellKept(u)
        BY <1>1
    <2> QED
        BY <2>1, MapOfIs
<1>b. /\ \A x : x \in DOMAIN MapOf(ht)
                  <=> \E b \in Filled(ht) : ht.table[b].key = x
      /\ \A b \in Filled(ht) : MapOf(ht)[ht.table[b].key] = ht.table[b].data
    BY <1>1, MapOfIs
<1>3. DOMAIN MapOf(u) = DOMAIN MapOf(ht) \union {k}
    <2>1. ASSUME NEW x \in DOMAIN MapOf(u)
          PROVE  x \in DOMAIN MapOf(ht) \union {k}
        <3>1. PICK b \in Filled(u) : u.table[b].key = x
            BY <1>a
        <3>2. CASE b = a
            BY <3>1, <3>2, <1>2
        <3>3. CASE b # a
            BY <3>1, <3>3, <1>1, <1>2, <1>b
        <3> QED
            BY <3>2, <3>3
    <2>2. k \in DOMAIN MapOf(u)
        BY <1>1, <1>2, <1>a
    <2>3. ASSUME NEW x \in DOMAIN MapOf(ht) PROVE x \in DOMAIN MapOf(u)
        <3>1. PICK b \in Filled(ht) : ht.table[b].key = x
            BY <1>b
        <3>2. u.table[b].key = x /\ b \in Filled(u)
            BY <3>1, <1>1, <1>2
        <3> QED
            BY <3>2, <1>a
    <2> QED
        BY <2>1, <2>2, <2>3
<1>4. MapOf(u)[k] = d
    BY <1>1, <1>2, <1>a
<1>5. ASSUME NEW x \in DOMAIN MapOf(ht), x # k
      PROVE  MapOf(u)[x] = MapOf(ht)[x]
    <2>1. PICK b \in Filled(ht) : ht.table[b].key = x
        BY <1>b
    <2>2. b # a /\ u.table[b] = ht.table[b] /\ b \in Filled(u)
        BY <2>1, <1>1, <1>2, <1>5
    <2>3. MapOf(ht)[x] = ht.table[b].data
        BY <2>1, <1>b
    <2>4. MapOf(u)[x] = u.table[b].data
        BY <2>1, <2>2, <1>a
    <2> QED
        BY <2>2, <2>3, <2>4
<1>6. MapOf(u) = [x \in DOMAIN MapOf(u) |-> MapOf(u)[x]]
    BY <1>1, MapOfIs
<1> QED
    BY <1>3, <1>4, <1>5, <1>6 DEF With

LEMMA RemoveIsDrop ==
    ASSUME SoundTable(ht), NEW k, NEW a \in hash_table_search(ht, k),
           _mesa_hash_table_remove(a)
    PROVE  MapOf(ht') = Restrict(MapOf(ht), DOMAIN MapOf(ht) \ {k})
<1>0. a \in Filled(ht) /\ ht.table[a].key = k
    BY SearchMeans
<1>1. /\ WellKept(ht') /\ WellKept(ht) /\ TableOK(ht)
      /\ ht'.table = [ht.table EXCEPT ![a] = Deleted]
      /\ Filled(ht') = Filled(ht) \ {a}
    BY <1>0, RemoveResult, SoundIsWellKept DEF SoundTable
<1>2. \A b \in Filled(ht') : ht'.table[b] = ht.table[b]
    BY <1>0, <1>1 DEF Filled
<1>3. \A b \in Filled(ht) : b \in Filled(ht') <=> ht.table[b].key # k
    BY <1>0, <1>1 DEF WellKept, KeysAreUnique
<1>a. /\ \A x : x \in DOMAIN MapOf(ht')
                  <=> \E b \in Filled(ht') : ht'.table[b].key = x
      /\ \A b \in Filled(ht') : MapOf(ht')[ht'.table[b].key]
                                 = ht'.table[b].data
    BY <1>1, MapOfIs
<1>b. /\ \A x : x \in DOMAIN MapOf(ht)
                  <=> \E b \in Filled(ht) : ht.table[b].key = x
      /\ \A b \in Filled(ht) : MapOf(ht)[ht.table[b].key] = ht.table[b].data
    BY <1>1, MapOfIs
<1>4. DOMAIN MapOf(ht') = DOMAIN MapOf(ht) \ {k}
    <2>1. ASSUME NEW x \in DOMAIN MapOf(ht')
          PROVE  x \in DOMAIN MapOf(ht) \ {k}
        <3>1. PICK b \in Filled(ht') : ht'.table[b].key = x
            BY <1>a
        <3>2. b \in Filled(ht) /\ ht.table[b].key = x /\ x # k
            BY <3>1, <1>1, <1>2, <1>3
        <3> QED
            BY <3>2, <1>b
    <2>2. ASSUME NEW x \in DOMAIN MapOf(ht) \ {k}
          PROVE  x \in DOMAIN MapOf(ht')
        <3>1. PICK b \in Filled(ht) : ht.table[b].key = x
            BY <1>b
        <3>2. b \in Filled(ht') /\ ht'.table[b].key = x
            BY <3>1, <1>2, <1>3
        <3> QED
            BY <3>2, <1>a
    <2> QED
        BY <2>1, <2>2
<1>5. ASSUME NEW x \in DOMAIN MapOf(ht')
      PROVE  MapOf(ht')[x] = MapOf(ht)[x]
    <2>1. PICK b \in Filled(ht') : ht'.table[b].key = x
        BY <1>a
    <2>2. b \in Filled(ht) /\ ht'.table[b] = ht.table[b]
        BY <2>1, <1>1, <1>2
    <2>3. MapOf(ht')[x] = ht'.table[b].data
        BY <2>1, <1>a
    <2>4. MapOf(ht)[x] = ht.table[b].data
        BY <2>1, <2>2, <1>b
    <2> QED
        BY <2>2, <2>3, <2>4
<1>6. MapOf(ht') = [x \in DOMAIN MapOf(ht') |-> MapOf(ht')[x]]
    BY <1>1, MapOfIs
<1> QED
    BY <1>4, <1>5, <1>6 DEF Restrict

(* A rehash that is cleared, refused or granted.                           *)
LEMMA RehashRefines ==
    ASSUME IInv, pc \in {"idle", "resize"}, NEW i \in Nat,
           WorthRebuilding(i), _mesa_hash_table_rehash(i),
           pc = "idle" => i # ht.size_index
    PROVE  [Map!Next]_<<Contents, call, refused>>
<1>0. /\ SoundTable(ht) /\ WellKept(ht) /\ TableOK(ht) /\ TypeOK
      /\ ht.size_index \in 1 .. Len(Sizes)
      /\ ~ refused => ht.entries + ht.deleted_entries
                         <= MaxEntries(ht.size_index)
      /\ pc = "resize" => call # None
    BY SoundIsWellKept
    DEF IInv, SoundTable, SlackUnlessRefused, TableOK, CallFits
<1>1. Contents = MapOf(ht)
    BY ContentsIs DEF Whole
<1>2. CASE ClearInstead(i)
    <2>1. /\ i = ht.size_index /\ ht.deleted_entries = MaxEntries(i)
          /\ ht' = EmptyTable(ht.size_index) /\ refused' = FALSE
          /\ UNCHANGED call /\ pc' # "rehash"
        BY <1>2
        DEF ClearInstead, OnlyTombstones, hash_table_clear_fast, Continue
    <2>2. Contents' = <<>>
        <3>1. Contents' = MapOf(ht')
            BY <2>1, ContentsIs DEF Whole
        <3> QED
            BY <3>1, <2>1, <1>0, EmptyMap
    <2>3. CASE refused
        BY <2>1, <2>2, <2>3, <1>0 DEF Map!Next, Map!Lose
    <2>4. CASE ~ refused
        <3>1. ht.entries = 0
            BY <2>1, <2>4, <1>0, CountFacts, SizeFacts
        <3>2. Filled(ht) = {}
            BY <3>1, <1>0, CountFacts
        <3>3. DOMAIN MapOf(ht) = {}
            BY <3>2, <1>0, MapOfIs
        <3>4. MapOf(ht) = [k \in {} |-> MapOf(ht)[k]]
            BY <3>3, <1>0, MapOfIs
        <3>5. Contents = <<>>
            BY <3>4, <1>1
        <3>6. refused = FALSE
            BY <2>4, <1>0 DEF TypeOK
        <3> QED
            BY <3>5, <3>6, <2>1, <2>2
    <2> QED
        BY <2>3, <2>4
<1>3. CASE Refused(i)
    <2>1. /\ ht' = ht /\ refused' = TRUE /\ UNCHANGED call
          /\ pc' # "rehash"
        BY <1>3 DEF Refused, Continue
    <2>2. Contents' = Contents
        BY <2>1, <1>1, ContentsIs DEF Whole
    <2> QED
        BY <2>1, <2>2 DEF Map!Next, Map!Refuse
<1>4. CASE Granted(i)
    <2>1. old' = ht /\ pc' = "rehash" /\ UNCHANGED <<call, refused>>
        BY <1>4 DEF Granted
    <2>2. Contents' = Contents
        BY <2>1, <1>1, ContentsIs DEF Whole
    <2> QED
        BY <2>1, <2>2
<1> QED
    BY <1>2, <1>3, <1>4 DEF _mesa_hash_table_rehash

LEMMA ResizeRefines ==
    ASSUME IInv, Resize
    PROVE  [Map!Next]_<<Contents, call, refused>>
<1>0. /\ pc = "resize" /\ ht.size_index \in Nat /\ ht.size_index + 1 \in Nat
      /\ ht.size_index + 1 > ht.size_index
    BY DEF Resize, IInv, TypeOK, TableOK
<1>1. CASE _mesa_hash_table_rehash(ht.size_index + 1)
    BY <1>0, <1>1, RehashRefines DEF WorthRebuilding
<1>2. CASE /\ ht.entries < MaxEntries(ht.size_index)
           /\ _mesa_hash_table_rehash(ht.size_index)
    BY <1>0, <1>2, RehashRefines DEF WorthRebuilding
<1>3. CASE /\ pc' = "store"
           /\ UNCHANGED <<ht, old, call, cursor, refused>>
    BY <1>0, <1>3, ContentsIs DEF Whole
<1> QED
    BY <1>1, <1>2, <1>3 DEF Resize

LEMMA ReserveRefines ==
    ASSUME IInv, NEW n, _mesa_hash_table_reserve(n)
    PROVE  [Map!Next]_<<Contents, call, refused>>
<1>0. pc = "idle" /\ ht.size_index \in 1 .. Len(Sizes)
    BY DEF _mesa_hash_table_reserve, IInv, TypeOK, TableOK
<1>1. PICK i \in ht.size_index + 1 .. Len(Sizes) : _mesa_hash_table_rehash(i)
    BY DEF _mesa_hash_table_reserve
<1>2. i \in Nat /\ i > ht.size_index /\ i # ht.size_index
    <2> DEFINE j == ht.size_index
    <2>0. j \in 1 .. Len(Sizes) /\ i \in j + 1 .. Len(Sizes)
        BY <1>0, <1>1
    <2> HIDE DEF j
    <2>1. Len(Sizes) \in Nat
        BY SizesAreSizes
    <2>2. i \in Nat /\ i > j /\ i # j
        BY <2>0, <2>1
    <2> QED
        BY <2>2 DEF j
<1>3. WorthRebuilding(i)
    BY <1>2 DEF WorthRebuilding
<1> QED
    BY <1>0, <1>1, <1>2, <1>3, RehashRefines

(* The moved entries are the entries of the old table.                     *)
LEMMA DoneRefines ==
    ASSUME IInv, RehashDone
    PROVE  UNCHANGED <<Contents, call, refused>>
<1>1. /\ pc = "rehash" /\ pc' # "rehash" /\ UNCHANGED <<call, refused>>
      /\ WellKept(old)
    BY SoundIsWellKept DEF RehashDone, Continue, IInv, Moving
<1>2. /\ WellKept(ht') /\ Filled(ht') = Filled(ht) /\ ht'.table = ht.table
      /\ \A b \in Filled(ht) : \E a \in Filled(old) :
            ht.table[b] = old.table[a]
      /\ \A a \in Filled(old) : \E b \in Filled(ht) :
            ht.table[b] = old.table[a]
    BY MovedAll, SoundIsWellKept
<1>3. MapOf(ht') = MapOf(old)
    BY <1>1, <1>2, SameEntriesSameMap
<1> QED
    BY <1>1, <1>3, ContentsIs DEF Whole

(* An insert stores its pair, or is turned away by a table that was        *)
(* refused a resize: otherwise a slot is left.                             *)
LEMMA StoreRefines ==
    ASSUME IInv, hash_table_insert
    PROVE  Map!Next
<1>0. /\ pc = "store" /\ pc' = "idle" /\ call # None /\ call' = None
      /\ UNCHANGED refused /\ SoundTable(ht) /\ TableOK(ht)
      /\ ~ refused => ht.entries + ht.deleted_entries
                         < MaxEntries(ht.size_index)
    BY DEF hash_table_insert, IInv, CallFits, SlackUnlessRefused, SoundTable
<1> DEFINE k == call[1]
           d == call[2]
<1>1. k \in Keys /\ d \in Values /\ call = <<k, d>>
    BY <1>0, CallPair
<1>2. Contents = MapOf(ht) /\ Contents' = MapOf(ht')
    BY <1>0, ContentsIs DEF Whole
<1>3. \/ \E a \in hash_table_get_entry(ht, k) : ht' = Stored(a, k, d)
      \/ hash_table_get_entry(ht, k) = {} /\ UNCHANGED ht
    BY DEF hash_table_insert
<1> HIDE DEF k, d
<1>4. CASE \E a \in hash_table_get_entry(ht, k) : ht' = Stored(a, k, d)
    <2>1. MapOf(ht') = With(MapOf(ht), k, d)
        <3>1. PICK a \in hash_table_get_entry(ht, k) : ht' = Stored(a, k, d)
            BY <1>4
        <3> QED
            BY <3>1, <1>0, <1>1, StoreIsPut
    <2>2. Map!Put(k, d)
        BY <2>1, <1>0, <1>1, <1>2 DEF Map!Put, With
    <2> QED
        BY <2>2, <1>1 DEF Map!Next
<1>5. CASE hash_table_get_entry(ht, k) = {} /\ UNCHANGED ht
    <2>1. refused
        <3>1. SUFFICES ASSUME ~ refused PROVE FALSE
            OBVIOUS
        <3>2. /\ MaxEntries(ht.size_index) \in Nat
              /\ Size(ht.size_index) \in Nat
              /\ MaxEntries(ht.size_index) < Size(ht.size_index)
            BY <1>0, SizeFacts DEF TableOK
        <3>3. /\ ht.entries = Cardinality(Filled(ht)) /\ ht.entries \in Nat
              /\ ht.deleted_entries \in Nat
            BY <1>0, CountFacts
        <3>4. Cardinality(Filled(ht)) < Size(ht.size_index)
            BY <3>1, <3>2, <3>3, <1>0
        <3>5. Available(ht, k) # {}
            BY <3>4, <1>0, <1>1, AvailableExists
        <3> QED
            BY <3>5, <1>5 DEF hash_table_get_entry
    <2>2. Map!TurnAway
        BY <2>1, <1>5, <1>0, <1>2 DEF Map!TurnAway
    <2> QED
        BY <2>2 DEF Map!Next
<1> QED
    BY <1>3, <1>4, <1>5

LEMMA RemoveRefines ==
    ASSUME IInv, NEW k \in Keys, _mesa_hash_table_remove_key(k)
    PROVE  Map!Next
<1>0. /\ pc # "rehash" /\ pc' # "rehash" /\ SoundTable(ht) /\ call = None
      /\ UNCHANGED <<call, refused>>
    BY DEF _mesa_hash_table_remove_key, IInv, CallFits
<1>1. PICK a \in hash_table_search(ht, k) : _mesa_hash_table_remove(a)
    BY DEF _mesa_hash_table_remove_key
<1>2. MapOf(ht') = Restrict(MapOf(ht), DOMAIN MapOf(ht) \ {k})
    BY <1>0, <1>1, RemoveIsDrop
<1>3. Contents = MapOf(ht) /\ Contents' = MapOf(ht')
    BY <1>0, ContentsIs DEF Whole
<1>4. Map!Drop(k)
    BY <1>0, <1>2, <1>3 DEF Map!Drop, Map!Restrict, Restrict
<1> QED
    BY <1>4 DEF Map!Next

LEMMA ClearRefines ==
    ASSUME IInv, _mesa_hash_table_clear
    PROVE  Map!Next
<1>0. /\ pc = "idle" /\ UNCHANGED <<pc, call>> /\ call = None
      /\ ht.size_index \in 1 .. Len(Sizes)
      /\ ht' = EmptyTable(ht.size_index) /\ refused' = FALSE
    BY DEF _mesa_hash_table_clear, hash_table_clear_fast, IInv, TypeOK,
           TableOK, CallFits
<1>1. Contents' = MapOf(ht')
    BY <1>0, ContentsIs DEF Whole
<1>2. Contents' = <<>>
    BY <1>0, <1>1, EmptyMap
<1>3. Map!Clear
    BY <1>0, <1>2 DEF Map!Clear
<1> QED
    BY <1>3 DEF Map!Next

(* hash_table.h: a map from keys to data, in which an insert, a removal    *)
(* and a clear do what they say; growing, moving and shedding tombstones   *)
(* are invisible, and only after a refused resize is an insert turned away *)
(* or the table emptied.                                                   *)
THEOREM Refinement == Spec => ImplementsMap
<1>1. _mesa_hash_table_init => Map!Init
    <2> SUFFICES ASSUME _mesa_hash_table_init PROVE Map!Init
        OBVIOUS
    <2>1. 1 \in 1 .. Len(Sizes)
        BY SizesAreSizes
    <2>2. Contents = MapOf(EmptyTable(1))
        BY ContentsIs DEF Whole, _mesa_hash_table_init
    <2> QED
        BY <2>1, <2>2, EmptyMap DEF Map!Init, _mesa_hash_table_init
<1>2. IInv /\ [Next]_vars => [Map!Next]_<<Contents, call, refused>>
    <2> SUFFICES ASSUME IInv, [Next]_vars
                 PROVE  [Map!Next]_<<Contents, call, refused>>
        OBVIOUS
    <2>1. ASSUME NEW k \in Keys, NEW d \in Values,
                 _mesa_hash_table_insert(k, d)
          PROVE  Map!Next
        <3>1. /\ pc = "idle" /\ pc' = "resize" /\ call' = <<k, d>>
              /\ UNCHANGED <<ht, refused>> /\ call = None
            BY <2>1 DEF _mesa_hash_table_insert, IInv, CallFits
        <3>2. UNCHANGED Contents
            BY <3>1, ContentsIs DEF Whole
        <3>3. Map!Call(k, d)
            BY <3>1, <3>2 DEF Map!Call
        <3> QED
            BY <3>3 DEF Map!Next
    <2>2. CASE RehashEntry
        BY <2>2, ContentsIs DEF RehashEntry, Whole
    <2>3. CASE ForeachBegin \/ ForeachNext \/ ForeachEnd
        BY <2>3, ContentsIs DEF ForeachBegin, ForeachNext, ForeachEnd, Whole
    <2>4. CASE UNCHANGED vars
        BY <2>4, ContentsIs DEF vars, Whole
    <2>5. CASE RehashDone
        BY <2>5, DoneRefines
    <2> QED
        BY <2>1, <2>2, <2>3, <2>4, <2>5, ResizeRefines, ReserveRefines,
           StoreRefines, RemoveRefines, ClearRefines
        DEF Next
<1> QED
    BY <1>1, <1>2, Invariance, PTL DEF Spec, ImplementsMap, Map!Spec
=============================================================================
