------------------------------ MODULE HashTable ------------------------------
(***************************************************************************)
(* The open-addressing hash table of mesa/src/util/hash_table.c, which the *)
(* type cache and most passes of the compiler keep their state in: double  *)
(* hashing, deletion by tombstones, resizing that may be refused by the    *)
(* allocator, and iteration that tolerates deletion.                       *)
(*                                                                         *)
(* A slot is Free, Deleted or an entry; the stale key of a deleted slot is *)
(* never read and is left out.  An insert is the steps of one call:        *)
(* _mesa_hash_table_rehash (Resize, then one RehashEntry per entry moved), *)
(* then hash_table_get_entry and the store (StoreEntry).  Probes past a    *)
(* full round only visit slots again, so Size(i) probes stand for the loop *)
(* that stops where it started.                                            *)
(***************************************************************************)
EXTENDS Integers, Sequences, FiniteSets, Functions

CONSTANTS
    Keys,
    Values,
    Hash,       \* [Keys -> Nat]: key_hash_function
    Sizes,      \* hash_sizes, a sequence of [max_entries, size, rehash]
    Free,       \* a slot that is neither present nor deleted
    Deleted,    \* a tombstone
    None        \* NULL

ASSUME HashIsNat == Hash \in [Keys -> Nat]
ASSUME SizesAreSizes ==
    /\ Sizes \in Seq([max_entries : Nat \ {0}, size : Nat \ {0},
                      rehash : Nat \ {0}])
    /\ Sizes # <<>>

(* "a good choice for hash/rehash values is p, p-2 where p and p-2 are     *)
(* both prime": what the table of hash_sizes provides.  No more entries    *)
(* are wanted than there are slots, and the table of sizes grows.          *)
ASSUME SizesArePrime ==
    \A i \in DOMAIN Sizes : /\ Sizes[i].size > 1
                            /\ Sizes[i].rehash < Sizes[i].size
                            /\ \A d \in 2 .. Sizes[i].size - 1 :
                                  Sizes[i].size % d # 0
ASSUME SizesGrow ==
    /\ \A i \in DOMAIN Sizes : Sizes[i].max_entries < Sizes[i].size
    /\ \A i, j \in DOMAIN Sizes :
          i < j => /\ Sizes[i].max_entries < Sizes[j].max_entries
                   /\ Sizes[i].size < Sizes[j].size

Entry == [key : Keys, data : Values]

ASSUME MarkersAreNoData == /\ Free # Deleted
                           /\ Free \notin Entry
                           /\ Deleted \notin Entry
                           /\ None \notin Keys \X Values

VARIABLES
    ht,         \* [size_index, table, entries, deleted_entries]
    old,        \* old_ht while its entries are moved, else None
    pc,         \* where the call under way is
    call,       \* the <<key, data>> that an insert stores, or None
    cursor,     \* the slot that the loop over the entries is at, or None
    visits,     \* [Keys -> Nat]: how often the iteration met a key
    refused     \* a resize was refused since the table was last emptied

vars == <<ht, old, pc, call, cursor, visits, refused>>

Size(i) == Sizes[i].size
MaxEntries(i) == Sizes[i].max_entries

Present(slot) == slot \notin {Free, Deleted}

EmptyTable(i) == [size_index |-> i,
                  table |-> [a \in 0 .. Size(i) - 1 |-> Free],
                  entries |-> 0,
                  deleted_entries |-> 0]

NoVisits == [k \in Keys |-> 0]

_mesa_hash_table_init == /\ ht = EmptyTable(1)
                         /\ old = None
                         /\ pc = "idle"
                         /\ call = None
                         /\ cursor = None
                         /\ visits = NoVisits
                         /\ refused = FALSE
-----------------------------------------------------------------------------
(* Probing.                                                                *)

(* Mutant: the second hash may be zero.                                    *)
DoubleHashZero(i, k) == Hash[k] % Sizes[i].rehash

DoubleHash(i, k) == 1 + (Hash[k] % Sizes[i].rehash)

(* The slot of the n-th probe for k.                                       *)
Probe(i, k, n) == ((Hash[k] % Size(i)) + n * DoubleHash(i, k)) % Size(i)

(* The first slot of S that the probes for k meet, if they meet any.       *)
FirstProbed(t, k, S) ==
    LET At(n) == Probe(t.size_index, k, n)
    IN  {At(n) : n \in {n \in 0 .. Size(t.size_index) - 1 :
                          At(n) \in S /\ \A m \in 0 .. n - 1 : At(m) \notin S}}

Absent(t) == {a \in DOMAIN t.table : ~ Present(t.table[a])}

(* The slot of k: the search stops at the first free slot.                 *)
hash_table_search(t, k) ==
    LET stops == {a \in DOMAIN t.table : \/ t.table[a] = Free
                                         \/ /\ Present(t.table[a])
                                            /\ t.table[a].key = k}
    IN  {a \in FirstProbed(t, k, stops) : t.table[a] # Free}

(* The slot that an insert of k uses: its own, or the first one that is    *)
(* not present on the way to a free slot.                                  *)
Available(t, k) == FirstProbed(t, k, Absent(t))

(* Mutant: the first tombstone ends the search for the key.                *)
GetEntryTooSoon(t, k) ==
    IF Available(t, k) # {} THEN Available(t, k) ELSE hash_table_search(t, k)

hash_table_get_entry(t, k) ==
    IF hash_table_search(t, k) # {} THEN hash_table_search(t, k)
                                    ELSE Available(t, k)

(* _mesa_hash_table_next_entry: the first entry at or after slot a, or the *)
(* end of the table.                                                       *)
NextEntry(t, a) ==
    LET end == Size(t.size_index)
    IN  CHOOSE b \in a .. end :
           /\ b = end \/ Present(t.table[b])
           /\ \A c \in a .. b - 1 : ~ Present(t.table[c])
-----------------------------------------------------------------------------
(* _mesa_hash_table_rehash, and what follows it: the store of an insert or *)
(* the return of a reserve.                                                *)
Continue == pc' = IF call' = None THEN "idle" ELSE "store"

hash_table_clear_fast == /\ ht' = EmptyTable(ht.size_index)
                         /\ refused' = FALSE

OnlyTombstones(i) == /\ i = ht.size_index
                     /\ ht.deleted_entries = MaxEntries(i)

ClearInstead(i) == /\ OnlyTombstones(i)
                   /\ hash_table_clear_fast
                   /\ UNCHANGED <<old, call, cursor>>
                   /\ Continue

(* The sizes are exhausted, or the allocator has no memory.                *)
Refused(i) == /\ ~ OnlyTombstones(i)
              /\ refused' = TRUE
              /\ UNCHANGED <<ht, old, call, cursor>>
              /\ Continue

Granted(i) == /\ ~ OnlyTombstones(i)
              /\ i <= Len(Sizes)
              /\ old' = ht
              /\ ht' = EmptyTable(i)
              /\ cursor' = NextEntry(ht, 0)
              /\ pc' = "rehash"
              /\ UNCHANGED <<call, refused>>

_mesa_hash_table_rehash(i) == ClearInstead(i) \/ Refused(i) \/ Granted(i)

hash_table_insert_rehash(k) == Available(ht, k)

(* One round of the loop over the old table.                               *)
RehashEntry ==
    /\ pc = "rehash"
    /\ cursor # Size(old.size_index)
    /\ \E b \in hash_table_insert_rehash(old.table[cursor].key) :
          ht' = [ht EXCEPT !.table[b] = old.table[cursor]]
    /\ cursor' = NextEntry(old, cursor + 1)
    /\ UNCHANGED <<old, pc, call, visits, refused>>

RehashDone ==
    /\ pc = "rehash"
    /\ cursor = Size(old.size_index)
    /\ ht' = [ht EXCEPT !.entries = old.entries]
    /\ old' = None
    /\ cursor' = None
    /\ UNCHANGED call
    /\ Continue
    /\ UNCHANGED <<visits, refused>>
-----------------------------------------------------------------------------
(* The operations.                                                         *)
_mesa_hash_table_insert(k, d) ==
    /\ pc = "idle"
    /\ call' = <<k, d>>
    /\ pc' = "resize"
    /\ UNCHANGED <<ht, old, cursor, visits, refused>>

(* The test at the head of hash_table_get_entry.                           *)
Resize ==
    /\ pc = "resize"
    /\ LET i == ht.size_index
       IN  \/ /\ ht.entries >= MaxEntries(i)
              /\ _mesa_hash_table_rehash(i + 1)
           \/ /\ ht.entries < MaxEntries(i)
              /\ ht.deleted_entries + ht.entries >= MaxEntries(i)
              /\ _mesa_hash_table_rehash(i)
           \/ /\ ht.deleted_entries + ht.entries < MaxEntries(i)
              /\ pc' = "store"
              /\ UNCHANGED <<ht, old, call, cursor, refused>>
    /\ UNCHANGED visits

(* The counters when slot a becomes an entry.                              *)
Stored(a, k, d) ==
    [ht EXCEPT !.table[a] = [key |-> k, data |-> d],
               !.entries = IF Present(ht.table[a]) THEN @ ELSE @ + 1,
               !.deleted_entries = IF ht.table[a] = Deleted THEN @ - 1 ELSE @]

(* The rest of hash_table_get_entry and hash_table_insert.  Without a slot *)
(* the caller gets NULL.                                                   *)
hash_table_insert ==
    /\ pc = "store"
    /\ LET slots == hash_table_get_entry(ht, call[1])
       IN  \/ \E a \in slots : ht' = Stored(a, call[1], call[2])
           \/ slots = {} /\ UNCHANGED ht
    /\ pc' = "idle"
    /\ call' = None
    /\ UNCHANGED <<old, cursor, visits, refused>>

_mesa_hash_table_remove(a) ==
    ht' = [ht EXCEPT !.table[a] = Deleted,
                     !.entries = @ - 1,
                     !.deleted_entries = @ + 1]

(* Also from the body of an iteration, on any entry; the contract of the   *)
(* iteration rules out only insertion.                                     *)
_mesa_hash_table_remove_key(k) ==
    /\ pc \in {"idle", "iterate"}
    /\ \E a \in hash_table_search(ht, k) : _mesa_hash_table_remove(a)
    /\ UNCHANGED <<old, pc, call, cursor, visits, refused>>

_mesa_hash_table_clear == /\ pc = "idle"
                          /\ hash_table_clear_fast
                          /\ UNCHANGED <<old, pc, call, cursor, visits>>

_mesa_hash_table_reserve(n) ==
    /\ pc = "idle"
    /\ n >= MaxEntries(ht.size_index)
    /\ \E i \in ht.size_index + 1 .. Len(Sizes) :
          /\ MaxEntries(i) >= n
          /\ \A j \in ht.size_index + 1 .. i - 1 : MaxEntries(j) < n
          /\ _mesa_hash_table_rehash(i)
    /\ UNCHANGED visits

(* hash_table_foreach: the loop is at slot a, and its body sees the entry. *)
MeetEntry(a) ==
    /\ cursor' = a
    /\ visits' = IF a = Size(ht.size_index) THEN visits
                 ELSE [visits EXCEPT ![ht.table[a].key] = @ + 1]

ForeachBegin == /\ pc = "idle"
                /\ pc' = "iterate"
                /\ MeetEntry(NextEntry(ht, 0))
                /\ UNCHANGED <<ht, old, call, refused>>

(* Mutant: the entry is taken again when it is still there.                *)
ForeachStays == /\ pc = "iterate"
                /\ cursor # Size(ht.size_index)
                /\ MeetEntry(NextEntry(ht, cursor))
                /\ UNCHANGED <<ht, old, pc, call, refused>>

ForeachNext == /\ pc = "iterate"
               /\ cursor # Size(ht.size_index)
               /\ MeetEntry(NextEntry(ht, cursor + 1))
               /\ UNCHANGED <<ht, old, pc, call, refused>>

ForeachEnd == /\ pc = "iterate"
              /\ cursor = Size(ht.size_index)
              /\ pc' = "idle"
              /\ cursor' = None
              /\ visits' = NoVisits
              /\ UNCHANGED <<ht, old, call, refused>>

Next == \/ \E k \in Keys, d \in Values : _mesa_hash_table_insert(k, d)
        \/ Resize
        \/ RehashEntry
        \/ RehashDone
        \/ hash_table_insert
        \/ \E k \in Keys : _mesa_hash_table_remove_key(k)
        \/ _mesa_hash_table_clear
        \/ \E i \in 1 .. Len(Sizes) : _mesa_hash_table_reserve(MaxEntries(i))
        \/ ForeachBegin
        \/ ForeachNext
        \/ ForeachEnd

Spec == _mesa_hash_table_init /\ [][Next]_vars
-----------------------------------------------------------------------------
SlotsWith(P(_)) == {a \in DOMAIN ht.table : P(ht.table[a])}

(* Between calls the counters that decide when the table is rebuilt, grown *)
(* or cleared agree with the slots, no key is in two slots, and a search   *)
(* finds every entry from any mixture of collisions, tombstones, moves and *)
(* refused resizes.                                                        *)
TableIsSound ==
    pc # "rehash" =>
       /\ ht.entries = Cardinality(SlotsWith(Present))
       /\ ht.deleted_entries = Cardinality({a \in DOMAIN ht.table :
                                               ht.table[a] = Deleted})
       /\ \A a \in SlotsWith(Present) :
             hash_table_search(ht, ht.table[a].key) = {a}

(* An iteration whose body deletes entries meets no key twice, and when it *)
(* ends every entry that is still there was met.                           *)
IterationIsExact ==
    pc = "iterate" =>
       /\ \A k \in Keys : visits[k] <= 1
       /\ cursor = Size(ht.size_index) =>
             \A a \in SlotsWith(Present) : visits[ht.table[a].key] = 1

(* hash_table_insert_rehash loops until it meets a slot that is not        *)
(* present: while entries are moved there is always one on the way.        *)
MovesFindASlot ==
    pc = "rehash" /\ cursor # Size(old.size_index)
       => hash_table_insert_rehash(old.table[cursor].key) # {}

(* The map that the table stands for; the old table while it is moved.     *)
Whole == IF pc = "rehash" THEN old ELSE ht

Contents == [k \in {k \in Keys : hash_table_search(Whole, k) # {}} |->
                LET a == CHOOSE a \in hash_table_search(Whole, k) : TRUE
                IN  Whole.table[a].data]

Map == INSTANCE HashMap WITH map <- Contents

(* The table implements the map: an insert, a removal and a clear do to    *)
(* the keys what they say and nothing to the others, growing and shedding  *)
(* tombstones change nothing, and only a table that was refused a resize   *)
(* turns a key away or loses its entries.                                  *)
ImplementsMap == Map!Spec
-----------------------------------------------------------------------------
(* The inductive invariant.                                                *)
TableOK(t) ==
    /\ t = [size_index |-> t.size_index, table |-> t.table,
            entries |-> t.entries, deleted_entries |-> t.deleted_entries]
    /\ t.size_index \in 1 .. Len(Sizes)
    /\ t.table \in [0 .. Size(t.size_index) - 1 -> Entry \union {Free, Deleted}]
    /\ t.entries \in Nat
    /\ t.deleted_entries \in Nat

TypeOK == /\ TableOK(ht)
          /\ pc \in {"idle", "resize", "rehash", "store", "iterate"}
          /\ call \in (Keys \X Values) \union {None}
          /\ visits \in [Keys -> Nat]
          /\ refused \in BOOLEAN

Filled(t) == {a \in DOMAIN t.table : Present(t.table[a])}
Tombstones(t) == {a \in DOMAIN t.table : t.table[a] = Deleted}

(* The n-th probe for k is the first to meet slot a, and no earlier one    *)
(* meets a slot at which a search stops.                                   *)
LeadsTo(t, k, n, a) ==
    /\ Probe(t.size_index, k, n) = a
    /\ \A m \in 0 .. n - 1 : /\ Probe(t.size_index, k, m) # a
                             /\ t.table[Probe(t.size_index, k, m)] # Free

EntriesAreReached(t) ==
    \A a \in Filled(t) : \E n \in 0 .. Size(t.size_index) - 1 :
       LeadsTo(t, t.table[a].key, n, a)

KeysAreUnique(t) ==
    \A a, b \in Filled(t) : t.table[a].key = t.table[b].key => a = b

Counted(t) == /\ t.entries = Cardinality(Filled(t))
              /\ t.deleted_entries = Cardinality(Tombstones(t))

SoundTable(t) == /\ TableOK(t)
                 /\ EntriesAreReached(t)
                 /\ KeysAreUnique(t)
                 /\ Counted(t)

(* While the entries are moved the old table is whole, and the new one     *)
(* holds exactly the entries of the old one below the cursor.              *)
Below(t, c) == {a \in Filled(t) : a < c}

Moving ==
    /\ SoundTable(old)
    /\ EntriesAreReached(ht) /\ KeysAreUnique(ht)
    /\ Tombstones(ht) = {} /\ ht.deleted_entries = 0
    /\ cursor \in 0 .. Size(old.size_index)
    /\ cursor = Size(old.size_index) \/ cursor \in Filled(old)
    /\ \A b \in Filled(ht) : \E a \in Below(old, cursor) :
          ht.table[b] = old.table[a]
    /\ \A a \in Below(old, cursor) : \E b \in Filled(ht) :
          ht.table[b] = old.table[a]
    /\ Cardinality(Filled(ht)) = Cardinality(Below(old, cursor))
    /\ old.entries <= Size(ht.size_index)

(* The loop of an iteration has met the entries up to the cursor.          *)
Iterating ==
    /\ cursor \in 0 .. Size(ht.size_index)
    /\ \A k \in Keys : visits[k] <= 1
    /\ \A a \in Filled(ht) :
          visits[ht.table[a].key] = IF a <= cursor THEN 1 ELSE 0

(* Where the call under way is.                                            *)
CallFits == /\ pc \in {"idle", "iterate"} => call = None
            /\ pc \in {"resize", "store"} => call # None

(* As long as no resize was refused, the slots in use stay within          *)
(* max_entries, and an insert finds one more.                              *)
SlackUnlessRefused ==
    ~ refused =>
       /\ pc \in {"idle", "resize", "iterate"} =>
             ht.entries + ht.deleted_entries <= MaxEntries(ht.size_index)
       /\ pc = "store" =>
             ht.entries + ht.deleted_entries < MaxEntries(ht.size_index)
       /\ pc = "rehash" => old.entries < MaxEntries(ht.size_index)

IInv == /\ TypeOK
        /\ pc # "rehash" => SoundTable(ht)
        /\ pc = "rehash" => Moving
        /\ IF pc = "iterate" THEN Iterating ELSE visits = NoVisits
        /\ CallFits
        /\ SlackUnlessRefused
=============================================================================
