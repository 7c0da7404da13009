----------------------------- MODULE MCHashTable -----------------------------
(* A small instance of HashTable for TLC.  The sizes are those of          *)
(* hash_sizes scaled down: primes p with p - 2 for the second hash, and a  *)
(* part of the slots kept free.  The hashes of k1 and k2 are equal, k3     *)
(* shares their first slot in the small table and k4 in the large one.     *)
EXTENDS HashTable, TLC

CONSTANTS k1, k2, k3, k4, d1, d2

MCKeys == {k1, k2, k3, k4}
MCValues == {d1, d2}
MCHash == k1 :> 1 @@ k2 :> 1 @@ k3 :> 4 @@ k4 :> 6
MCSizes == <<[max_entries |-> 1, size |-> 3, rehash |-> 1],
             [max_entries |-> 2, size |-> 5, rehash |-> 3]>>
=============================================================================
