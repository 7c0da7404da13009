------------------------------- MODULE HashMap -------------------------------
(***************************************************************************)
(* What struct hash_table (mesa/src/util/hash_table.h) promises: a map     *)
(* from keys to data.  The promise is exact as long as every resize that   *)
(* the table asked for was granted.  Once one was refused, an insert may   *)
(* be turned away, which its result tells, or empty the table first, which *)
(* nothing tells; an emptied table keeps the exact promise again.          *)
(***************************************************************************)
EXTENDS Functions

CONSTANTS Keys, Values, None

VARIABLES
    map,        \* a function from the keys present to their data
    call,       \* the insert under way, <<key, data>>, or None
    refused     \* a resize was refused since the table was last emptied

Init == /\ map = <<>>
        /\ call = None
        /\ refused = FALSE

Call(k, d) == /\ call = None
              /\ call' = <<k, d>>
              /\ UNCHANGED <<map, refused>>

Put(k, d) == /\ call = <<k, d>>
             /\ call' = None
             /\ map' = [x \in DOMAIN map \union {k} |->
                           IF x = k THEN d ELSE map[x]]
             /\ UNCHANGED refused

TurnAway == /\ call # None
            /\ refused
            /\ call' = None
            /\ UNCHANGED <<map, refused>>

Refuse == /\ refused' = TRUE
          /\ UNCHANGED <<map, call>>

Lose == /\ call # None
        /\ refused
        /\ map' = <<>>
        /\ refused' = FALSE
        /\ UNCHANGED call

Drop(k) == /\ call = None
           /\ map' = Restrict(map, DOMAIN map \ {k})
           /\ UNCHANGED <<call, refused>>

Clear == /\ call = None
         /\ map' = <<>>
         /\ refused' = FALSE
         /\ UNCHANGED call

Next == \/ \E k \in Keys, d \in Values : Call(k, d) \/ Put(k, d)
        \/ \E k \in Keys : Drop(k)
        \/ TurnAway \/ Refuse \/ Lose \/ Clear

Spec == Init /\ [][Next]_<<map, call, refused>>
=============================================================================
