------------------------------- MODULE Ralloc --------------------------------
(***************************************************************************)
(* The hierarchical allocator of mesa/src/util/ralloc.c: every block has a *)
(* header with its parent, its first child and its siblings, and freeing a *)
(* block frees all that hangs below it.  All memory of a conversion, and   *)
(* the arena of the type cache, is such a tree.                            *)
(*                                                                         *)
(* The operators below are the functions of the file on the headers h of   *)
(* all addresses; a header that is not allocated is Free.  Destructors,    *)
(* sizes and the contents of the blocks are left out.                      *)
(***************************************************************************)
EXTENDS Integers, FiniteSets

CONSTANTS
    Blocks,     \* addresses that malloc can hand out
    Free,       \* what an address holds that is not allocated
    NULL

ASSUME NullIsNoBlock == NULL \notin Blocks

VARIABLE heap   \* [Blocks -> header or Free]

Pointer == Blocks \union {NULL}

Header == [parent : Pointer, child : Pointer, prev : Pointer, next : Pointer]

ASSUME FreeIsNoHeader == Free \notin Header

Live(h, b) == h[b] # Free

(* Writes to the headers: every live block x gets the header Op(x).        *)
Update(h, Op(_)) == [x \in Blocks |-> IF Live(h, x) THEN Op(x) ELSE Free]

add_child(h, p, b) ==
    LET Linked(x) ==
          [h[x] EXCEPT !.parent = IF x = b THEN p ELSE @,
                       !.next   = IF x = b THEN h[p].child ELSE @,
                       !.child  = IF x = p THEN b ELSE @,
                       !.prev   = IF x = h[p].child THEN b ELSE @]
    IN  IF p = NULL THEN h ELSE Update(h, Linked)

(* malloc returned b.                                                      *)
ralloc_size(h, p, b) ==
    add_child([h EXCEPT ![b] = [parent |-> NULL, child |-> NULL,
                                prev |-> NULL, next |-> NULL]], p, b)

(* Mutant: the block after the unlinked one still points back to it.       *)
UnlinkOneWay(h, b) ==
    LET Unlinked(x) ==
          IF x = b
          THEN [h[b] EXCEPT !.parent = NULL, !.prev = NULL, !.next = NULL]
          ELSE [h[x] EXCEPT
                  !.child = IF x = h[b].parent /\ @ = b THEN h[b].next ELSE @,
                  !.next  = IF x = h[b].prev THEN h[b].next ELSE @]
    IN  Update(h, Unlinked)

unlink_block(h, b) ==
    LET Unlinked(x) ==
          IF x = b
          THEN [h[b] EXCEPT !.parent = NULL, !.prev = NULL, !.next = NULL]
          ELSE [h[x] EXCEPT
                  !.child = IF x = h[b].parent /\ @ = b THEN h[b].next ELSE @,
                  !.next  = IF x = h[b].prev THEN h[b].next ELSE @,
                  !.prev  = IF x = h[b].next THEN h[b].prev ELSE @]
    IN  Update(h, Unlinked)

(* The list of the children of b, in the links of the siblings.            *)
Children(h, b) ==
    LET list[c \in Pointer] ==
          IF c = NULL THEN {} ELSE {c} \union list[h[c].next]
    IN  list[h[b].child]

(* The blocks that the loop and the recursion of unsafe_free reach.        *)
Subtree(h, b) ==
    LET below[c \in Pointer] ==
          IF c = NULL THEN {}
          ELSE {c} \union below[h[c].child] \union below[h[c].next]
    IN  {b} \union below[h[b].child]

unsafe_free(h, b) == [x \in Blocks |-> IF x \in Subtree(h, b) THEN Free
                                                             ELSE h[x]]

ralloc_free(h, b) == unsafe_free(unlink_block(h, b), b)

ralloc_steal(h, p, b) == add_child(unlink_block(h, b), p, b)

ralloc_adopt(h, new, old) ==
    LET last == CHOOSE c \in Children(h, old) : h[c].next = NULL
        Adopted(x) ==
          [h[x] EXCEPT !.parent = IF x \in Children(h, old) THEN new ELSE @,
                       !.next   = IF x = last THEN h[new].child ELSE @,
                       !.prev   = IF x = h[new].child THEN last ELSE @,
                       !.child  = IF x = new THEN h[old].child
                                  ELSE IF x = old THEN NULL ELSE @]
    IN  IF h[old].child = NULL THEN h ELSE Update(h, Adopted)

(* realloc moved block b to the address c.                                 *)
resize(h, b, c) ==
    LET Moved(p) == IF p = b THEN c ELSE p
        Follow(x) ==
          [h[x] EXCEPT
             !.parent = IF x \in Children(h, b) THEN c ELSE @,
             !.child  = IF x = h[b].parent THEN Moved(@) ELSE @,
             !.next   = IF h[b].parent # NULL /\ x = h[b].prev THEN c ELSE @,
             !.prev   = IF h[b].parent # NULL /\ x = h[b].next THEN c ELSE @]
    IN  [Update(h, Follow) EXCEPT ![c] = h[b], ![b] = Free]
-----------------------------------------------------------------------------
(* The links agree with each other in every live header: the list of a     *)
(* block's children is the set of blocks that name it as their parent, it  *)
(* can be walked both ways, and no link leads to freed memory.  This is    *)
(* what makes freeing a block free exactly what it owns, once.             *)
LinksAgree ==
    \A b \in Blocks : Live(heap, b) =>
       /\ Children(heap, b) = {c \in Blocks : Live(heap, c)
                                              /\ heap[c].parent = b}
       /\ heap[b].parent # NULL => Live(heap, heap[b].parent)
       /\ heap[b].parent = NULL => heap[b].prev = NULL /\ heap[b].next = NULL
       /\ heap[b].next # NULL => /\ Live(heap, heap[b].next)
                                 /\ heap[heap[b].next].prev = b
       /\ heap[b].prev # NULL => /\ Live(heap, heap[b].prev)
                                 /\ heap[heap[b].prev].next = b
=============================================================================
