------------------------------ MODULE GcContext ------------------------------
(***************************************************************************)
(* The mark-and-sweep context of mesa/src/util/ralloc.c (gc_context), in   *)
(* which the instructions of a nir_shader live, on top of the ralloc tree  *)
(* that it is a part of.  Small objects come from slabs, one block each,   *)
(* large ones are blocks of their own.  nir_sweep flips the generation and *)
(* moves everything under a temporary context, marks what the shader still *)
(* reaches, and frees the rest.                                            *)
(*                                                                         *)
(* The owners of other blocks allocate, free, steal, adopt and resize      *)
(* around it, up to the shader itself.  An object is the block it lies in  *)
(* and its place there, 0 for a large one.                                 *)
(***************************************************************************)
EXTENDS Ralloc, Sequences, SequencesExt

CONSTANTS
    Shader,     \* the block of the nir_shader
    Gctx,       \* the block of its gc_ctx
    Rubbish,    \* the block of the temporary context of a sweep
    NumObjs,    \* gc_bucket_num_objs of the bucket in use
    Unused,     \* the flags of a place without IS_USED
    Large,      \* what a block holds that is a large object
    NoObject    \* what a block holds that is no memory of the context

ASSUME FixedBlocks == {Shader, Gctx, Rubbish} \subseteq Blocks
ASSUME NumObjsIsPositive == NumObjs \in Nat \ {0}

VARIABLES
    content,    \* [Blocks -> NoObject, Large or a gc_slab]
    slabs,      \* the bucket's list of slabs
    free_slabs, \* and of those with room
    current_gen,
    rubbish     \* a sweep is under way

vars == <<heap, content, slabs, free_slabs, current_gen, rubbish>>

(* The flags of an object in use are its generation.                       *)
Generations == {0, 1}

IsSlab(b) == content[b] \notin {NoObject, Large}

NewSlab == [flags |-> [i \in 1 .. NumObjs |-> Unused],
            freelist |-> <<>>,
            next_available |-> 1,
            num_allocated |-> 0,
            num_free |-> NumObjs]

(* nir_shader_create: the shader's block and the gc_context below it.      *)
Init == LET empty == [b \in Blocks |-> Free]
        IN  /\ heap = ralloc_size(ralloc_size(empty, NULL, Shader), Shader, Gctx)
            /\ content = [b \in Blocks |-> NoObject]
            /\ slabs = <<>>
            /\ free_slabs = <<>>
            /\ current_gen = 0
            /\ rubbish = FALSE

Without(list, s) == SelectSeq(list, LAMBDA x : x # s)

(* The state that the functions below work on.                             *)
State == [heap |-> heap, content |-> content, slabs |-> slabs,
          free_slabs |-> free_slabs]

Becomes(s) == /\ heap' = s.heap
              /\ content' = s.content
              /\ slabs' = s.slabs
              /\ free_slabs' = s.free_slabs
-----------------------------------------------------------------------------
(* Slabs.                                                                  *)
create_slab(s, b) ==
    [heap |-> ralloc_size(s.heap, Gctx, b),
     content |-> [s.content EXCEPT ![b] = NewSlab],
     slabs |-> Append(s.slabs, b),
     free_slabs |-> Append(s.free_slabs, b)]

(* The place in the slab that alloc_from_slab takes, and the slab after it *)
(* with the flags that gc_alloc_size sets.                                 *)
SlabPlace(slab) == IF slab.freelist # <<>> THEN Head(slab.freelist)
                                           ELSE slab.next_available

alloc_from_slab(s, b) ==
    LET slab == s.content[b]
        reuse == slab.freelist # <<>>
        left == slab.num_free - 1
    IN  [s EXCEPT
           !.content[b] =
              [flags |-> [slab.flags EXCEPT ![SlabPlace(slab)] = current_gen],
               freelist |-> IF reuse THEN Tail(slab.freelist) ELSE <<>>,
               next_available |-> IF reuse THEN slab.next_available
                                           ELSE slab.next_available + 1,
               num_allocated |-> slab.num_allocated + 1,
               num_free |-> left],
           !.free_slabs = IF left = 0 THEN Without(@, b) ELSE @]

(* Mutant: the slab stays in the list of those with room.                  *)
FreeSlabStaysListed(s, b) ==
    [s EXCEPT !.heap = ralloc_free(@, b),
              !.content[b] = NoObject,
              !.slabs = Without(@, b)]

free_slab(s, b) == [heap |-> ralloc_free(s.heap, b),
                    content |-> [s.content EXCEPT ![b] = NoObject],
                    slabs |-> Without(s.slabs, b),
                    free_slabs |-> Without(s.free_slabs, b)]

(* Slab b behind the slabs after it with fewer free objects; the object    *)
(* that is being freed is not yet counted.                                 *)
MovedBack(s, b) ==
    LET list == s.free_slabs
        Fewer(c) == s.content[b].num_free > s.content[c].num_free
        at == SelectInSeq(list, LAMBDA x : x = b)
        to == CHOOSE j \in at .. Len(list) :
                 /\ \A i \in at + 1 .. j : Fewer(list[i])
                 /\ j < Len(list) => ~ Fewer(list[j + 1])
    IN  InsertAt(RemoveAt(list, at), to, b)

(* The first test, with list_is_singular: the last object takes its slab   *)
(* along, but for the only slab with room when empty ones are kept.        *)
free_from_slab(s, b, i, keep_empty_slabs) ==
    LET slab == s.content[b]
    IN  IF slab.num_allocated = 1 /\ ~ (keep_empty_slabs /\ s.free_slabs = <<b>>)
        THEN free_slab(s, b)
        ELSE [s EXCEPT
                !.content[b] =
                   [slab EXCEPT !.flags[i] = Unused,
                                !.freelist = <<i>> \o @,
                                !.num_allocated = @ - 1,
                                !.num_free = @ + 1],
                !.free_slabs = IF slab.num_free = 0 THEN <<b>> \o @
                                                    ELSE MovedBack(s, b)]
-----------------------------------------------------------------------------
(* The context.                                                            *)
Alive == Live(heap, Gctx)

FreeBlocks == {b \in Blocks \ {Shader, Gctx, Rubbish} : ~ Live(heap, b)}

(* A small object: from the first slab with room, or from a new one.       *)
gc_alloc_small ==
    /\ Alive
    /\ IF free_slabs # <<>>
       THEN Becomes(alloc_from_slab(State, Head(free_slabs)))
       ELSE \E b \in FreeBlocks :
               Becomes(alloc_from_slab(create_slab(State, b), b))
    /\ UNCHANGED <<current_gen, rubbish>>

gc_alloc_large ==
    /\ Alive
    /\ \E b \in FreeBlocks :
          /\ heap' = ralloc_size(heap, Gctx, b)
          /\ content' = [content EXCEPT ![b] = Large]
    /\ UNCHANGED <<slabs, free_slabs, current_gen, rubbish>>

(* What the caller may still use: small objects in slabs and large blocks. *)
Small(b, i) == IsSlab(b) /\ content[b].flags[i] # Unused

Owned == {<<b, i>> \in Blocks \X (1 .. NumObjs) : Small(b, i)}
           \union {<<b, 0>> : b \in {c \in Blocks : content[c] = Large}}

gc_free(b, i) ==
    /\ <<b, i>> \in Owned
    /\ IF IsSlab(b)
       THEN Becomes(free_from_slab(State, b, i, TRUE))
       ELSE /\ heap' = ralloc_free(heap, b)
            /\ content' = [content EXCEPT ![b] = NoObject]
            /\ UNCHANGED <<slabs, free_slabs>>
    /\ UNCHANGED <<current_gen, rubbish>>

gc_sweep_start ==
    /\ Alive
    /\ ~ rubbish
    /\ current_gen' = 1 - current_gen
    /\ rubbish' = TRUE
    /\ heap' = ralloc_adopt(ralloc_size(heap, NULL, Rubbish), Rubbish, Gctx)
    /\ UNCHANGED <<content, slabs, free_slabs>>

(* What the sweep under way finds current.                                 *)
Current == {<<b, i>> \in Owned : IF IsSlab(b)
                                 THEN content[b].flags[i] = current_gen
                                 ELSE heap[b].parent = Gctx}

(* Its callers mark an object once, and none that was allocated since the  *)
(* sweep began: the flag of a small one is flipped, not set.               *)
gc_mark_live(b, i) ==
    /\ rubbish
    /\ <<b, i>> \in Owned \ Current
    /\ IF IsSlab(b)
       THEN /\ content' = [content EXCEPT ![b].flags[i] = 1 - @]
            /\ UNCHANGED heap
       ELSE /\ heap' = ralloc_steal(heap, Gctx, b)
            /\ UNCHANGED content
    /\ UNCHANGED <<slabs, free_slabs, current_gen, rubbish>>

(* One object in the loop of gc_sweep_end; a slab that went with its last  *)
(* object ends the loop over it.                                           *)
SweepObject(s, b, i) ==
    IF \/ s.content[b] = NoObject
       \/ i >= s.content[b].next_available
       \/ s.content[b].flags[i] \in {Unused, current_gen}
    THEN s
    ELSE free_from_slab(s, b, i, FALSE)

SweepSlab(s, b) ==
    IF s.content[b].num_allocated = 0 THEN free_slab(s, b)
    ELSE FoldLeft(LAMBDA t, i : SweepObject(t, b, i), s,
                  [i \in 1 .. NumObjs |-> i])

(* Mutant: the slabs that are left stay below the temporary context.       *)
SlabsNotStolen(s) == s

(* The slabs that are left go back below the context.                      *)
StealSlabs(s) ==
    [s EXCEPT !.heap = FoldLeft(LAMBDA h, b : ralloc_steal(h, Gctx, b), @,
                                s.slabs)]

(* ralloc_free of a block that may hold other blocks.                      *)
FreeBlock(s, b) ==
    LET gone == Subtree(unlink_block(s.heap, b), b)
    IN  [s EXCEPT !.heap = ralloc_free(@, b),
                  !.content = [c \in Blocks |-> IF c \in gone THEN NoObject
                                                             ELSE @[c]]]

gc_sweep_end ==
    /\ rubbish
    /\ LET swept == FoldLeft(SweepSlab, State, slabs)
       IN  Becomes(FreeBlock(StealSlabs(swept), Rubbish))
    /\ rubbish' = FALSE
    /\ UNCHANGED current_gen
-----------------------------------------------------------------------------
(* The owners of other blocks.                                             *)
Plain == {b \in Blocks \ {Gctx, Rubbish} : Live(heap, b) /\ content[b] = NoObject}

gcState == <<content, slabs, free_slabs, current_gen, rubbish>>

Allocate(p, b) == /\ b \in FreeBlocks
                  /\ heap' = ralloc_size(heap, p, b)
                  /\ UNCHANGED gcState

(* The context may go with the block, but not during a sweep.              *)
Discard(b) ==
    /\ rubbish => Gctx \notin Subtree(heap, b)
    /\ LET s == FreeBlock(State, b)
       IN  IF Live(s.heap, Gctx) THEN Becomes(s)
           ELSE Becomes([s EXCEPT !.slabs = <<>>, !.free_slabs = <<>>])
    /\ UNCHANGED <<current_gen, rubbish>>

(* A block never comes to hang below itself.                               *)
Steal(p, b) == /\ Live(heap, b)
               /\ p = NULL \/ p \notin Subtree(heap, b)
               /\ heap' = ralloc_steal(heap, p, b)
               /\ UNCHANGED gcState

Adopt(new, old) == /\ new \notin Subtree(heap, old)
                   /\ heap' = ralloc_adopt(heap, new, old)
                   /\ UNCHANGED gcState

Resize(b, c) == /\ b # Shader
                /\ c \in FreeBlocks
                /\ heap' = resize(heap, b, c)
                /\ UNCHANGED gcState

Next ==
    \/ gc_alloc_small
    \/ gc_alloc_large
    \/ gc_sweep_start
    \/ gc_sweep_end
    \/ \E o \in Owned : gc_free(o[1], o[2]) \/ gc_mark_live(o[1], o[2])
    \/ \E p \in Plain \union {NULL}, b \in Blocks : Allocate(p, b)
    \/ \E p \in Plain \union {NULL}, b \in Plain \union {Gctx} : Steal(p, b)
    \/ \E b \in Plain : Discard(b)
    \/ \E new, old \in Plain : Adopt(new, old)
    \/ \E b \in Plain, c \in Blocks : Resize(b, c)

Spec == Init /\ [][Next]_vars
-----------------------------------------------------------------------------
TypeOK == /\ heap \in [Blocks -> Header \union {Free}]
          /\ slabs \in Seq(Blocks)
          /\ free_slabs \in Seq(Blocks)
          /\ current_gen \in Generations
          /\ rubbish \in BOOLEAN

(* Every slab accounts for its memory: the two counters that decide when   *)
(* it is full, empty or freed agree with the flags, its free list holds    *)
(* the unused places before the linear limit once each, and it is in the   *)
(* bucket's free list exactly while it has room, so the next allocation    *)
(* always finds a place.                                                   *)
SlabsAddUp ==
    /\ ToSet(slabs) = {b \in Blocks : IsSlab(b)}
    /\ ToSet(free_slabs) = {b \in ToSet(slabs) : content[b].num_free > 0}
    /\ IsInjective(slabs) /\ IsInjective(free_slabs)
    /\ \A b \in ToSet(slabs) :
          LET slab == content[b]
              used == {i \in 1 .. NumObjs : slab.flags[i] # Unused}
          IN  /\ slab.num_allocated = Cardinality(used)
              /\ slab.num_free = NumObjs - slab.num_allocated
              /\ IsInjective(slab.freelist)
              /\ ToSet(slab.freelist) = (1 .. slab.next_available - 1) \ used
              /\ used \subseteq 1 .. slab.next_available - 1

GcObjects == Blocks \X (0 .. NumObjs)

Gc == INSTANCE GcHeap WITH
          Objects <- GcObjects,
          alive <- Alive,
          owned <- Owned,
          sweeping <- rubbish,
          kept <- IF rubbish THEN Current ELSE {}

(* The context keeps its promise: no object is handed out twice, a sweep   *)
(* keeps exactly what was marked or allocated since it began, in whatever  *)
(* order objects are allocated, freed and marked in between and whatever   *)
(* happens to the tree around the context.                                 *)
ImplementsGc == Gc!Spec
=============================================================================
