---------------------------- MODULE GlslTypeCache ----------------------------
(***************************************************************************)
(* The process-wide cache of shader types (mesa/src/compiler/glsl_types.c):*)
(* a reference-counted singleton that all conversions of the process share.*)
(* A type is made at most once while the cache lives and is compared by    *)
(* address everywhere in the compiler; when the last user leaves, one      *)
(* ralloc_free releases every type, and every address may be used again.   *)
(*                                                                         *)
(* All six kinds of derived types go through the same steps under          *)
(* glsl_type_cache_mutex, so each function below is one atomic action (the *)
(* mutex itself is FutexMutex and OnceMutex).  A type is its kind, the     *)
(* address of its element or first field, and everything else in its key.  *)
(***************************************************************************)
EXTENDS Integers, FiniteSets

CONSTANTS
    Threads,    \* threads that run conversions
    Addr,       \* addresses the arena can hand out
    Arg,        \* the rest of a key: sizes, strides, names, packing
    Builtin,    \* stands for the statically allocated types
    Free        \* what a free address holds

ASSUME ThreadsAreFinite == IsFiniteSet(Threads)
ASSUME MarkersAreNoAddresses == Builtin \notin Addr /\ Free \notin Addr

Kinds == {"explicit_matrix", "array", "cmat", "struct", "interface",
          "subroutine"}

Type == [kind : Kinds, elem : Addr \union {Builtin}, arg : Arg]

ASSUME FreeIsNoType == Free \notin Type

VARIABLES
    users,      \* glsl_type_cache.users
    memctx,     \* glsl_type_cache.mem_ctx # NULL
    tables,     \* [Kinds -> sets of entries]: the six hash tables
    heap,       \* [Addr -> Type or Free]: what the arena holds
    refs,       \* the threads between init_or_ref and decref
    held        \* [Threads -> SUBSET Addr]: the types a thread's IR points to

cacheVars == <<users, memctx, tables, heap, refs, held>>

Entry == [elem : Addr \union {Builtin}, arg : Arg, type : Addr]

CacheInit == /\ users = 0
             /\ memctx = FALSE
             /\ tables = [k \in Kinds |-> {}]
             /\ heap = [a \in Addr |-> Free]
             /\ refs = {}
             /\ held = [t \in Threads |-> {}]

(* Mutant: the context is made but the first user is not counted.          *)
RefForgotten(t) ==
    /\ memctx' = (users = 0 \/ memctx)
    /\ users' = IF users = 0 THEN 0 ELSE users + 1
    /\ refs' = refs \union {t}
    /\ UNCHANGED <<tables, heap, held>>

glsl_type_singleton_init_or_ref(t) ==
    /\ memctx' = (users = 0 \/ memctx)
    /\ users' = users + 1
    /\ refs' = refs \union {t}
    /\ UNCHANGED <<tables, heap, held>>

(* ralloc_free(mem_ctx) and the memset of the whole structure              *)
ReleaseCache == /\ memctx' = FALSE
                /\ tables' = [k \in Kinds |-> {}]
                /\ heap' = [a \in Addr |-> Free]

(* Mutant: the comparison is off by one, so the cache goes while one user  *)
(* remains.                                                                *)
DecrefTooEarly(t) ==
    /\ users' = users - 1
    /\ refs' = refs \ {t}
    /\ IF users - 1 > 1 THEN UNCHANGED <<memctx, tables, heap>>
                        ELSE ReleaseCache
    /\ UNCHANGED held

glsl_type_singleton_decref(t) ==
    /\ users' = users - 1
    /\ refs' = refs \ {t}
    /\ IF users - 1 # 0 THEN UNCHANGED <<memctx, tables, heap>>
                        ELSE ReleaseCache
    /\ UNCHANGED held

(* Search the table, make the type when there is no entry, return the      *)
(* type of the entry.                                                      *)
Matches(k, e, n) == {en \in tables[k] : en.elem = e /\ en.arg = n}

Found(t, k, e, n) ==
    /\ \E en \in Matches(k, e, n) :
          held' = [held EXCEPT ![t] = @ \union {en.type}]
    /\ UNCHANGED <<tables, heap>>

(* Mutant: the type is made without the search of the table.               *)
MadeAgain(t, k, e, n) ==
    \E a \in Addr :
       /\ heap[a] = Free
       /\ heap' = [heap EXCEPT ![a] = [kind |-> k, elem |-> e, arg |-> n]]
       /\ tables' = [tables EXCEPT
                       ![k] = @ \union {[elem |-> e, arg |-> n, type |-> a]}]
       /\ held' = [held EXCEPT ![t] = @ \union {a}]

Made(t, k, e, n) ==
    /\ Matches(k, e, n) = {}
    /\ \E a \in Addr :
          /\ heap[a] = Free
          /\ heap' = [heap EXCEPT ![a] = [kind |-> k, elem |-> e, arg |-> n]]
          /\ tables' = [tables EXCEPT
                          ![k] = @ \union {[elem |-> e, arg |-> n, type |-> a]}]
          /\ held' = [held EXCEPT ![t] = @ \union {a}]

Intern(t, k, e, n) ==
    /\ Found(t, k, e, n) \/ Made(t, k, e, n)
    /\ UNCHANGED <<users, memctx, refs>>

glsl_explicit_matrix_type(t, n) == Intern(t, "explicit_matrix", Builtin, n)

glsl_array_type(t, e, n) == Intern(t, "array", e, n)

glsl_cmat_type(t, n) == Intern(t, "cmat", Builtin, n)

glsl_struct_type(t, e, n) == Intern(t, "struct", e, n)

glsl_interface_type(t, e, n) == Intern(t, "interface", e, n)

glsl_subroutine_type(t, n) == Intern(t, "subroutine", Builtin, n)

GetType(t) ==
    \E n \in Arg :
       \/ glsl_explicit_matrix_type(t, n)
       \/ glsl_cmat_type(t, n)
       \/ glsl_subroutine_type(t, n)
       \/ \E e \in held[t] \union {Builtin} :
             \/ glsl_array_type(t, e, n)
             \/ glsl_struct_type(t, e, n)
             \/ glsl_interface_type(t, e, n)

(* The thread frees the IR that points to the types it obtained.           *)
DropTypes(t) == /\ held' = [held EXCEPT ![t] = {}]
                /\ UNCHANGED <<users, memctx, tables, heap, refs>>

(* What the cache demands of its users: types are only asked for under a   *)
(* reference (assert(users > 0)), and the reference is given back once,    *)
(* when the IR that points to the types is gone.                           *)
Enter(t) == t \notin refs /\ glsl_type_singleton_init_or_ref(t)

Obtain(t) == t \in refs /\ GetType(t)

Leave(t) == t \in refs /\ held[t] = {} /\ glsl_type_singleton_decref(t)

CacheNext == \E t \in Threads : Enter(t) \/ Obtain(t) \/ DropTypes(t) \/ Leave(t)

CacheSpec == CacheInit /\ [][CacheNext]_cacheVars
-----------------------------------------------------------------------------
CacheTypeOK == /\ users \in Nat
               /\ memctx \in BOOLEAN
               /\ tables \in [Kinds -> SUBSET Entry]
               /\ heap \in [Addr -> Type \union {Free}]
               /\ refs \in SUBSET Threads
               /\ held \in [Threads -> SUBSET Addr]

Live(a) == heap[a] # Free

(* The counter is the number of conversions in progress, and the arena     *)
(* exists exactly while there are any: nothing is released under a user    *)
(* and nothing stays behind the last one.                                  *)
UsersAreCounted == /\ users = Cardinality(refs)
                   /\ memctx <=> refs # {}
                   /\ refs = {} => \A a \in Addr : ~ Live(a)

(* No conversion ever points to released memory, not even when other       *)
(* conversions start and end around it; nor does a type in the cache.      *)
NoDanglingType ==
    /\ \A t \in Threads : \A a \in held[t] : Live(a)
    /\ \A a \in Addr : Live(a) /\ heap[a].elem # Builtin
                          => Live(heap[a].elem)

(* Type equality is pointer equality: two types of the same structure,     *)
(* whichever threads asked for them, are the same address.                 *)
TypesAreCanonical ==
    \A a, b \in Addr : Live(a) /\ heap[a] = heap[b] => a = b

(* What a hash table says about an address is what the arena holds there,  *)
(* and every type in the arena can be found again.                         *)
TablesMatchArena ==
    /\ \A k \in Kinds : \A en \in tables[k] :
          heap[en.type] = [kind |-> k, elem |-> en.elem, arg |-> en.arg]
    /\ \A a \in Addr : Live(a) =>
          [elem |-> heap[a].elem, arg |-> heap[a].arg, type |-> a]
             \in tables[heap[a].kind]

OnlyUsersHold == \A t \in Threads : t \notin refs => held[t] = {}

(* The inductive invariant of the cache.                                   *)
CacheInv == /\ CacheTypeOK
            /\ UsersAreCounted
            /\ NoDanglingType
            /\ TypesAreCanonical
            /\ TablesMatchArena
            /\ OnlyUsersHold

(* A type never changes while some conversion points to it: the address is *)
(* not released and given to another type behind its back.                 *)
HeldTypesAreStable ==
    [][\A t \in Threads : \A a \in held[t] : heap'[a] = heap[a]]_cacheVars
=============================================================================
