-------------------------- MODULE SpirvToDxilProofs --------------------------
(***************************************************************************)
(* For any number of threads, addresses and keys: the type cache counts    *)
(* its users, never leaves a dangling type, and keeps types canonical;     *)
(* concurrent conversions use it as it demands, balance its references on  *)
(* every path, and leave nothing behind but the slice and the known leaks. *)
(***************************************************************************)
EXTENDS SpirvToDxil, FiniteSetTheorems, TLAPS

(* The type cache alone, with any user that obeys it.                      *)
(* Counting the threads that hold a reference.                             *)
LEMMA RefsCount ==
    ASSUME NEW S, S \subseteq Threads, NEW t \in Threads
    PROVE  /\ Cardinality(S) \in Nat
           /\ Cardinality(S) = 0 <=> S = {}
           /\ t \notin S => Cardinality(S \union {t}) = Cardinality(S) + 1
           /\ t \in S => Cardinality(S \ {t}) = Cardinality(S) - 1
<1>1. IsFiniteSet(S)
    BY ThreadsAreFinite, FS_Subset
<1>2. Cardinality(S) \in Nat /\ (Cardinality(S) = 0 <=> S = {})
    BY <1>1, FS_CardinalityType, FS_EmptySet
<1>3. t \notin S => Cardinality(S \union {t}) = Cardinality(S) + 1
    BY <1>1, FS_AddElement
<1>4. t \in S => Cardinality(S \ {t}) = Cardinality(S) - 1
    BY <1>1, FS_RemoveElement
<1> QED
    BY <1>2, <1>3, <1>4

LEMMA RefStep ==
    ASSUME CacheInv, NEW t \in Threads, Enter(t)
    PROVE  CacheInv'
<1> USE DEF CacheInv, Enter, glsl_type_singleton_init_or_ref
<1>1. CacheTypeOK'
    BY DEF CacheTypeOK
<1>2. UsersAreCounted'
    BY RefsCount DEF CacheTypeOK, UsersAreCounted, Live
<1>3. (NoDanglingType /\ TypesAreCanonical /\ TablesMatchArena)'
    BY DEF NoDanglingType, TypesAreCanonical, TablesMatchArena, Live
<1>4. OnlyUsersHold'
    BY DEF OnlyUsersHold
<1> QED
    BY <1>1, <1>2, <1>3, <1>4

LEMMA DropStep ==
    ASSUME CacheInv, NEW t \in Threads, DropTypes(t)
    PROVE  CacheInv'
    BY DEF CacheInv, DropTypes, CacheTypeOK, UsersAreCounted, NoDanglingType,
           TypesAreCanonical, TablesMatchArena, OnlyUsersHold, Live

LEMMA DecrefStep ==
    ASSUME CacheInv, NEW t \in Threads, Leave(t)
    PROVE  CacheInv'
<1> USE DEF CacheInv, Leave, glsl_type_singleton_decref
<1>0. refs \subseteq Threads /\ refs' = refs \ {t} /\ t \in refs
    BY DEF CacheTypeOK
<1>2. users' = Cardinality(refs') /\ users' \in Nat /\ users' = users - 1
    BY <1>0, RefsCount DEF CacheTypeOK, UsersAreCounted
<1>1. users - 1 = 0 <=> refs' = {}
    <2>1. refs' \subseteq Threads
        BY <1>0
    <2>2. Cardinality(refs') = 0 <=> refs' = {}
        BY <2>1, RefsCount
    <2> QED
        BY <1>2, <2>2
<1>3. CASE users - 1 # 0
    <2>1. UNCHANGED <<memctx, tables, heap, held>>
        BY <1>3
    <2> QED
        BY <1>1, <1>2, <1>3, <2>1
        DEF CacheTypeOK, UsersAreCounted, NoDanglingType,
            TypesAreCanonical, TablesMatchArena, OnlyUsersHold, Live
<1>4. CASE users - 1 = 0
    <2>1. refs' = {} /\ refs = {t}
        BY <1>1, <1>4
    <2>2. held' = held /\ \A u \in Threads : held[u] = {}
        BY <2>1 DEF OnlyUsersHold
    <2>3. /\ memctx' = FALSE
          /\ tables' = [k \in Kinds |-> {}]
          /\ heap' = [a \in Addr |-> Free]
        BY <1>4 DEF ReleaseCache
    <2> QED
        BY <1>2, <2>1, <2>2, <2>3
        DEF CacheTypeOK, UsersAreCounted, NoDanglingType,
            TypesAreCanonical, TablesMatchArena, OnlyUsersHold, Live
<1> QED
    BY <1>3, <1>4

LEMMA FoundStep ==
    ASSUME CacheInv, NEW t \in Threads, t \in refs,
           NEW k \in Kinds, NEW e, NEW n, Found(t, k, e, n),
           UNCHANGED <<users, memctx, refs>>
    PROVE  CacheInv'
<1>1. PICK en \in Matches(k, e, n) :
           held' = [held EXCEPT ![t] = @ \union {en.type}]
    BY DEF Found
<1>2. en \in tables[k] /\ en.type \in Addr
    BY <1>1 DEF CacheInv, CacheTypeOK, Matches, Entry
<1>3. heap[en.type] # Free
    <2>1. heap[en.type] = [kind |-> k, elem |-> en.elem, arg |-> en.arg]
        BY <1>2 DEF CacheInv, TablesMatchArena
    <2>2. en \in Entry
        BY <1>2 DEF CacheInv, CacheTypeOK
    <2> QED
        BY <2>1, <2>2, FreeIsNoType DEF Entry, Type
<1> QED
    BY <1>1, <1>2, <1>3
    DEF Found, CacheInv, CacheTypeOK, UsersAreCounted, NoDanglingType,
        TypesAreCanonical, TablesMatchArena, OnlyUsersHold, Live

LEMMA MadeStep ==
    ASSUME CacheInv, NEW t \in Threads, t \in refs, NEW k \in Kinds,
           NEW e \in held[t] \union {Builtin}, NEW n \in Arg,
           Made(t, k, e, n), UNCHANGED <<users, memctx, refs>>
    PROVE  CacheInv'
<1> DEFINE new == [kind |-> k, elem |-> e, arg |-> n]
<1>0. e \in Addr \union {Builtin}
    BY DEF CacheInv, CacheTypeOK
<1>1. PICK a \in Addr :
          /\ heap[a] = Free
          /\ heap' = [heap EXCEPT ![a] = new]
          /\ tables' = [tables EXCEPT
                          ![k] = @ \union {[elem |-> e, arg |-> n, type |-> a]}]
          /\ held' = [held EXCEPT ![t] = @ \union {a}]
    BY DEF Made
<1>2. new \in Type /\ new # Free
    BY <1>0, FreeIsNoType DEF Type
<1>3. CacheTypeOK'
    BY <1>0, <1>1, <1>2 DEF CacheInv, CacheTypeOK, Entry
<1>4. \A b \in Addr : b # a => heap'[b] = heap[b]
    BY <1>1 DEF CacheInv, CacheTypeOK
<1>5. heap'[a] = new
    BY <1>1 DEF CacheInv, CacheTypeOK
<1>6. UsersAreCounted'
    BY DEF CacheInv, UsersAreCounted
<1>7. NoDanglingType'
    <2>1. \A u \in Threads : \A b \in held'[u] : Live(b)'
        BY <1>1, <1>2, <1>4, <1>5 DEF CacheInv, CacheTypeOK, NoDanglingType, Live
    <2>2. ASSUME NEW b \in Addr, Live(b)', heap'[b].elem # Builtin
          PROVE  heap'[heap'[b].elem] # Free
        <3>1. CASE b = a
            <4>1. heap'[b].elem = e /\ e \in held[t]
                BY <1>5, <2>2, <3>1
            <4> QED
                BY <4>1, <1>1, <1>2, <1>4, <1>5
                DEF CacheInv, CacheTypeOK, NoDanglingType, Live
        <3>2. CASE b # a
            <4>1. heap'[b] = heap[b] /\ Live(b)
                BY <1>4, <2>2, <3>2 DEF Live
            <4>2. Live(heap[b].elem) /\ heap[b].elem \in Addr
                BY <4>1, <2>2
                DEF CacheInv, CacheTypeOK, NoDanglingType, Type, Live
            <4> QED
                BY <4>1, <4>2, <1>2, <1>4, <1>5 DEF Live
        <3> QED
            BY <3>1, <3>2
    <2> QED
        BY <2>1, <2>2 DEF NoDanglingType, Live
<1>8. \A b \in Addr : Live(b) => heap[b] # new
    <2> SUFFICES ASSUME NEW b \in Addr, Live(b), heap[b] = new PROVE FALSE
        OBVIOUS
    <2>1. [elem |-> e, arg |-> n, type |-> b] \in tables[k]
        BY DEF CacheInv, TablesMatchArena
    <2> QED
        BY <2>1 DEF Made, Matches
<1>9. TypesAreCanonical'
    BY <1>2, <1>4, <1>5, <1>8
    DEF CacheInv, TypesAreCanonical, Live
<1>10. TablesMatchArena'
    <2>1. ASSUME NEW j \in Kinds, NEW en \in tables'[j]
          PROVE  heap'[en.type] = [kind |-> j, elem |-> en.elem, arg |-> en.arg]
        <3>1. CASE en \in tables[j]
            <4>1. heap[en.type] = [kind |-> j, elem |-> en.elem, arg |-> en.arg]
                BY <3>1 DEF CacheInv, TablesMatchArena
            <4>2. en \in Entry
                BY <3>1 DEF CacheInv, CacheTypeOK
            <4>3. en.type \in Addr /\ heap[en.type] \in Type
                BY <4>1, <4>2 DEF Entry, Type
            <4> QED
                BY <4>1, <4>3, <1>1, <1>4, FreeIsNoType
        <3>2. CASE en \notin tables[j]
            BY <3>2, <1>1, <1>5, <2>1 DEF CacheInv, CacheTypeOK
        <3> QED
            BY <3>1, <3>2
    <2>2. ASSUME NEW b \in Addr, Live(b)'
          PROVE  [elem |-> heap'[b].elem, arg |-> heap'[b].arg, type |-> b]
                    \in tables'[heap'[b].kind]
        <3>1. CASE b = a
            BY <3>1, <1>1, <1>5 DEF CacheInv, CacheTypeOK
        <3>2. CASE b # a
            <4>1. heap'[b] = heap[b] /\ Live(b)
                BY <1>4, <2>2, <3>2 DEF Live
            <4>2. heap[b].kind \in Kinds
                BY <4>1 DEF CacheInv, CacheTypeOK, Live, Type
            <4> QED
                BY <4>1, <4>2, <1>1 DEF CacheInv, CacheTypeOK, TablesMatchArena
        <3> QED
            BY <3>1, <3>2
    <2> QED
        BY <2>1, <2>2 DEF TablesMatchArena
<1>11. OnlyUsersHold'
    BY <1>1 DEF CacheInv, CacheTypeOK, OnlyUsersHold
<1> QED
    BY <1>3, <1>6, <1>7, <1>9, <1>10, <1>11 DEF CacheInv

LEMMA GetTypeStep ==
    ASSUME CacheInv, NEW t \in Threads, Obtain(t)
    PROVE  CacheInv'
<1>1. PICK k \in Kinds, e \in held[t] \union {Builtin}, n \in Arg :
          Intern(t, k, e, n)
    BY DEF Obtain, GetType, Kinds, glsl_explicit_matrix_type, glsl_array_type,
           glsl_cmat_type, glsl_struct_type, glsl_interface_type,
           glsl_subroutine_type
<1>2. t \in refs /\ UNCHANGED <<users, memctx, refs>>
    BY <1>1 DEF Obtain, Intern
<1>3. CASE Found(t, k, e, n)
    BY <1>2, <1>3, FoundStep
<1>4. CASE Made(t, k, e, n)
    BY <1>2, <1>4, MadeStep
<1> QED
    BY <1>1, <1>3, <1>4 DEF Intern

(* glsl_types.c: users is the number of conversions in progress; no        *)
(* conversion and no cached type points to released memory; structurally   *)
(* equal types are the same address.                                       *)
THEOREM CacheIsSound == CacheSpec => []CacheInv
<1>1. CacheInit => CacheInv
    <2> SUFFICES ASSUME CacheInit PROVE CacheInv
        OBVIOUS
    <2>1. Cardinality({}) = 0
        BY FS_EmptySet
    <2> QED
        BY <2>1 DEF CacheInit, CacheInv, CacheTypeOK, UsersAreCounted,
            NoDanglingType, TypesAreCanonical, TablesMatchArena,
            OnlyUsersHold, Live
<1>2. CacheInv /\ [CacheNext]_cacheVars => CacheInv'
    <2> SUFFICES ASSUME CacheInv, [CacheNext]_cacheVars PROVE CacheInv'
        OBVIOUS
    <2>1. CASE UNCHANGED cacheVars
        BY <2>1 DEF cacheVars, CacheInv, CacheTypeOK, UsersAreCounted,
            NoDanglingType, TypesAreCanonical, TablesMatchArena,
            OnlyUsersHold, Live
    <2> QED
        BY <2>1, RefStep, GetTypeStep, DropStep, DecrefStep DEF CacheNext
<1> QED
    BY <1>1, <1>2, PTL DEF CacheSpec

(* glsl_types.c: the count of users is the number of conversions that hold *)
(* a reference, and the arena lives exactly as long as there is one.       *)
THEOREM UsersKeepTheArena == CacheSpec => []UsersAreCounted
<1>1. CacheInv => UsersAreCounted
    BY DEF CacheInv
<1> QED
    BY <1>1, CacheIsSound, PTL

(* glsl_types.c: neither a conversion nor a type in the arena ever points  *)
(* to released memory.                                                     *)
THEOREM NothingDangles == CacheSpec => []NoDanglingType
<1>1. CacheInv => NoDanglingType
    BY DEF CacheInv
<1> QED
    BY <1>1, CacheIsSound, PTL

(* glsl_types.c: types of the same structure are the same address,         *)
(* whichever threads asked for them, and can always be found again.        *)
THEOREM EqualTypesAreOne == CacheSpec => [](TypesAreCanonical /\ TablesMatchArena)
<1>1. CacheInv => TypesAreCanonical /\ TablesMatchArena
    BY DEF CacheInv
<1> QED
    BY <1>1, CacheIsSound, PTL

(* glsl_types.c: while a conversion points to a type, no step of any       *)
(* thread releases the type or reuses its address.                         *)
THEOREM StableTypes == CacheSpec => HeldTypesAreStable
<1>1. ASSUME CacheInv, [CacheNext]_cacheVars,
             NEW t \in Threads, NEW a \in held[t]
      PROVE  heap'[a] = heap[a]
    <2>0. a \in Addr /\ Live(a)
        BY <1>1 DEF CacheInv, CacheTypeOK, NoDanglingType
    <2>1. CASE UNCHANGED cacheVars
        BY <2>1 DEF cacheVars
    <2>2. ASSUME NEW u \in Threads, Obtain(u) PROVE heap'[a] = heap[a]
        <3>1. PICK k \in Kinds, e \in held[u] \union {Builtin}, n \in Arg :
                  Intern(u, k, e, n)
            BY <2>2 DEF Obtain, GetType, Kinds, glsl_explicit_matrix_type,
               glsl_array_type, glsl_cmat_type, glsl_struct_type,
               glsl_interface_type, glsl_subroutine_type
        <3> QED
            BY <3>1, <2>0, <1>1
            DEF Intern, Found, Made, CacheInv, CacheTypeOK, Live
    <2>3. ASSUME NEW u \in Threads, Leave(u)
          PROVE  heap'[a] = heap[a]
        <3>1. t # u /\ t \in refs
            BY <1>1, <2>3 DEF CacheInv, OnlyUsersHold, Leave, glsl_type_singleton_decref
        <3>2. refs' # {}
            BY <3>1, <2>3 DEF Leave, glsl_type_singleton_decref
        <3>3. users - 1 # 0
            <4>1. refs \subseteq Threads /\ refs \ {u} \subseteq Threads
                BY <1>1 DEF CacheInv, CacheTypeOK
            <4>2. /\ Cardinality(refs \ {u}) = users - 1
                  /\ Cardinality(refs \ {u}) # 0
                BY <4>1, <3>2, <2>3, <1>1, RefsCount
                DEF CacheInv, UsersAreCounted, Leave, glsl_type_singleton_decref
            <4> QED
                BY <4>2
        <3> QED
            BY <3>3, <2>3 DEF Leave, glsl_type_singleton_decref
    <2> QED
        BY <1>1, <2>1, <2>2, <2>3
        DEF CacheNext, Enter, glsl_type_singleton_init_or_ref, DropTypes
<1>2. CacheInv /\ [CacheNext]_cacheVars =>
         [\A t \in Threads : \A a \in held[t] : heap'[a] = heap[a]]_cacheVars
    BY <1>1
<1> QED
    BY <1>2, CacheIsSound, PTL DEF CacheSpec, HeldTypesAreStable
-----------------------------------------------------------------------------
(* The steps that leave the cache alone, and the steps that use it.        *)
PrivateStep(t) == \/ Call(t) \/ RefuseStage(t) \/ Specialize(t)
                  \/ ParseSucceeds(t) \/ RefuseVersion(t) \/ StartContext(t)
                  \/ AllocateSysvalues(t) \/ SysvaluesFail(t)
                  \/ EmitModule(t) \/ EmitModuleFails(t)
                  \/ AddPart(t) \/ AddPartFails(t)
                  \/ WriteContainer(t) \/ WriteContainerFails(t) \/ Out(t)
                  \/ ReturnError(t) \/ ReturnSlice(t) \/ CallerFrees(t)

CacheStep(t) == \/ RefTypes(t) \/ UseTypes(t) \/ ParseFails(t)
                \/ CleanUpFailure(t) \/ Deliver(t) \/ UnrefTypes(t)

LEMMA StepKinds ==
    Next <=> \E t \in Threads : PrivateStep(t) \/ CacheStep(t)
    BY DEF Next, Proceed, PrivateStep, CacheStep

LEMMA PrivateStepsLeaveTheCache ==
    ASSUME NEW t \in Threads, PrivateStep(t)
    PROVE  UNCHANGED cacheVars
    BY DEF PrivateStep, Call, convert, RefuseStage, Specialize,
           ParseSucceeds, RefuseVersion, StartContext, AllocateSysvalues,
           SysvaluesFail, EmitModule, EmitModuleFails, AddPart, AddPartFails,
           WriteContainer, WriteContainerFails, Out, ReturnError,
           ReturnSlice, CallerFrees

(* A conversion that uses the cache does so by one of the four steps the   *)
(* cache allows: no second reference, no type without a reference, none    *)
(* still held when the reference is dropped.                               *)
LEMMA CacheStepsAreAllowed ==
    ASSUME IInv, NEW t \in Threads, CacheStep(t)
    PROVE  Enter(t) \/ Obtain(t) \/ DropTypes(t) \/ Leave(t)
<1> USE DEF IInv, ReferencesBalance, BeforeRef, PartPCs
<1>1. CASE RefTypes(t)
    BY <1>1 DEF RefTypes, Enter
<1>2. CASE UseTypes(t)
    BY <1>2 DEF UseTypes, Obtain
<1>3. CASE ParseFails(t) \/ CleanUpFailure(t) \/ Deliver(t)
    BY <1>3 DEF ParseFails, CleanUpFailure, Deliver
<1>4. CASE UnrefTypes(t)
    BY <1>4 DEF UnrefTypes, Leave, OnlyTheIRHolds
<1> QED
    BY <1>1, <1>2, <1>3, <1>4 DEF CacheStep

LEMMA StepsAreCacheSteps == IInv /\ [Next]_vars => [CacheNext]_cacheVars
    BY StepKinds, PrivateStepsLeaveTheCache, CacheStepsAreAllowed
    DEF CacheNext, vars

LEMMA UnchangedCache ==
    ASSUME CacheInv, UNCHANGED cacheVars
    PROVE  CacheInv'
    BY DEF cacheVars, CacheInv, CacheTypeOK, UsersAreCounted, NoDanglingType,
           TypesAreCanonical, TablesMatchArena, OnlyUsersHold, Live

LEMMA CacheInvStep ==
    ASSUME IInv, [Next]_vars
    PROVE  CacheInv'
<1>1. CacheInv /\ [CacheNext]_cacheVars
    BY StepsAreCacheSteps DEF IInv
<1> QED
    BY <1>1, UnchangedCache, RefStep, GetTypeStep, DropStep, DecrefStep
    DEF CacheNext

(* What a conversion owns and has lost, apart from the cache.              *)
CallInv == /\ pc \in [Threads -> PCs]
           /\ stage \in [Threads -> Stages]
           /\ owned \in [Threads -> SUBSET Resources]
           /\ lost \in [Threads -> SUBSET Resources]
           /\ OwnedInItsPlace
           /\ LossesAreBounded

(* A step that may or may not allocate r.                                  *)
LEMMA MayOwnMore ==
    ASSUME owned \in [Threads -> SUBSET Resources], NEW t \in Threads,
           NEW r \in Resources, \E S \in SUBSET {r} : Owns(t, S, {})
    PROVE  /\ owned' \in [Threads -> SUBSET Resources]
           /\ \A u \in Threads : u # t => owned'[u] = owned[u]
           /\ owned'[t] \subseteq owned[t] \union {r}
<1>1. PICK S \in SUBSET {r} : owned' = [owned EXCEPT ![t] = (@ \union S) \ {}]
    BY DEF Owns
<1>2. S \subseteq Resources /\ S \subseteq {r}
    OBVIOUS
<1> QED
    BY <1>1, <1>2

LEMMA CallInvStep ==
    ASSUME CallInv, NEW t \in Threads, PrivateStep(t) \/ CacheStep(t)
    PROVE  CallInv'
<1> USE DEF CallInv, OwnedInItsPlace, InsideContext, LossesAreBounded,
            MayBeLost, PartPCs, PCs, Resources, Goto
<1>1. CASE Call(t) \/ RefuseStage(t)
    BY <1>1 DEF Call, convert, RefuseStage, Owns
<1>2. CASE Specialize(t)
    <2>1. /\ owned' \in [Threads -> SUBSET Resources]
          /\ \A u \in Threads : u # t => owned'[u] = owned[u]
          /\ owned'[t] \subseteq owned[t] \union {"spec"}
        BY <1>2, MayOwnMore DEF Specialize
    <2>2. /\ pc[t] = "specialize"
          /\ pc' = [pc EXCEPT ![t] = "parse"]
          /\ UNCHANGED <<stage, lost>>
        BY <1>2 DEF Specialize
    <2> QED
        BY <2>1, <2>2
<1>3. CASE ParseSucceeds(t)
    BY <1>3 DEF ParseSucceeds, Owns
<1>4. CASE RefuseVersion(t)
    BY <1>4 DEF RefuseVersion
<1>5. CASE StartContext(t)
    BY <1>5 DEF StartContext, Owns
<1>6. CASE AllocateSysvalues(t)
    BY <1>6 DEF AllocateSysvalues
<1>7. CASE SysvaluesFail(t)
    <2>0. lost' = [lost EXCEPT ![t] = @ \union
                                 (owned[t] \intersect {"ctx", "ralloc"})]
        BY <1>7 DEF SysvaluesFail, Loses
    <2>1. /\ lost' \in [Threads -> SUBSET Resources]
          /\ LossesAreBounded'
        <3>1. lost'[t] \subseteq MayBeLost /\ MayBeLost \subseteq Resources
            BY <2>0
        <3>2. \A u \in Threads : u # t => lost'[u] = lost[u]
            BY <2>0
        <3>3. DOMAIN lost' = Threads /\ lost' = [u \in Threads |-> lost'[u]]
            BY <2>0
        <3> QED
            BY <3>1, <3>2, <3>3
    <2>2. pc' \in [Threads -> PCs]
        BY <1>7 DEF SysvaluesFail
    <2>3. /\ pc[t] = "sysvalues"
          /\ pc' = [pc EXCEPT ![t] = "ntd_failed"]
          /\ owned' = [owned EXCEPT ![t] = (@ \union {}) \ {"ctx", "ralloc"}]
          /\ stage' = stage
        BY <1>7 DEF SysvaluesFail, Owns
    <2>4. owned' \in [Threads -> SUBSET Resources] /\ OwnedInItsPlace'
        BY <2>3
    <2> QED
        BY <2>1, <2>2, <2>3, <2>4
<1>8. CASE EmitModule(t)
    BY <1>8 DEF EmitModule, Owns
<1>9. CASE EmitModuleFails(t)
    <2>1. /\ owned' \in [Threads -> SUBSET Resources]
          /\ \A u \in Threads : u # t => owned'[u] = owned[u]
          /\ owned'[t] \subseteq owned[t] \union {"modbuf"}
        BY <1>9, MayOwnMore DEF EmitModuleFails
    <2>2. /\ pc[t] = "emit"
          /\ pc' = [pc EXCEPT ![t] = "out_fail"]
          /\ UNCHANGED <<stage, lost>>
        BY <1>9 DEF EmitModuleFails
    <2> QED
        BY <2>1, <2>2
<1>10. CASE AddPart(t)
    <2>1. NextPart(pc[t], stage[t]) \in PartPCs \union {"write"}
        BY <1>10 DEF AddPart, NextPart
    <2> QED
        BY <1>10, <2>1 DEF AddPart, Owns
<1>11. CASE AddPartFails(t)
    <2>1. /\ owned' \in [Threads -> SUBSET Resources]
          /\ \A u \in Threads : u # t => owned'[u] = owned[u]
          /\ owned'[t] \subseteq owned[t] \union {"parts"}
        BY <1>11, MayOwnMore DEF AddPartFails
    <2>2. /\ pc[t] \in PartPCs
          /\ pc' = [pc EXCEPT ![t] = "out_fail"]
          /\ UNCHANGED <<stage, lost>>
        BY <1>11 DEF AddPartFails
    <2> QED
        BY <2>1, <2>2
<1>12. CASE WriteContainer(t)
    BY <1>12 DEF WriteContainer, Owns
<1>13. CASE WriteContainerFails(t)
    <2>1. /\ owned' \in [Threads -> SUBSET Resources]
          /\ \A u \in Threads : u # t => owned'[u] = owned[u]
          /\ owned'[t] \subseteq owned[t] \union {"blob"}
        BY <1>13, MayOwnMore DEF WriteContainerFails
    <2>2. /\ pc[t] = "write"
          /\ pc' = [pc EXCEPT ![t] = "out_fail"]
          /\ UNCHANGED <<stage, lost>>
        BY <1>13 DEF WriteContainerFails
    <2> QED
        BY <2>1, <2>2
<1>14. CASE Out(t)
    BY <1>14 DEF Out, ReleasedAtOut, Owns, Loses
<1>15. CASE ReturnError(t)
    BY <1>15 DEF ReturnError, Owns
<1>16. CASE ReturnSlice(t)
    BY <1>16 DEF ReturnSlice, Owns
<1>17. CASE CallerFrees(t)
    BY <1>17 DEF CallerFrees, Owns
<1>18. CASE RefTypes(t)
    BY <1>18 DEF RefTypes
<1>19. CASE UseTypes(t)
    BY <1>19 DEF UseTypes, callVars
<1>20. CASE ParseFails(t)
    BY <1>20 DEF ParseFails, Owns
<1>21. CASE CleanUpFailure(t)
    BY <1>21 DEF CleanUpFailure, ReleasedOnFailure, Owns
<1>22. CASE Deliver(t)
    BY <1>22 DEF Deliver, Owns, Loses
<1>23. CASE UnrefTypes(t)
    BY <1>23 DEF UnrefTypes
<1> QED
    BY <1>1, <1>2, <1>3, <1>4, <1>5, <1>6, <1>7, <1>8, <1>9, <1>10, <1>11,
       <1>12, <1>13, <1>14, <1>15, <1>16, <1>17, <1>18, <1>19, <1>20,
       <1>21, <1>22, <1>23
    DEF PrivateStep, CacheStep

LEMMA InductiveStep == IInv /\ [Next]_vars => IInv'
<1> SUFFICES ASSUME IInv, [Next]_vars PROVE IInv'
    OBVIOUS
<1>1. CacheInv' /\ CacheTypeOK'
    BY CacheInvStep DEF CacheInv
<1>2. CASE UNCHANGED vars
    BY <1>1, <1>2 DEF vars, callVars, cacheVars, IInv, TypeOK,
       ReferencesBalance, OnlyTheIRHolds, OwnedInItsPlace, LossesAreBounded
<1>3. ASSUME NEW t \in Threads, PrivateStep(t) \/ CacheStep(t)
      PROVE  IInv'
    <2>1. CallInv /\ CacheTypeOK
        BY DEF IInv, TypeOK, CallInv
    <2>2. CallInv'
        BY <2>1, <1>3, CallInvStep
    <2>3. ReferencesBalance' /\ OnlyTheIRHolds'
        <3> USE DEF IInv, ReferencesBalance, OnlyTheIRHolds, BeforeRef,
                    CallInv, CacheTypeOK, PCs, PartPCs, Goto
        <3>1. CASE PrivateStep(t)
            <4>1. refs' = refs /\ held' = held
                BY <3>1, PrivateStepsLeaveTheCache DEF cacheVars
            <4>2. /\ \A u \in Threads : u # t => pc'[u] = pc[u]
                  /\ pc'[t] \in BeforeRef <=> pc[t] \in BeforeRef
                  /\ pc'[t] \in BeforeRef \union {"specialize", "unref_ok",
                                                "unref_fail"}
                        => pc[t] \in BeforeRef \union {"specialize",
                                        "unref_ok", "unref_fail"}
                BY <3>1, <2>1 DEF PrivateStep, Call, convert, RefuseStage,
                   Specialize, ParseSucceeds, RefuseVersion, StartContext,
                   AllocateSysvalues, SysvaluesFail, EmitModule,
                   EmitModuleFails, AddPart, NextPart, AddPartFails,
                   WriteContainer, WriteContainerFails, Out, ReturnError,
                   ReturnSlice, CallerFrees
            <4> QED
                BY <4>1, <4>2, <2>1
        <3>2. CASE RefTypes(t)
            BY <3>2, <2>1 DEF RefTypes, glsl_type_singleton_init_or_ref
        <3>3. CASE UseTypes(t)
            <4>1. /\ refs' = refs /\ pc' = pc
                  /\ \A u \in Threads : u # t => held'[u] = held[u]
                BY <3>3, <2>1 DEF UseTypes, callVars, GetType,
                   glsl_explicit_matrix_type, glsl_array_type, glsl_cmat_type,
                   glsl_struct_type, glsl_interface_type,
                   glsl_subroutine_type, Intern, Found, Made
            <4> QED
                BY <4>1, <3>3, <2>1 DEF UseTypes
        <3>4. CASE ParseFails(t)
            BY <3>4, <2>1 DEF ParseFails, DropTypes
        <3>5. CASE CleanUpFailure(t)
            BY <3>5, <2>1 DEF CleanUpFailure, DropTypes
        <3>6. CASE Deliver(t)
            BY <3>6, <2>1 DEF Deliver, DropTypes
        <3>7. CASE UnrefTypes(t)
            BY <3>7, <2>1 DEF UnrefTypes, glsl_type_singleton_decref
        <3> QED
            BY <1>3, <3>1, <3>2, <3>3, <3>4, <3>5, <3>6, <3>7 DEF CacheStep
    <2> QED
        BY <1>1, <2>2, <2>3 DEF IInv, TypeOK, CallInv
<1> QED
    BY <1>2, <1>3, StepKinds

(* The inductive invariant holds in every reachable state.                 *)
THEOREM Invariance == Spec => []IInv
<1>1. Init => IInv
    <2>1. Init => CacheInv
        <3> SUFFICES ASSUME CacheInit PROVE CacheInv
            BY DEF Init
        <3>1. Cardinality({}) = 0
            BY FS_EmptySet
        <3> QED
            BY <3>1 DEF CacheInit, CacheInv, CacheTypeOK, UsersAreCounted,
               NoDanglingType, TypesAreCanonical, TablesMatchArena,
               OnlyUsersHold, Live
    <2>2. Init => ReferencesBalance /\ OnlyTheIRHolds /\ OwnedInItsPlace
                     /\ LossesAreBounded
        BY DEF Init, CacheInit, ReferencesBalance, BeforeRef, OnlyTheIRHolds,
           OwnedInItsPlace, LossesAreBounded
    <2>3. Init => TypeOK
        BY <2>1 DEF Init, TypeOK, CacheInv, PCs, Stages
    <2> QED
        BY <2>1, <2>2, <2>3 DEF IInv
<1> QED
    BY <1>1, InductiveStep, PTL DEF Spec

(* spirv_to_dxil.c: on every path, the early returns included, a           *)
(* conversion holds one reference to the type cache from init_or_ref to    *)
(* the decref that precedes its return.                                    *)
THEOREM Balanced == Spec => []ReferencesBalance
<1>1. IInv => ReferencesBalance
    BY DEF IInv
<1> QED
    BY <1>1, Invariance, PTL

(* spirv_to_dxil.zig: when convert() has returned, with a result or with   *)
(* an error of any of its callees, the slice is all that is still owned.   *)
THEOREM OnlyTheSlice == Spec => []OnlyTheSliceRemains
<1>1. IInv => OnlyTheSliceRemains
    <2> SUFFICES ASSUME IInv, NEW t \in Threads, pc[t] = "idle"
                 PROVE owned[t] \subseteq {"slice"}
        BY DEF OnlyTheSliceRemains
    <2>1. owned[t] \subseteq Resources
        BY DEF IInv, TypeOK
    <2>2. \A r \in Resources \ {"slice"} : r \notin owned[t]
        BY DEF IInv, OwnedInItsPlace, InsideContext, PartPCs, Resources
    <2> QED
        BY <2>1, <2>2
<1> QED
    BY <1>1, Invariance, PTL

(* nir_to_dxil.c, spirv_to_dxil.c: what a conversion can leak is bounded   *)
(* to the context, its ralloc context, the parts blob and the container;   *)
(* the IR, the copy of the input, the bitcode buffer and the binary are    *)
(* released on every path.                                                 *)
THEOREM LeaksAreBounded == Spec => []LossesAreBounded
<1>1. IInv => LossesAreBounded
    BY DEF IInv
<1> QED
    BY <1>1, Invariance, PTL

(* spirv_to_dxil.c: conversions implement the protocol of the type cache:  *)
(* every step of every conversion is one that the cache allows, or none of *)
(* its business.                                                           *)
THEOREM Obedience == Spec => ObeysTheCache
<1>1. Init => CacheInit
    BY DEF Init
<1> QED
    BY <1>1, StepsAreCacheSteps, Invariance, PTL
    DEF Spec, ObeysTheCache, CacheSpec

(* glsl_types.c under spirv_to_dxil.c: whatever conversions run at the     *)
(* same time, none ever points to released memory, the cache counts them,  *)
(* and equal types are one address.                                        *)
THEOREM ConversionsNeverDangle ==
    Spec => [](UsersAreCounted /\ NoDanglingType /\ TypesAreCanonical)
    BY Obedience, UsersKeepTheArena, NothingDangles, EqualTypesAreOne, PTL
    DEF ObeysTheCache
=============================================================================
