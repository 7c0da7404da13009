--------------------------- MODULE FutexMutexProofs ---------------------------
(***************************************************************************)
(* For every set of threads: the futex build of simple_mtx_t excludes,     *)
(* loses no wake-up, and implements the abstract mutex.                    *)
(***************************************************************************)
EXTENDS FutexMutex, TLAPS

(* Every step of every thread preserves the inductive invariant.           *)
LEMMA InductiveStep == IInv /\ [Next]_vars => IInv'
<1> SUFFICES ASSUME IInv, [Next]_vars PROVE IInv'
    OBVIOUS
<1> USE DEF IInv, TypeOK, MutualExclusion, WordTellsOwner, NoLostWakeup,
            Owns, Owners, Sleepers, PCs, Goto
<1>1. ASSUME NEW t \in Threads, CmpxchgTakes(t) PROVE IInv'
    BY <1>1 DEF CmpxchgTakes
<1>2. ASSUME NEW t \in Threads, CmpxchgFails(t) PROVE IInv'
    BY <1>2 DEF CmpxchgFails
<1>3. ASSUME NEW t \in Threads, Xchg(t) PROVE IInv'
    BY <1>3 DEF Xchg
<1>4. ASSUME NEW t \in Threads, FutexWait(t) PROVE IInv'
    BY <1>4 DEF FutexWait, FutexWaitAsleep
<1>5. ASSUME NEW t \in Threads, FetchAdd(t) PROVE IInv'
    BY <1>5 DEF FetchAdd, AfterFetchAdd
<1>6. ASSUME NEW t \in Threads, StoreZero(t) PROVE IInv'
    BY <1>6 DEF StoreZero
<1>7. ASSUME NEW t \in Threads, WakeOne(t) PROVE IInv'
    BY <1>7 DEF WakeOne
<1>8. ASSUME NEW t \in Threads, WakeNone(t) PROVE IInv'
    BY <1>8 DEF WakeNone
<1>9. ASSUME NEW t \in Threads, SpuriousWakeup(t) PROVE IInv'
    BY <1>9 DEF SpuriousWakeup
<1>10. CASE UNCHANGED vars
    BY <1>10 DEF vars
<1> QED
    BY <1>1, <1>2, <1>3, <1>4, <1>5, <1>6, <1>7, <1>8, <1>9, <1>10
    DEF Next, Arrive, Proceed

(* The inductive invariant holds in every reachable state.                 *)
THEOREM Invariance == Spec => []IInv
<1>1. Init => IInv
    BY DEF Init, IInv, TypeOK, MutualExclusion, WordTellsOwner, NoLostWakeup,
           Owns, Owners, Sleepers, PCs
<1> QED
    BY <1>1, InductiveStep, PTL DEF Spec

(* simple_mtx.h: the word stays within 0..2 and at most one thread is      *)
(* between lock and unlock, whatever the number of threads.                *)
THEOREM Exclusion == Spec => [](TypeOK /\ MutualExclusion)
<1>1. IInv => TypeOK /\ MutualExclusion
    BY DEF IInv
<1> QED
    BY <1>1, Invariance, PTL

(* simple_mtx.h: no thread sleeps in futex_wait unless the word or another *)
(* thread guarantees that it will be woken.                                *)
THEOREM WakeupsAreKept == Spec => []NoLostWakeup
<1>1. IInv => NoLostWakeup
    BY DEF IInv
<1> QED
    BY <1>1, Invariance, PTL

(* simple_mtx.h: lock and unlock implement the abstract mutex, with the    *)
(* owners as its state.                                                    *)
THEOREM Refinement == Spec => ImplementsMutex
<1>1. Init => Abs!Init
    BY DEF Init, Abs!Init, Owners, Owns
<1>2. IInv /\ [Next]_vars => [Abs!Next]_Owners
    <2> SUFFICES ASSUME IInv, [Next]_vars PROVE [Abs!Next]_Owners
        OBVIOUS
    <2> USE DEF IInv, TypeOK, WordTellsOwner, MutualExclusion, Owns, Owners,
                Goto, PCs
    <2>1. ASSUME NEW t \in Threads, CmpxchgTakes(t) PROVE Abs!Acquire(t)
        BY <2>1 DEF CmpxchgTakes, Abs!Acquire
    <2>2. ASSUME NEW t \in Threads, Xchg(t)
          PROVE Abs!Acquire(t) \/ Owners' = Owners
        BY <2>2 DEF Xchg, Abs!Acquire
    <2>3. ASSUME NEW t \in Threads, FetchAdd(t)
          PROVE Abs!Release(t) \/ Owners' = Owners
        BY <2>3 DEF FetchAdd, AfterFetchAdd, Abs!Release
    <2>4. ASSUME NEW t \in Threads, StoreZero(t) PROVE Abs!Release(t)
        BY <2>4 DEF StoreZero, Abs!Release
    <2>5. ASSUME NEW t \in Threads,
                 \/ CmpxchgFails(t) \/ FutexWait(t) \/ WakeOne(t)
                 \/ WakeNone(t) \/ SpuriousWakeup(t)
          PROVE Owners' = Owners
        BY <2>5 DEF CmpxchgFails, FutexWait, FutexWaitAsleep, WakeOne,
                    WakeNone, SpuriousWakeup, Sleepers
    <2>6. CASE UNCHANGED vars
        BY <2>6 DEF vars
    <2> QED
        BY <2>1, <2>2, <2>3, <2>4, <2>5, <2>6
        DEF Next, Arrive, Proceed, Abs!Next
<1> QED
    BY <1>1, <1>2, Invariance, PTL DEF Spec, ImplementsMutex, Abs!Spec
=============================================================================
