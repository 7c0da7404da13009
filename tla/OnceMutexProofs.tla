--------------------------- MODULE OnceMutexProofs ---------------------------
(***************************************************************************)
(* For every set of threads and mutexes and either kind of machine: the    *)
(* initialisation of simple_mtx_t through util_call_once_data happens once *)
(* and before every use.                                                   *)
(***************************************************************************)
EXTENDS OnceMutex, TLAPS

(* Every step of every thread preserves the inductive invariant.           *)
LEMMA InductiveStep == IInv /\ [Next]_vars => IInv'
<1> SUFFICES ASSUME IInv, [Next]_vars PROVE IInv'
    OBVIOUS
<1> USE MachinesAreBoolean, NullIsNoMutex
    DEF IInv, TypeOK, InitialiserIsAlone, FlagMeansReady, HoldersAreInside,
        OneHolder, NobodyIsBroken, FinishedInOrder, CalledMeansFinished,
        PCs, Goto
<1>1. ASSUME NEW t \in Threads, NEW m \in Mutexes, ReadCalledFalse(t, m),
             UNCHANGED loadsInOrder
      PROVE IInv'
    BY <1>1 DEF ReadCalledFalse
<1>2. ASSUME NEW t \in Threads, NEW m \in Mutexes, ReadCalledTrue(t, m),
             UNCHANGED loadsInOrder
      PROVE IInv'
    BY <1>2 DEF ReadCalledTrue
<1>3. ASSUME NEW t \in Threads, StoreContext(t), UNCHANGED loadsInOrder
      PROVE IInv'
    BY <1>3 DEF StoreContext
<1>4. ASSUME NEW t \in Threads, CallOnceFirst(t), UNCHANGED loadsInOrder
      PROVE IInv'
    BY <1>4 DEF CallOnceFirst
<1>5. ASSUME NEW t \in Threads, CallOnceDone(t), UNCHANGED loadsInOrder
      PROVE IInv'
    BY <1>5 DEF CallOnceDone
<1>6. ASSUME NEW t \in Threads, RunOnce(t), UNCHANGED loadsInOrder
      PROVE IInv'
    BY <1>6 DEF RunOnce, OnceArgument
<1>7. ASSUME NEW t \in Threads, SetCalled(t), UNCHANGED loadsInOrder
      PROVE IInv'
    BY <1>7 DEF SetCalled
<1>8. ASSUME NEW t \in Threads, MtxLock(t), UNCHANGED loadsInOrder
      PROVE IInv'
    <2>1. owner' = [owner EXCEPT ![mtx[t]] = {t}] /\ owner[mtx[t]] = {}
        BY <1>8 DEF MtxLock
    <2>2. TypeOK' /\ OneHolder'
        BY <1>8, <2>1 DEF MtxLock
    <2>3. HoldersAreInside'
        BY <1>8, <2>1 DEF MtxLock
    <2>4. InitialiserIsAlone' /\ FlagMeansReady' /\ NobodyIsBroken'
             /\ FinishedInOrder'
        BY <1>8 DEF MtxLock
    <2> QED
        BY <2>2, <2>3, <2>4
<1>9. ASSUME NEW t \in Threads, MtxLockUninitialised(t),
             UNCHANGED loadsInOrder
      PROVE IInv'
    BY <1>9 DEF MtxLockUninitialised
<1>10. ASSUME NEW t \in Threads, MtxUnlock(t), UNCHANGED loadsInOrder
       PROVE IInv'
    BY <1>10 DEF MtxUnlock
<1>11. CASE UNCHANGED vars
    BY <1>11 DEF vars
<1> QED
    BY <1>1, <1>2, <1>3, <1>4, <1>5, <1>6, <1>7, <1>8, <1>9, <1>10, <1>11
    DEF Next, Arrive, Proceed

(* The inductive invariant holds in every reachable state.                 *)
THEOREM Invariance == Spec => []IInv
<1>1. Init => IInv
    BY DEF Init, IInv, TypeOK, InitialiserIsAlone, FlagMeansReady,
           HoldersAreInside, OneHolder, NobodyIsBroken, FinishedInOrder,
           CalledMeansFinished, PCs
<1> QED
    BY <1>1, InductiveStep, PTL DEF Spec

(* simple_mtx.h, u_call_once.h: on a machine that keeps loads in order,    *)
(* every thread that util_call_once_data lets through sees the mutex       *)
(* initialised, for any number of threads that race to do it.              *)
THEOREM FinishedBeforeUse == Spec => []FinishedInOrder
<1>1. IInv => FinishedInOrder
    BY DEF IInv
<1> QED
    BY <1>1, Invariance, PTL

(* simple_mtx.h: on a machine that keeps loads in order at most one thread *)
(* is between lock and unlock of a mutex.                                  *)
THEOREM Exclusion == Spec => []MutualExclusion
<1>1. IInv => MutualExclusion
    <2> SUFFICES ASSUME IInv, loadsInOrder,
                        NEW m \in Mutexes, NEW t \in Inside(m),
                        NEW u \in Inside(m)
                 PROVE t = u
        BY DEF MutualExclusion
    <2>1. t \in owner[m] /\ u \in owner[m]
        BY DEF IInv, HoldersAreInside, NobodyIsBroken, Inside
    <2> QED
        BY <2>1 DEF IInv, OneHolder
<1> QED
    BY <1>1, Invariance, PTL

(* u_call_once.c: mtx_init is called at most once on a mutex, so it never  *)
(* unlocks one that somebody holds.                                        *)
THEOREM InitialisedOnce == Spec => InitOnlyOnce
<1>1. IInv /\ [Next]_vars
        => [\A t \in Threads : RunOnce(t) => OnceArgument(t) \notin ready]_vars
    BY DEF IInv, TypeOK, InitialiserIsAlone, RunOnce, OnceArgument
<1> QED
    BY <1>1, Invariance, PTL DEF Spec, InitOnlyOnce
=============================================================================
