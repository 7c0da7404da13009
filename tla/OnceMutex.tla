------------------------------ MODULE OnceMutex ------------------------------
(***************************************************************************)
(* simple_mtx_t on systems without a futex (mesa/src/util/simple_mtx.h and *)
(* simple_mtx.c, UTIL_FUTEX_SUPPORTED = 0), the variant build.zig selects  *)
(* on Linux, macOS and Windows: a mtx_t that the first caller initialises  *)
(* through util_call_once_data (mesa/src/util/u_call_once.h, .c).          *)
(*                                                                         *)
(* `called' is util_once_flag.called, read with relaxed ordering and       *)
(* written with release ordering; `once' the once_flag of call_once.  The  *)
(* relaxed read does not synchronise with the release store, so a thread   *)
(* that skips call_once may, on a machine that reorders loads, still see   *)
(* the mtx_t as it was before mtx_init: `sees' holds the pairs for which   *)
(* the initialisation is visible.  loadsInOrder says which machine it is.  *)
(***************************************************************************)
EXTENDS Integers, FiniteSets

CONSTANTS
    Threads, Mutexes, NULL,
    Machines    \* TRUE: one that keeps loads in order, FALSE: one that may not

ASSUME MachinesAreBoolean == Machines \subseteq BOOLEAN
ASSUME NullIsNoMutex == NULL \notin Mutexes

VARIABLES
    called,     \* [Mutexes -> BOOLEAN]: util_once_flag.called
    once,       \* [Mutexes -> {"new", "running", "done"}]: the once_flag
    ready,      \* the mutexes mtx_init has been called on
    owner,      \* [Mutexes -> SUBSET Threads]: who holds the mtx_t
    context,    \* the thread-local call_once_context.data, NULL at first
    sees,       \* subset of Threads \X Mutexes: mtx_init is visible
    pc, mtx,    \* where each thread is, and the argument of its call
    loadsInOrder    \* the machine; never changes

vars == <<called, once, ready, owner, context, sees, pc, mtx, loadsInOrder>>

PCs == {"idle", "context", "once", "init", "set", "lock", "crit", "broken"}

Init == /\ called = [m \in Mutexes |-> FALSE]
        /\ once = [m \in Mutexes |-> "new"]
        /\ ready = {}
        /\ owner = [m \in Mutexes |-> {}]
        /\ context = [t \in Threads |-> NULL]
        /\ sees = {}
        /\ pc = [t \in Threads |-> "idle"]
        /\ mtx \in {[t \in Threads |-> m] : m \in Mutexes}
        /\ loadsInOrder \in Machines

Goto(t, l) == pc' = [pc EXCEPT ![t] = l]

(* p_atomic_read_relaxed(&flag->called) at the head of simple_mtx_lock     *)
ReadCalledFalse(t, m) ==
    /\ pc[t] = "idle"
    /\ ~ called[m]
    /\ mtx' = [mtx EXCEPT ![t] = m]
    /\ Goto(t, "context")
    /\ UNCHANGED <<called, once, ready, owner, context, sees>>

ReadCalledTrue(t, m) ==
    /\ pc[t] = "idle"
    /\ called[m]
    /\ mtx' = [mtx EXCEPT ![t] = m]
    /\ sees' \in IF loadsInOrder THEN {sees \union {<<t, m>>}}
                                 ELSE {sees, sees \union {<<t, m>>}}
    /\ Goto(t, "lock")
    /\ UNCHANGED <<called, once, ready, owner, context>>

(* Mutant: the argument is not stored.                                     *)
StoreContextForgotten(t) ==
    /\ pc[t] = "context"
    /\ Goto(t, "once")
    /\ UNCHANGED <<called, once, ready, owner, context, sees, mtx>>

(* util_call_once_data_slow stores its arguments in thread-local storage.  *)
StoreContext(t) ==
    /\ pc[t] = "context"
    /\ context' = [context EXCEPT ![t] = mtx[t]]
    /\ Goto(t, "once")
    /\ UNCHANGED <<called, once, ready, owner, sees, mtx>>

(* Mutant: the flag is tested and set without the lock of pthread_once, so *)
(* a second caller may start the function while it runs.                   *)
CallOnceRaces(t) ==
    /\ pc[t] = "once"
    /\ once[mtx[t]] # "done"
    /\ once' = [once EXCEPT ![mtx[t]] = "running"]
    /\ Goto(t, "init")
    /\ UNCHANGED <<called, ready, owner, context, sees, mtx>>

(* call_once (pthread_once): the first caller runs the function, callers   *)
(* that come while it runs block, and all that return see what it wrote.   *)
CallOnceFirst(t) ==
    /\ pc[t] = "once"
    /\ once[mtx[t]] = "new"
    /\ once' = [once EXCEPT ![mtx[t]] = "running"]
    /\ Goto(t, "init")
    /\ UNCHANGED <<called, ready, owner, context, sees, mtx>>

CallOnceDone(t) ==
    /\ pc[t] = "once"
    /\ once[mtx[t]] = "done"
    /\ sees' = sees \union {<<t, mtx[t]>>}
    /\ Goto(t, "set")
    /\ UNCHANGED <<called, once, ready, owner, context, mtx>>

(* The mutex util_call_once_data_slow_once passes to                       *)
(* _simple_mtx_plain_init_once.                                            *)
OnceArgument(t) == context[t]

RunOnce(t) ==
    /\ pc[t] = "init"
    /\ ready' = ready \union {OnceArgument(t)}
    /\ owner' = [owner EXCEPT ![OnceArgument(t)] = {}]   \* mtx_init resets it
    /\ once' = [once EXCEPT ![mtx[t]] = "done"]
    /\ sees' = sees \union {<<t, OnceArgument(t)>>}
    /\ Goto(t, "set")
    /\ UNCHANGED <<called, context, mtx>>

(* p_atomic_set(&flag->called, true)                                       *)
SetCalled(t) ==
    /\ pc[t] = "set"
    /\ called' = [called EXCEPT ![mtx[t]] = TRUE]
    /\ Goto(t, "lock")
    /\ UNCHANGED <<once, ready, owner, context, sees, mtx>>

(* mtx_lock on an initialised mutex waits until it is free.  On memory in  *)
(* which the initialisation is not visible it fails or pretends to         *)
(* succeed; simple_mtx_lock ignores the result and returns either way.     *)
MtxLock(t) ==
    /\ pc[t] = "lock"
    /\ <<t, mtx[t]>> \in sees
    /\ owner[mtx[t]] = {}
    /\ owner' = [owner EXCEPT ![mtx[t]] = {t}]
    /\ Goto(t, "crit")
    /\ UNCHANGED <<called, once, ready, context, sees, mtx>>

MtxLockUninitialised(t) ==
    /\ pc[t] = "lock"
    /\ <<t, mtx[t]>> \notin sees
    /\ Goto(t, "broken")
    /\ UNCHANGED <<called, once, ready, owner, context, sees, mtx>>

(* Mutant: a path returns without the unlock.                              *)
MtxUnlockForgotten(t) ==
    /\ pc[t] \in {"crit", "broken"}
    /\ Goto(t, "idle")
    /\ UNCHANGED <<called, once, ready, owner, context, sees, mtx>>

(* simple_mtx_unlock: the flag this thread has read or written is set, so  *)
(* only mtx_unlock remains.                                                *)
MtxUnlock(t) ==
    /\ pc[t] \in {"crit", "broken"}
    /\ owner' = [owner EXCEPT ![mtx[t]] = @ \ {t}]
    /\ Goto(t, "idle")
    /\ UNCHANGED <<called, once, ready, context, sees, mtx>>

Arrive(t) == \E m \in Mutexes : ReadCalledFalse(t, m) \/ ReadCalledTrue(t, m)

Proceed(t) == \/ StoreContext(t)
              \/ CallOnceFirst(t)
              \/ CallOnceDone(t)
              \/ RunOnce(t)
              \/ SetCalled(t)
              \/ MtxLock(t)
              \/ MtxLockUninitialised(t)
              \/ MtxUnlock(t)

Next == /\ \E t \in Threads : Arrive(t) \/ Proceed(t)
        /\ UNCHANGED loadsInOrder

Spec == Init /\ [][Next]_vars

(* pthread_once and pthread_mutex_lock block without spinning, and a       *)
(* thread that can run is eventually run.                                  *)
Fairness == \A t \in Threads : WF_vars(Proceed(t) /\ UNCHANGED loadsInOrder)

FairSpec == Spec /\ Fairness
-----------------------------------------------------------------------------
TypeOK == /\ called \in [Mutexes -> BOOLEAN]
          /\ once \in [Mutexes -> {"new", "running", "done"}]
          /\ ready \subseteq Mutexes
          /\ owner \in [Mutexes -> SUBSET Threads]
          /\ context \in [Threads -> Mutexes \union {NULL}]
          /\ sees \subseteq Threads \X Mutexes
          /\ pc \in [Threads -> PCs]
          /\ mtx \in [Threads -> Mutexes]
          /\ loadsInOrder \in Machines

Inside(m) == {t \in Threads : pc[t] \in {"crit", "broken"} /\ mtx[t] = m}

(* On a machine that keeps loads in order, at most one thread is between   *)
(* simple_mtx_lock and simple_mtx_unlock of a mutex, even when several     *)
(* threads race to initialise it.                                          *)
MutualExclusion ==
    loadsInOrder => \A m \in Mutexes : \A t, u \in Inside(m) : t = u

(* "when the func function are already called and finished": a thread that *)
(* is past _simple_mtx_init_with_once only ever touches a mtx_t on which   *)
(* mtx_init has finished, as that thread sees it.                          *)
CalledMeansFinished ==
    \A t \in Threads : pc[t] \in {"lock", "crit", "broken"} =>
        mtx[t] \in ready /\ <<t, mtx[t]>> \in sees

(* What the comment says is true on a machine that keeps loads in order:   *)
(* every thread that util_call_once_data lets through sees the mutex       *)
(* initialised, whichever thread has run the initialiser.                  *)
FinishedInOrder == loadsInOrder => CalledMeansFinished

(* mtx_init is never called a second time, nor on a mutex in use: a late   *)
(* initialiser would unlock a mutex somebody holds.                        *)
InitOnlyOnce ==
    [][\A t \in Threads : RunOnce(t) => OnceArgument(t) \notin ready]_vars

(* Nobody but the thread that call_once lets in is at mtx_init, a flag is  *)
(* only set behind it, and the argument it finds is that of its own call.  *)
InitialiserIsAlone ==
    /\ \A t \in Threads : pc[t] = "init" => once[mtx[t]] = "running"
    /\ \A t, u \in Threads :
          pc[t] = "init" /\ pc[u] = "init" /\ mtx[t] = mtx[u] => t = u
    /\ \A m \in Mutexes : once[m] = "done" <=> m \in ready
    /\ \A t \in Threads : pc[t] \in {"once", "init"} => context[t] = mtx[t]

FlagMeansReady ==
    /\ \A m \in Mutexes : called[m] => m \in ready
    /\ \A t \in Threads : pc[t] \in {"set", "lock", "crit", "broken"}
                              => mtx[t] \in ready
    /\ \A t \in Threads : pc[t] \in {"set", "crit"} => <<t, mtx[t]>> \in sees

(* A mutex is held by the threads behind mtx_lock, and by none before it   *)
(* is initialised.                                                         *)
HoldersAreInside ==
    \A m \in Mutexes : \A t \in Threads :
       t \in owner[m] <=> pc[t] = "crit" /\ mtx[t] = m

OneHolder == \A m \in Mutexes : \A t, u \in owner[m] : t = u

(* Where loads keep their order no mtx_lock meets an uninitialised mtx_t.  *)
NobodyIsBroken == loadsInOrder => \A t \in Threads : pc[t] # "broken"

(* The inductive invariant, on either kind of machine.                     *)
IInv == /\ TypeOK
        /\ InitialiserIsAlone
        /\ FlagMeansReady
        /\ HoldersAreInside
        /\ OneHolder
        /\ NobodyIsBroken
        /\ FinishedInOrder

(* If threads stop calling simple_mtx_lock, all calls in progress return:  *)
(* no thread is left blocked in call_once or mtx_lock.                     *)
DrainsWhenQuiet ==
    <>[][\A t \in Threads : ~ Arrive(t)]_vars
       => <>[](\A t \in Threads : pc[t] = "idle")
=============================================================================
