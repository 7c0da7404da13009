------------------------------ MODULE FutexMutex ------------------------------
(***************************************************************************)
(* simple_mtx_t on systems with a futex (mesa/src/util/simple_mtx.h,       *)
(* UTIL_FUTEX_SUPPORTED = 1): a 32-bit word that is 0 when free, 1 when    *)
(* locked and 2 when locked with possible sleepers.  Every action is one   *)
(* atomic access to the word or one futex system call, so that the steps   *)
(* of different threads interleave between them.                           *)
(*                                                                         *)
(* The value c the code keeps between two accesses only selects the next   *)
(* branch, and is recorded by the program counter:                         *)
(*   "idle"    outside                                                     *)
(*   "swap"    about to exchange the word with 2                           *)
(*   "wait"    about to call futex_wait(&val, 2)                           *)
(*   "asleep"  inside futex_wait, queued in the kernel                     *)
(*   "crit"    simple_mtx_lock has returned                                *)
(*   "clear"   unlock saw sleepers: about to store 0                       *)
(*   "wake"    about to call futex_wake(&val, 1)                           *)
(***************************************************************************)
EXTENDS Integers, FiniteSets

CONSTANT Threads

VARIABLES val, pc

vars == <<val, pc>>

PCs == {"idle", "swap", "wait", "asleep", "crit", "clear", "wake"}

Init == /\ val = 0
        /\ pc = [t \in Threads |-> "idle"]

Goto(t, l) == pc' = [pc EXCEPT ![t] = l]

(* p_atomic_cmpxchg(&mtx->val, 0, 1): succeeds on a free mutex, otherwise  *)
(* only tells what the word was.                                           *)
CmpxchgTakes(t) == /\ pc[t] = "idle"
                   /\ val = 0
                   /\ val' = 1
                   /\ Goto(t, "crit")

CmpxchgFails(t) == /\ pc[t] = "idle"
                   /\ val # 0
                   /\ Goto(t, IF val # 2 THEN "swap" ELSE "wait")
                   /\ UNCHANGED val

(* Mutant: the loop ends without looking at what the exchange returned.    *)
XchgEnters(t) == /\ pc[t] = "swap"
                 /\ val' = 2
                 /\ Goto(t, "crit")

(* c = p_atomic_xchg(&mtx->val, 2), before and inside the loop             *)
Xchg(t) == /\ pc[t] = "swap"
           /\ val' = 2
           /\ Goto(t, IF val = 0 THEN "crit" ELSE "wait")

(* futex_wait(&mtx->val, 2, NULL): the kernel compares and queues in one   *)
(* atomic step, and returns at once when the word is not 2.                *)
FutexWaitAsleep(word) == word = 2

FutexWait(t) == /\ pc[t] = "wait"
                /\ Goto(t, IF FutexWaitAsleep(val) THEN "asleep" ELSE "swap")
                /\ UNCHANGED val

(* futex_wait may also return without a wake-up (a signal, a stray wake).  *)
SpuriousWakeup(t) == /\ pc[t] = "asleep"
                     /\ Goto(t, "swap")
                     /\ UNCHANGED val

(* Mutant: unlock takes the fast path whatever the word was.               *)
AfterFetchAddFast(word) == "idle"

(* c = p_atomic_fetch_add(&mtx->val, -1)                                   *)
AfterFetchAdd(word) == IF word # 1 THEN "clear" ELSE "idle"

FetchAdd(t) == /\ pc[t] = "crit"
               /\ val' = val - 1
               /\ Goto(t, AfterFetchAdd(val))

(* mtx->val = 0                                                            *)
StoreZero(t) == /\ pc[t] = "clear"
                /\ val' = 0
                /\ Goto(t, "wake")

(* futex_wake(&mtx->val, 1): at most one sleeper, the kernel chooses.      *)
Sleepers == {u \in Threads : pc[u] = "asleep"}

WakeOne(t) == /\ pc[t] = "wake"
              /\ \E u \in Sleepers :
                    pc' = [pc EXCEPT ![t] = "idle", ![u] = "swap"]
              /\ UNCHANGED val

WakeNone(t) == /\ pc[t] = "wake"
               /\ Sleepers = {}
               /\ Goto(t, "idle")
               /\ UNCHANGED val

Arrive(t) == CmpxchgTakes(t) \/ CmpxchgFails(t)

(* The steps a thread takes once it has called lock, until unlock returns. *)
Proceed(t) == \/ Xchg(t)
              \/ FutexWait(t)
              \/ FetchAdd(t)
              \/ StoreZero(t)
              \/ WakeOne(t)
              \/ WakeNone(t)

Next == \E t \in Threads : Arrive(t) \/ Proceed(t) \/ SpuriousWakeup(t)

Spec == Init /\ [][Next]_vars

(* A running thread is eventually scheduled, and the critical sections of  *)
(* glsl_types.c all end.  Nobody has to call lock, and the kernel owes     *)
(* nobody a spurious wake-up.                                              *)
Fairness == \A t \in Threads : WF_vars(Proceed(t))

FairSpec == Spec /\ Fairness
-----------------------------------------------------------------------------
TypeOK == /\ val \in 0..2
          /\ pc \in [Threads -> PCs]

(* A thread owns the mutex from the return of simple_mtx_lock until the    *)
(* access of simple_mtx_unlock that makes the word 0.                      *)
Owns(t) == pc[t] \in {"crit", "clear"}

Owners == {t \in Threads : Owns(t)}

(* Two calls of simple_mtx_lock never both return before one unlocks, even *)
(* while an unlock is between its fetch-and-add (which leaves 1 in the     *)
(* word) and its store of 0.                                               *)
MutualExclusion == \A t, u \in Threads : Owns(t) /\ Owns(u) => t = u

(* The word is 0 exactly when nobody owns the mutex: the fast path can     *)
(* never succeed on a taken mutex, nor a free mutex look taken for ever.   *)
WordTellsOwner == val = 0 <=> Owners = {}

(* No lost wake-up: while a thread sleeps in futex_wait, the word still    *)
(* says so (the owner will wake somebody) or some other thread is already  *)
(* on its way to store 0, to wake a sleeper or to put the 2 back.          *)
NoLostWakeup ==
    Sleepers # {} =>
       \/ val = 2
       \/ \E t \in Threads : pc[t] \in {"clear", "wake", "swap"}

(* The whole of the safety argument: an inductive invariant.               *)
IInv == /\ TypeOK
        /\ MutualExclusion
        /\ WordTellsOwner
        /\ NoLostWakeup

(* Abstractly the mutex is just the set of its owners.                     *)
Abs == INSTANCE Mutex WITH holders <- Owners

(* simple_mtx_lock/unlock implement a mutex.                               *)
ImplementsMutex == Abs!Spec

(* If threads stop calling simple_mtx_lock, every call in progress         *)
(* returns, and so does every unlock: no sleeper is forgotten.             *)
DrainsWhenQuiet ==
    <>[][\A t \in Threads : ~ Arrive(t)]_vars
       => <>[](\A t \in Threads : pc[t] = "idle")

(* While somebody wants the mutex, the mutex keeps being handed out.       *)
KeepsServing ==
    (\E t \in Threads : pc[t] \in {"swap", "wait", "asleep"})
       ~> (\E t \in Threads : pc[t] = "crit")
=============================================================================
