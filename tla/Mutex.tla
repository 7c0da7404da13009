-------------------------------- MODULE Mutex --------------------------------
(***************************************************************************)
(* What a plain mutex promises: at most one thread is inside at a time.    *)
(* This is the specification that the futex build of simple_mtx_t          *)
(* (mesa/src/util/simple_mtx.h) is shown to implement.                     *)
(***************************************************************************)
CONSTANT Threads

VARIABLE holders      \* the threads that own the mutex

Init == holders = {}

Acquire(t) == /\ holders = {}
              /\ holders' = {t}

Release(t) == /\ holders = {t}
              /\ holders' = {}

Next == \E t \in Threads : Acquire(t) \/ Release(t)

Spec == Init /\ [][Next]_holders
=============================================================================
