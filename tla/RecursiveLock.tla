--------------------------- MODULE RecursiveLock ---------------------------
(***************************************************************************)
(* What QMutex promises its callers (include/QThread.h, class QMutex): one *)
(* owner at a time, the owner may claim the lock again, and the lock is    *)
(* free once it has been released as many times as it was claimed.         *)
(***************************************************************************)
EXTENDS Naturals

CONSTANTS Threads,  \* the threads that use the lock
          NoThread  \* the owner of a free lock, none of them

VARIABLES owner, depth

lockVars == <<owner, depth>>

Init == owner = NoThread /\ depth = 0

\* A thread claims the free lock.
Acquire(t) == /\ owner = NoThread
              /\ owner' = t
              /\ depth' = 1

\* The owner claims the lock once more.
Reacquire(t) == /\ owner = t
                /\ depth' = depth + 1
                /\ UNCHANGED owner

\* The owner gives back one claim, the last one frees the lock.
Release(t) == /\ owner = t
              /\ depth' = depth - 1
              /\ owner' = IF depth = 1 THEN NoThread ELSE t

Next == \E t \in Threads : Acquire(t) \/ Reacquire(t) \/ Release(t)

Spec == Init /\ [][Next]_lockVars
=============================================================================
