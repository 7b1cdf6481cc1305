------------------------------- MODULE QMutex -------------------------------
(***************************************************************************)
(* QMutex of include/int_QMutexImpl.h as it is built with GCC on Linux     *)
(* (USE_POSIX, USE_OURMUTEX, MUTEX_USESEMA): a recursive mutex made of an  *)
(* atomic counter, an atomic hand-off flag and a kernel semaphore.  Every  *)
(* atomic instruction is an action of its own; plain stores to the fields  *)
(* only the owner touches go with the step next to them.                   *)
(***************************************************************************)
EXTENDS Integers, FiniteSets

CONSTANTS Threads,      \* the threads that use the mutex
          Usages,       \* the ways they use it: who calls lock(), who tryLock()
          NoThread,     \* the threadId 0 of a mutex nobody owns
          SpinCount,    \* the largest spin count setSpinCount() is given
          SemValueMax,  \* the value at which sem_post() stops counting
          MaxRecurse,   \* bound: claims a thread holds at the same time
          UintMax       \* the largest FXuint, where recurseCount wraps

ASSUME MutexAssumption ==
  /\ IsFiniteSet(Threads)
  /\ Usages \subseteq [lock : SUBSET Threads, try : SUBSET Threads]
  /\ NoThread \notin Threads
  /\ SpinCount \in Nat
  /\ SemValueMax \in Nat \ {0}
  /\ MaxRecurse \in Nat \ {0}
  /\ UintMax \in Nat /\ UintMax > MaxRecurse

VARIABLES
  lockCount,     \* QMutexPrivate::lockCount, -1 when free
  wakeSema,      \* QMutexPrivate::wakeSema, 1 when the mutex is handed on
  threadId,      \* QMutexPrivate::threadId
  recurseCount,  \* QMutexPrivate::recurseCount
  sema,          \* the value of the kernel semaphore QMutexPrivate::sema
  pc,            \* where each thread is inside lock(), unlock(), tryLock()
  spins,         \* the spins each thread has left before it sleeps
  holds,         \* claims each caller has been granted and not given back
  usage          \* which threads call lock() and which tryLock(); never changes

vars == <<lockCount, wakeSema, threadId, recurseCount, sema, pc, spins, holds,
          usage>>
fields == <<threadId, recurseCount, holds, usage>>

\* Waiting for the owner: between the failed claim and the hand-off.
Waiting == {"lockTest", "lockSwap", "lockSpin"}
Labels == Waiting \cup {"run", "lockOwn", "unlockDec", "unlockWake",
                        "unlockPost", "tryTest", "tryUndo"}

Goto(t, l) == pc' = [pc EXCEPT ![t] = l]
\* A waiter inside sem_wait().
Asleep(t) == pc[t] = "lockSpin" /\ spins[t] = 0

\* The constructor.  The semaphore may come from the KernelWaitObjectCache,
\* where addFreed() leaves whatever count an earlier mutex ended with.
Init == /\ lockCount = -1
        /\ wakeSema = 0
        /\ threadId = NoThread
        /\ recurseCount = 0
        /\ sema \in 0..SemValueMax
        /\ pc = [t \in Threads |-> "run"]
        /\ spins = [t \in Threads |-> 0]
        /\ holds = [t \in Threads |-> 0]
        /\ usage \in Usages
-----------------------------------------------------------------------------
\* int_lock(): lockCount.finc() claims the mutex if the counter was -1.
Lock(t) ==
  /\ t \in usage.lock
  /\ pc[t] = "run" /\ holds[t] < MaxRecurse
  /\ lockCount' = lockCount + 1
  /\ Goto(t, IF lockCount = -1 THEN "lockOwn" ELSE "lockTest")
  /\ UNCHANGED <<wakeSema, sema, spins, fields>>

\* The owner's id and a recursion count of one are stored: lock() returns.
LockOwn_uncounted(t) ==
  /\ pc[t] = "lockOwn"
  /\ threadId' = t
  /\ holds' = [holds EXCEPT ![t] = @ + 1]
  /\ Goto(t, "run")
  /\ UNCHANGED <<lockCount, wakeSema, recurseCount, sema, spins, usage>>

LockOwn(t) ==
  /\ pc[t] = "lockOwn"
  /\ threadId' = t
  /\ recurseCount' = 1
  /\ holds' = [holds EXCEPT ![t] = @ + 1]
  /\ Goto(t, "run")
  /\ UNCHANGED <<lockCount, wakeSema, sema, spins, usage>>

\* The owner recurses and returns.
Recurse(t) ==
  /\ recurseCount' = recurseCount + 1
  /\ holds' = [holds EXCEPT ![t] = @ + 1]
  /\ Goto(t, "run")
  /\ UNCHANGED <<lockCount, wakeSema, threadId, sema, spins, usage>>

\* The mutex was taken: its owner recurses, any other thread waits.
LockTest(t) ==
  /\ pc[t] = "lockTest"
  /\ \/ threadId = t /\ Recurse(t)
     \/ /\ threadId # t
        /\ Goto(t, "lockSwap")
        /\ UNCHANGED <<lockCount, wakeSema, sema, spins, fields>>

\* wakeSema.swapI(0) finds 1: the mutex has been handed to this thread.
GotIt(t) == /\ wakeSema = 1
            /\ wakeSema' = 0
            /\ Goto(t, "lockOwn")
            /\ UNCHANGED spins

\* The swap at the head of the wait loop.  A miss starts the spin; spinCount
\* is read again at every turn, so setSpinCount() may have moved it.
LockSwap(t) ==
  /\ pc[t] = "lockSwap"
  /\ \/ GotIt(t)
     \/ /\ wakeSema = 0
        /\ \E n \in 0..SpinCount : spins' = [spins EXCEPT ![t] = n]
        /\ Goto(t, "lockSpin")
        /\ UNCHANGED wakeSema
  /\ UNCHANGED <<lockCount, sema, fields>>

\* One turn of the spin.
LockSpin(t) ==
  /\ pc[t] = "lockSpin" /\ spins[t] > 0
  /\ \/ GotIt(t)
     \/ /\ wakeSema = 0
        /\ spins' = [spins EXCEPT ![t] = @ - 1]
        /\ UNCHANGED <<wakeSema, pc>>
  /\ UNCHANGED <<lockCount, sema, fields>>

\* sem_wait() returns and the loop swaps again.
LockSleep(t) ==
  /\ Asleep(t) /\ sema > 0
  /\ sema' = sema - 1
  /\ Goto(t, "lockSwap")
  /\ UNCHANGED <<lockCount, wakeSema, spins, fields>>
-----------------------------------------------------------------------------
\* --recurseCount on an unsigned integer.
Decremented(n) == IF n = 0 THEN UintMax ELSE n - 1

\* int_unlock() with --recurseCount > 0: one claim less, still the owner.
UnlockRecursed(t) ==
  /\ pc[t] = "run" /\ holds[t] > 0 /\ Decremented(recurseCount) > 0
  /\ recurseCount' = Decremented(recurseCount)
  /\ lockCount' = lockCount - 1
  /\ holds' = [holds EXCEPT ![t] = @ - 1]
  /\ UNCHANGED <<wakeSema, threadId, sema, pc, spins, usage>>

\* int_unlock() with --recurseCount = 0: the owner's id is cleared.
UnlockLast(t) ==
  /\ pc[t] = "run" /\ holds[t] > 0 /\ Decremented(recurseCount) = 0
  /\ recurseCount' = Decremented(recurseCount)
  /\ threadId' = NoThread
  /\ holds' = [holds EXCEPT ![t] = @ - 1]
  /\ Goto(t, "unlockDec")
  /\ UNCHANGED <<lockCount, wakeSema, sema, spins, usage>>

\* lockCount.fdec(): a result of 0 or more means that others are waiting.
OthersWaiting_offByOne(count) == count > 0
OthersWaiting_always(count) == count >= -1
OthersWaiting(count) == count >= 0

UnlockDec(t) ==
  /\ pc[t] = "unlockDec"
  /\ lockCount' = lockCount - 1
  /\ \/ OthersWaiting(lockCount - 1) /\ Goto(t, "unlockWake")
     \/ ~OthersWaiting(lockCount - 1) /\ Goto(t, "run")
  /\ UNCHANGED <<wakeSema, sema, spins, fields>>

\* wakeSema.set(1) hands the mutex to whoever swaps first.
UnlockWake(t) ==
  /\ pc[t] = "unlockWake"
  /\ wakeSema' = 1
  /\ Goto(t, "unlockPost")
  /\ UNCHANGED <<lockCount, sema, spins, fields>>

\* sem_post() wakes a sleeper, and fails silently at SEM_VALUE_MAX.
Posted(n) == IF n < SemValueMax THEN n + 1 ELSE n

UnlockPost_lost(t) ==
  /\ pc[t] = "unlockPost"
  /\ Goto(t, "run")
  /\ UNCHANGED <<lockCount, wakeSema, sema, spins, fields>>

UnlockPost(t) ==
  /\ pc[t] = "unlockPost"
  /\ sema' = Posted(sema)
  /\ Goto(t, "run")
  /\ UNCHANGED <<lockCount, wakeSema, spins, fields>>
-----------------------------------------------------------------------------
\* tryLock(): the same finc(), undone by fdec() when the mutex was taken.
TryLock(t) ==
  /\ t \in usage.try
  /\ pc[t] = "run" /\ holds[t] < MaxRecurse
  /\ lockCount' = lockCount + 1
  /\ Goto(t, IF lockCount = -1 THEN "lockOwn" ELSE "tryTest")
  /\ UNCHANGED <<wakeSema, sema, spins, fields>>

TryTest(t) ==
  /\ pc[t] = "tryTest"
  /\ \/ threadId = t /\ Recurse(t)
     \/ /\ threadId # t
        /\ Goto(t, "tryUndo")
        /\ UNCHANGED <<lockCount, wakeSema, sema, spins, fields>>

TryUndo_missing(t) ==
  /\ pc[t] = "tryUndo"
  /\ Goto(t, "run")
  /\ UNCHANGED <<lockCount, wakeSema, sema, spins, fields>>

TryUndo(t) ==
  /\ pc[t] = "tryUndo"
  /\ lockCount' = lockCount - 1
  /\ Goto(t, "run")
  /\ UNCHANGED <<wakeSema, sema, spins, fields>>
-----------------------------------------------------------------------------
LockStep(t) == LockOwn(t) \/ LockTest(t) \/ LockSwap(t) \/ LockSpin(t)
               \/ LockSleep(t)
UnlockCall(t) == UnlockRecursed(t) \/ UnlockLast(t)
UnlockStep(t) == UnlockDec(t) \/ UnlockWake(t) \/ UnlockPost(t)
TryStep(t) == TryTest(t) \/ TryUndo(t)

Next == \E t \in Threads :
          \/ Lock(t) \/ LockStep(t)
          \/ UnlockCall(t) \/ UnlockStep(t)
          \/ TryLock(t) \/ TryStep(t)

Spec == Init /\ [][Next]_vars

\* The kernel runs every thread that is not blocked, and an owner that gets to
\* its last claim again and again ends by giving it back (QMtxHold unlocks when
\* its scope is left), however often it recurses.
Fairness == \A t \in Threads :
              /\ WF_vars(LockStep(t) \/ UnlockStep(t) \/ TryStep(t) \/ UnlockCall(t))
              /\ SF_vars(UnlockLast(t))
FairSpec == Spec /\ Fairness
-----------------------------------------------------------------------------
\* Every field stays in its domain: the recursion count in particular never
\* passes what a caller may claim, so --recurseCount has not wrapped, and the
\* semaphore never passes its limit.
TypeOK == /\ lockCount \in Int
          /\ wakeSema \in {0, 1}
          /\ threadId \in Threads \cup {NoThread}
          /\ recurseCount \in 0..MaxRecurse
          /\ sema \in 0..SemValueMax
          /\ pc \in [Threads -> Labels]
          /\ spins \in [Threads -> 0..SpinCount]
          /\ holds \in [Threads -> 0..MaxRecurse]
          /\ usage \in Usages

\* The threads whose finc() is neither undone nor turned into a recursion.
Counted == {t \in Threads : pc[t] \in Waiting \cup {"lockOwn", "unlockDec",
                                                    "tryTest", "tryUndo"}}
\* The mutex is this thread's: it holds it, is about to, or is giving it back,
\* which includes the hand-off where nobody calls tryLock(): whoever hands on
\* then has a thread to hand on to.
HasToken(t) == \/ holds[t] > 0
               \/ pc[t] \in {"lockOwn", "unlockDec"}
               \/ pc[t] = "unlockWake" /\ usage.try = {}

\* "Permit only one thing to use the data at a time": two threads are never
\* both between the claim that succeeded and the end of its release.  Where
\* nobody tries that includes the hand-off, so a hand-off through wakeSema
\* never meets a claim through lockCount.
MutualExclusion ==
  \A t, u \in Threads : HasToken(t) /\ HasToken(u) => t = u

\* The asserts of int_lock() under "Nothing owns me": whoever is about to
\* store its id finds the mutex without owner and without recursion.
NothingOwnsMe ==
  \A t \in Threads : pc[t] = "lockOwn" => threadId = NoThread /\ recurseCount = 0

\* lockCount counts, from -1, every claim under way and every claim held:
\* no interleaving of claims, recursions and releases loses or doubles one.
CountAccounts == lockCount + 1 = Cardinality(Counted) + recurseCount

\* What the caller holds is what the fields say: the owner's id and recursion
\* count are those of the one thread that was granted the mutex.
OwnerAgrees ==
  /\ \A t \in Threads : holds[t] > 0 <=> threadId = t
  /\ \A t \in Threads : threadId = t => recurseCount = holds[t]
  /\ threadId = NoThread => recurseCount = 0

\* A mutex that is handed on through wakeSema is free of any other owner, and
\* some thread is waiting to take it: the hand-off cannot be left behind.
HandOffHasTaker ==
  /\ wakeSema = 1 => \A t \in Threads : ~HasToken(t)
  /\ wakeSema = 1 \/ (\E t \in Threads : pc[t] = "unlockWake")
       => \E t \in Threads : pc[t] \in Waiting

\* A thread past the test for recursion holds nothing, whatever it waits for.
InsideHolds ==
  \A t \in Threads :
    /\ pc[t] \notin {"run", "lockTest", "tryTest"} => holds[t] = 0
    /\ pc[t] \in {"lockTest", "tryTest"} => holds[t] < MaxRecurse

\* Never is the mutex handed on while every waiter sleeps in sem_wait() with
\* nothing left to wake one of them.
NoLostWakeup ==
  wakeSema = 1 => \/ sema > 0
                  \/ \E t \in Threads : pc[t] = "unlockPost"
                  \/ \E t \in Threads : pc[t] \in Waiting /\ ~Asleep(t)

\* The owner recorded in the fields follows the abstract recursive lock.
Abstract == INSTANCE RecursiveLock WITH owner <- threadId, depth <- recurseCount
ImplementsRecursiveLock == Abstract!Spec

\* Whenever threads wait for another owner, one of them is granted the mutex
\* in the end.
WaitersAreServed ==
  (\E t \in Threads : pc[t] \in {"lockSwap", "lockSpin"})
    ~> (\E t \in Threads : pc[t] = "lockOwn")
=============================================================================
