---------------------------- MODULE QMutexProofs ----------------------------
(***************************************************************************)
(* A mutex used through lock() and unlock() alone, by any number of        *)
(* threads, at any depth and with any spin count: it excludes, it loses no *)
(* wakeup and it implements the recursive lock.  LockOnly is needed: with  *)
(* tryLock() the exclusion does not hold (run mutex_trylock).              *)
(***************************************************************************)
EXTENDS QMutex, FiniteSetTheorems, TLAPS

\* In none of the ways the mutex is used does a thread call tryLock().
LockOnly == \A u \in Usages : u.try = {}

\* No thread calls tryLock(), and none is inside it.
NoTry == /\ usage.try = {}
         /\ \A t \in Threads : pc[t] \notin {"tryTest", "tryUndo"}

\* The inductive invariant.
IInv == /\ TypeOK
        /\ InsideHolds
        /\ MutualExclusion
        /\ CountAccounts
        /\ OwnerAgrees
        /\ HandOffHasTaker
        /\ NoTry

\* One thread joins or leaves a set of threads: its cardinality moves by one.
LEMMA OneMore ==
  ASSUME NEW S \in SUBSET Threads, NEW t \in Threads, t \notin S
  PROVE  Cardinality(S \cup {t}) = Cardinality(S) + 1
  BY FS_Subset, FS_AddElement, MutexAssumption

LEMMA OneLess ==
  ASSUME NEW S \in SUBSET Threads, NEW t \in S
  PROVE  Cardinality(S \ {t}) = Cardinality(S) - 1
  BY FS_Subset, FS_RemoveElement, MutexAssumption

LEMMA CountedIsFinite ==
  /\ Counted \in SUBSET Threads
  /\ Cardinality(Counted) \in Nat
  /\ Cardinality(Counted) = 0 <=> Counted = {}
  <1>1. Counted \in SUBSET Threads
    BY DEF Counted
  <1>2. IsFiniteSet(Counted)
    BY <1>1, FS_Subset, MutexAssumption
  <1>3. QED
    BY <1>1, <1>2, FS_CardinalityType, FS_EmptySet

\* A free counter means a free mutex: nobody has it and nobody is handed it.
LEMMA FreeCounter ==
  ASSUME IInv, lockCount = -1
  PROVE  /\ \A t \in Threads : ~HasToken(t)
         /\ wakeSema = 0
         /\ Counted = {} /\ recurseCount = 0 /\ threadId = NoThread
  <1>1. Counted = {} /\ recurseCount = 0
    BY CountedIsFinite DEF IInv, TypeOK, CountAccounts
  <1>2. \A t \in Threads : pc[t] \notin Waiting \cup {"lockOwn", "unlockDec"}
    BY <1>1 DEF Counted
  <1>3. wakeSema = 0 /\ \A t \in Threads : pc[t] # "unlockWake"
    BY <1>2 DEF IInv, TypeOK, HandOffHasTaker
  <1>4. \A t \in Threads : holds[t] = 0
    BY <1>1 DEF IInv, TypeOK, OwnerAgrees
  <1>5. threadId = NoThread
    BY <1>4 DEF IInv, TypeOK, OwnerAgrees
  <1>6. QED
    BY <1>1, <1>2, <1>3, <1>4, <1>5 DEF HasToken

\* The asserts in front of the owner's stores never fire.
LEMMA OwnerStores ==
  ASSUME IInv PROVE NothingOwnsMe
  <1> SUFFICES ASSUME NEW t \in Threads, pc[t] = "lockOwn"
               PROVE  threadId = NoThread /\ recurseCount = 0
    BY DEF NothingOwnsMe
  <1>1. HasToken(t) /\ holds[t] = 0
    BY DEF HasToken, IInv, InsideHolds
  <1>2. \A u \in Threads : holds[u] = 0
    BY <1>1 DEF IInv, MutualExclusion, HasToken, TypeOK
  <1>3. QED
    BY <1>2 DEF IInv, OwnerAgrees, TypeOK

\* The counter moves with the set of counted claims and the recursion count.
LEMMA CountEnter ==
  ASSUME CountAccounts, TypeOK, NEW t \in Threads, t \notin Counted,
         Counted' = Counted \cup {t},
         \/ lockCount' = lockCount + 1 /\ recurseCount' = recurseCount
         \/ lockCount' = lockCount /\ recurseCount' = recurseCount - 1
  PROVE  CountAccounts'
  <1>1. Cardinality(Counted') = Cardinality(Counted) + 1
    BY OneMore, CountedIsFinite
  <1>2. QED
    BY <1>1, CountedIsFinite, MutexAssumption DEF CountAccounts, TypeOK

LEMMA CountLeave ==
  ASSUME CountAccounts, TypeOK, NEW t \in Threads, t \in Counted,
         Counted' = Counted \ {t},
         \/ lockCount' = lockCount - 1 /\ recurseCount' = recurseCount
         \/ lockCount' = lockCount /\ recurseCount' = recurseCount + 1
  PROVE  CountAccounts'
  <1>1. Cardinality(Counted') = Cardinality(Counted) - 1
    BY OneLess, CountedIsFinite
  <1>2. QED
    BY <1>1, CountedIsFinite, MutexAssumption DEF CountAccounts, TypeOK
-----------------------------------------------------------------------------
LEMMA InitIInv ==
  ASSUME LockOnly PROVE Init => IInv
  <1> SUFFICES ASSUME Init PROVE IInv
    OBVIOUS
  <1>1. TypeOK
    BY MutexAssumption DEF Init, TypeOK, Labels
  <1>2. Counted = {}
    BY DEF Init, Counted, Waiting
  <1>3. CountAccounts
    BY <1>2, CountedIsFinite DEF Init, CountAccounts
  <1>4. QED
    BY <1>1, <1>3, MutexAssumption
    DEF Init, IInv, InsideHolds, MutualExclusion, HasToken, OwnerAgrees,
        HandOffHasTaker, NoTry, LockOnly

\* Steps that leave the counter, the owner, and every token where they are.
LEMMA StepLock ==
  ASSUME IInv, NEW t \in Threads, Lock(t)
  PROVE  IInv'
  <1> USE MutexAssumption DEF IInv, NoTry, Lock, Goto, fields
  <1>1. TypeOK'
    BY DEF TypeOK, Labels, Waiting
  <1>2. Counted' = Counted \cup {t} /\ t \notin Counted
    BY DEF TypeOK, Counted, Waiting
  <1>3. CountAccounts'
    BY <1>2, CountEnter
  <1>4. CASE lockCount = -1
    <2>1. /\ \A u \in Threads : ~HasToken(u) /\ holds[u] = 0
          /\ wakeSema = 0 /\ recurseCount = 0 /\ threadId = NoThread
      BY <1>4, FreeCounter DEF HasToken, TypeOK
    <2>2. MutualExclusion'
      BY <1>4, <2>1 DEF MutualExclusion, HasToken, TypeOK
    <2>3. InsideHolds' /\ OwnerAgrees' /\ NoTry'
      BY <1>4, <2>1 DEF InsideHolds, OwnerAgrees, NoTry, TypeOK
    <2>4. HandOffHasTaker'
      BY <1>4, <2>1 DEF HandOffHasTaker, HasToken, TypeOK
    <2>5. QED
      BY <1>1, <1>3, <2>2, <2>3, <2>4
  <1>5. CASE lockCount # -1
    <2>1. pc' = [pc EXCEPT ![t] = "lockTest"]
      BY <1>5
    <2>2. MutualExclusion'
      BY <2>1 DEF MutualExclusion, HasToken, TypeOK
    <2>3. InsideHolds' /\ OwnerAgrees' /\ NoTry'
      BY <2>1 DEF InsideHolds, OwnerAgrees, NoTry, TypeOK
    <2>4. HandOffHasTaker'
      BY <2>1 DEF HandOffHasTaker, HasToken, TypeOK, Waiting
    <2>5. QED
      BY <1>1, <1>3, <2>2, <2>3, <2>4
  <1>6. QED
    BY <1>4, <1>5

LEMMA StepOwn ==
  ASSUME IInv, NEW t \in Threads, LockOwn(t)
  PROVE  IInv'
  <1> USE MutexAssumption DEF IInv, NoTry, LockOwn, Goto
  <1>1. threadId = NoThread /\ recurseCount = 0
    BY OwnerStores DEF NothingOwnsMe
  <1>2. \A u \in Threads : holds[u] = 0
    BY <1>1 DEF OwnerAgrees, TypeOK
  <1>3. TypeOK'
    BY <1>2 DEF TypeOK, Labels, Waiting
  <1>4. Counted' = Counted \ {t} /\ t \in Counted
    BY DEF TypeOK, Counted, Waiting
  <1>5. CountAccounts'
    BY <1>1, <1>4, <1>3, CountLeave DEF TypeOK
  <1>6. \A u \in Threads : HasToken(u)' <=> HasToken(u)
    BY <1>2 DEF HasToken, TypeOK
  <1>7. MutualExclusion' /\ HandOffHasTaker'
    BY <1>6 DEF MutualExclusion, HandOffHasTaker, TypeOK, Waiting
  <1>8. InsideHolds' /\ OwnerAgrees' /\ NoTry'
    BY <1>2 DEF InsideHolds, OwnerAgrees, NoTry, TypeOK
  <1>9. QED
    BY <1>3, <1>5, <1>7, <1>8

LEMMA StepTest ==
  ASSUME IInv, NEW t \in Threads, LockTest(t)
  PROVE  IInv'
  <1> USE MutexAssumption DEF IInv, NoTry, Goto, fields
  <1>0. pc[t] = "lockTest"
    BY DEF LockTest
  <1>1. CASE threadId = t /\ Recurse(t)
    <2> USE <1>1 DEF Recurse
    <2>1. holds[t] > 0 /\ recurseCount = holds[t] /\ holds[t] < MaxRecurse
      BY <1>0 DEF InsideHolds, OwnerAgrees, NoTry, TypeOK
    <2>2. TypeOK'
      BY <2>1 DEF TypeOK, Labels, Waiting
    <2>3. Counted' = Counted \ {t} /\ t \in Counted
      BY <1>0 DEF TypeOK, Counted, Waiting
    <2>4. CountAccounts'
      BY <2>2, <2>3, CountLeave DEF TypeOK
    <2>5. \A u \in Threads : HasToken(u)' <=> HasToken(u)
      BY <1>0, <2>1 DEF HasToken, TypeOK
    <2>6. MutualExclusion'
      BY <2>5 DEF MutualExclusion
    <2>7. HandOffHasTaker'
      BY <2>1, <2>5 DEF HandOffHasTaker, MutualExclusion, HasToken, TypeOK, Waiting
    <2>8. InsideHolds' /\ OwnerAgrees' /\ NoTry'
      BY <2>1 DEF InsideHolds, OwnerAgrees, NoTry, TypeOK
    <2>9. QED
      BY <2>2, <2>4, <2>6, <2>7, <2>8
  <1>2. CASE /\ threadId # t
             /\ Goto(t, "lockSwap")
             /\ UNCHANGED <<lockCount, wakeSema, sema, spins, fields>>
    <2>1. TypeOK'
      BY <1>2 DEF TypeOK, Labels, Waiting
    <2>2. Counted' = Counted
      BY <1>0, <1>2 DEF TypeOK, Counted, Waiting
    <2>3. \A u \in Threads : HasToken(u)' <=> HasToken(u)
      BY <1>0, <1>2 DEF HasToken, TypeOK
    <2>4. CountAccounts'
      BY <1>2, <2>2 DEF CountAccounts
    <2>5. MutualExclusion' /\ OwnerAgrees'
      BY <1>2, <2>3 DEF MutualExclusion, OwnerAgrees
    <2>6. HandOffHasTaker'
      BY <1>0, <1>2, <2>3 DEF HandOffHasTaker, TypeOK, Waiting
    <2>7. InsideHolds' /\ NoTry'
      BY <1>0, <1>2 DEF InsideHolds, OwnerAgrees, NoTry, TypeOK
    <2>8. QED
      BY <2>1, <2>4, <2>5, <2>6, <2>7
  <1>3. QED
    BY <1>1, <1>2 DEF LockTest

LEMMA StepSwap ==
  ASSUME IInv, NEW t \in Threads, LockSwap(t) \/ LockSpin(t)
  PROVE  IInv'
  <1> USE MutexAssumption DEF IInv, NoTry, Goto, fields
  <1>0. /\ pc[t] \in {"lockSwap", "lockSpin"} /\ holds[t] = 0
        /\ UNCHANGED <<lockCount, sema, fields>>
    BY DEF LockSwap, LockSpin, InsideHolds, TypeOK
  <1>1. CASE GotIt(t)
    <2> USE <1>0, <1>1 DEF GotIt
    <2>1. \A u \in Threads : ~HasToken(u)
      BY DEF HandOffHasTaker
    <2>2. TypeOK'
      BY DEF TypeOK, Labels, Waiting
    <2>3. Counted' = Counted
      BY DEF TypeOK, Counted, Waiting
    <2>4. CountAccounts'
      BY <2>3 DEF CountAccounts
    <2>5. MutualExclusion' /\ HandOffHasTaker'
      BY <2>1 DEF MutualExclusion, HandOffHasTaker, HasToken, TypeOK
    <2>6. InsideHolds' /\ OwnerAgrees' /\ NoTry'
      BY DEF InsideHolds, OwnerAgrees, NoTry, TypeOK
    <2>7. QED
      BY <2>2, <2>4, <2>5, <2>6
  <1>2. CASE /\ wakeSema = 0 /\ UNCHANGED wakeSema
             /\ pc' = [pc EXCEPT ![t] = "lockSpin"]
             /\ spins' \in [Threads -> 0..SpinCount]
    <2> USE <1>0, <1>2
    <2>1. TypeOK'
      BY DEF TypeOK, Labels, Waiting
    <2>2. Counted' = Counted
      BY DEF TypeOK, Counted, Waiting
    <2>3. CountAccounts'
      BY <2>2 DEF CountAccounts
    <2>4. MutualExclusion'
      BY DEF MutualExclusion, HasToken, TypeOK
    <2>5. HandOffHasTaker'
      BY DEF HandOffHasTaker, HasToken, TypeOK, Waiting
    <2>6. InsideHolds' /\ OwnerAgrees' /\ NoTry'
      BY DEF InsideHolds, OwnerAgrees, NoTry, TypeOK
    <2>7. QED
      BY <2>1, <2>3, <2>4, <2>5, <2>6
  <1>3. CASE LockSwap(t) /\ ~GotIt(t)
    <2>1. PICK n \in 0..SpinCount : spins' = [spins EXCEPT ![t] = n]
      BY <1>3 DEF LockSwap
    <2>2. spins' \in [Threads -> 0..SpinCount]
      BY <2>1 DEF TypeOK
    <2>3. QED
      BY <1>2, <1>3, <2>2 DEF LockSwap
  <1>4. CASE LockSpin(t) /\ ~GotIt(t)
    <2>1. spins' \in [Threads -> 0..SpinCount]
      BY <1>4 DEF LockSpin, TypeOK
    <2>2. pc' = [pc EXCEPT ![t] = "lockSpin"]
      BY <1>4 DEF LockSpin, TypeOK
    <2>3. QED
      BY <1>2, <1>4, <2>1, <2>2 DEF LockSpin
  <1>5. QED
    BY <1>1, <1>3, <1>4

LEMMA StepSleep ==
  ASSUME IInv, NEW t \in Threads, LockSleep(t)
  PROVE  IInv'
  <1> USE MutexAssumption DEF IInv, NoTry, LockSleep, Asleep, Goto, fields
  <1>1. TypeOK'
    BY DEF TypeOK, Labels, Waiting
  <1>2. Counted' = Counted
    BY DEF TypeOK, Counted, Waiting
  <1>3. CountAccounts'
    BY <1>2 DEF CountAccounts
  <1>4. MutualExclusion'
    BY DEF MutualExclusion, HasToken, TypeOK
  <1>5. HandOffHasTaker'
    BY DEF HandOffHasTaker, HasToken, TypeOK, Waiting
  <1>6. InsideHolds' /\ OwnerAgrees' /\ NoTry'
    BY DEF InsideHolds, OwnerAgrees, NoTry, TypeOK
  <1>7. QED
    BY <1>1, <1>3, <1>4, <1>5, <1>6

\* Whoever unlocks what it holds is the owner, and --recurseCount cannot wrap.
LEMMA UnlockerOwns ==
  ASSUME IInv, NEW t \in Threads, holds[t] > 0
  PROVE  /\ threadId = t /\ recurseCount = holds[t]
         /\ Decremented(recurseCount) = recurseCount - 1
         /\ wakeSema = 0
         /\ \A u \in Threads \ {t} : ~HasToken(u)
  BY MutexAssumption
  DEF IInv, TypeOK, OwnerAgrees, Decremented, HandOffHasTaker, HasToken,
      MutualExclusion

LEMMA StepUnlockRecursed ==
  ASSUME IInv, NEW t \in Threads, UnlockRecursed(t)
  PROVE  IInv'
  <1> USE MutexAssumption DEF IInv, NoTry, UnlockRecursed
  <1>1. /\ threadId = t /\ recurseCount = holds[t] /\ wakeSema = 0
        /\ recurseCount' = recurseCount - 1 /\ recurseCount > 1
    BY UnlockerOwns DEF TypeOK
  <1>2. TypeOK'
    BY <1>1 DEF TypeOK
  <1>3. Counted' = Counted
    BY DEF Counted
  <1>4. CountAccounts'
    BY <1>1, <1>3, CountedIsFinite DEF CountAccounts, TypeOK
  <1>5. \A u \in Threads : HasToken(u)' <=> HasToken(u)
    BY <1>1 DEF HasToken, TypeOK
  <1>6. MutualExclusion' /\ HandOffHasTaker'
    BY <1>5 DEF MutualExclusion, HandOffHasTaker
  <1>7. InsideHolds' /\ OwnerAgrees' /\ NoTry'
    BY <1>1 DEF InsideHolds, OwnerAgrees, NoTry, TypeOK
  <1>8. QED
    BY <1>2, <1>4, <1>6, <1>7

LEMMA StepUnlockLast ==
  ASSUME IInv, NEW t \in Threads, UnlockLast(t)
  PROVE  IInv'
  <1> USE MutexAssumption DEF IInv, NoTry, UnlockLast, Goto
  <1>1. /\ threadId = t /\ recurseCount = 1 /\ holds[t] = 1 /\ wakeSema = 0
        /\ recurseCount' = recurseCount - 1
        /\ \A u \in Threads \ {t} : ~HasToken(u)
    BY UnlockerOwns DEF TypeOK
  <1>2. TypeOK'
    BY <1>1 DEF TypeOK, Labels
  <1>3. Counted' = Counted \cup {t} /\ t \notin Counted
    BY DEF TypeOK, Counted, Waiting
  <1>4. CountAccounts'
    BY <1>1, <1>3, CountEnter
  <1>5. \A u \in Threads : HasToken(u)' <=> HasToken(u)
    BY <1>1 DEF HasToken, TypeOK
  <1>6. MutualExclusion' /\ HandOffHasTaker'
    BY <1>1, <1>5 DEF MutualExclusion, HandOffHasTaker, HasToken, TypeOK
  <1>7. \A u \in Threads : holds'[u] = 0
    BY <1>1 DEF HasToken, TypeOK
  <1>8. InsideHolds' /\ OwnerAgrees' /\ NoTry'
    BY <1>1, <1>7 DEF InsideHolds, OwnerAgrees, NoTry, TypeOK
  <1>9. QED
    BY <1>2, <1>4, <1>6, <1>8

LEMMA StepUnlockDec ==
  ASSUME IInv, NEW t \in Threads, UnlockDec(t)
  PROVE  IInv'
  <1> USE MutexAssumption DEF IInv, NoTry, Goto, fields
  <1>1. /\ pc[t] = "unlockDec" /\ holds[t] = 0 /\ HasToken(t)
        /\ lockCount' = lockCount - 1
        /\ UNCHANGED <<wakeSema, sema, spins, fields>>
    BY DEF UnlockDec, InsideHolds, HasToken
  <1>2. /\ wakeSema = 0
        /\ \A u \in Threads \ {t} : ~HasToken(u)
    BY <1>1 DEF HandOffHasTaker, MutualExclusion, TypeOK
  <1>3. \A u \in Threads : holds[u] = 0
    BY <1>1, <1>2 DEF HasToken, TypeOK
  <1>4. recurseCount = 0
    BY <1>3 DEF OwnerAgrees, TypeOK
  <1>5. \/ lockCount' >= 0 /\ pc' = [pc EXCEPT ![t] = "unlockWake"]
        \/ pc' = [pc EXCEPT ![t] = "run"]
    BY DEF UnlockDec, OthersWaiting
  <1>6. TypeOK'
    BY <1>1, <1>5 DEF TypeOK, Labels
  <1>7. Counted' = Counted \ {t} /\ t \in Counted
    BY <1>1, <1>5 DEF TypeOK, Counted, Waiting
  <1>8. CountAccounts'
    BY <1>1, <1>7, CountLeave
  <1>9. MutualExclusion'
    BY <1>1, <1>2, <1>5 DEF MutualExclusion, HasToken, TypeOK
  <1>10. InsideHolds' /\ OwnerAgrees' /\ NoTry'
    BY <1>1, <1>5 DEF InsideHolds, OwnerAgrees, NoTry, TypeOK
  <1>11. HandOffHasTaker'
    <2>1. CASE pc' = [pc EXCEPT ![t] = "run"]
      BY <1>1, <1>2, <2>1 DEF HandOffHasTaker, HasToken, TypeOK
    <2>2. CASE lockCount' >= 0 /\ pc' = [pc EXCEPT ![t] = "unlockWake"]
      <3>1. Cardinality(Counted \ {t}) = Cardinality(Counted) - 1
        BY <1>7, CountedIsFinite, OneLess
      <3>2. Cardinality(Counted) > 1
        BY <1>1, <1>4, <2>2, CountedIsFinite DEF CountAccounts, TypeOK
      <3>3. Counted \ {t} # {}
        <4>1. Cardinality({}) = 0
          BY FS_EmptySet
        <4>2. Cardinality(Counted \ {t}) > 0
          BY <3>1, <3>2, CountedIsFinite
        <4>3. QED
          BY <4>1, <4>2
      <3>4. PICK u \in Threads \ {t} : u \in Counted
        BY <3>3 DEF Counted
      <3>5. pc[u] \in Waiting
        BY <1>2, <3>4 DEF Counted, HasToken, NoTry
      <3>6. pc'[u] \in Waiting
        BY <2>2, <3>4, <3>5 DEF TypeOK
      <3>7. QED
        BY <1>1, <1>2, <3>4, <3>6 DEF HandOffHasTaker
    <2>3. QED
      BY <1>5, <2>1, <2>2
  <1>12. QED
    BY <1>6, <1>8, <1>9, <1>10, <1>11

LEMMA StepUnlockWake ==
  ASSUME IInv, NEW t \in Threads, UnlockWake(t)
  PROVE  IInv'
  <1> USE MutexAssumption DEF IInv, NoTry, UnlockWake, Goto, fields
  <1>1. /\ holds[t] = 0
        /\ \A u \in Threads \ {t} : ~HasToken(u)
        /\ \E u \in Threads \ {t} : pc[u] \in Waiting
    BY DEF InsideHolds, MutualExclusion, HasToken, HandOffHasTaker, Waiting
  <1>2. TypeOK'
    BY DEF TypeOK, Labels
  <1>3. Counted' = Counted
    BY DEF TypeOK, Counted, Waiting
  <1>4. CountAccounts'
    BY <1>3 DEF CountAccounts
  <1>5. \A u \in Threads : ~HasToken(u)'
    BY <1>1 DEF HasToken, TypeOK
  <1>6. MutualExclusion' /\ HandOffHasTaker'
    BY <1>1, <1>5 DEF MutualExclusion, HandOffHasTaker, TypeOK
  <1>7. InsideHolds' /\ OwnerAgrees' /\ NoTry'
    BY <1>1 DEF InsideHolds, OwnerAgrees, NoTry, TypeOK
  <1>8. QED
    BY <1>2, <1>4, <1>6, <1>7

LEMMA StepUnlockPost ==
  ASSUME IInv, NEW t \in Threads, UnlockPost(t)
  PROVE  IInv'
  <1> USE MutexAssumption DEF IInv, NoTry, UnlockPost, Posted, Goto, fields
  <1>1. TypeOK'
    BY DEF TypeOK, Labels
  <1>2. Counted' = Counted
    BY DEF TypeOK, Counted, Waiting
  <1>3. CountAccounts'
    BY <1>2 DEF CountAccounts
  <1>4. \A u \in Threads : HasToken(u)' <=> HasToken(u)
    BY DEF HasToken, TypeOK
  <1>5. MutualExclusion' /\ HandOffHasTaker'
    BY <1>4 DEF MutualExclusion, HandOffHasTaker, TypeOK, Waiting
  <1>6. InsideHolds' /\ OwnerAgrees' /\ NoTry'
    BY DEF InsideHolds, OwnerAgrees, NoTry, TypeOK
  <1>7. QED
    BY <1>1, <1>3, <1>5, <1>6

LEMMA StepStutter ==
  ASSUME IInv, UNCHANGED vars
  PROVE  IInv'
  <1>1. Counted' = Counted
    BY DEF vars, Counted
  <1>2. QED
    BY <1>1 DEF IInv, vars, TypeOK, InsideHolds, MutualExclusion, HasToken,
                CountAccounts, OwnerAgrees, HandOffHasTaker, NoTry
-----------------------------------------------------------------------------
\* Every step of lock() and unlock() preserves the invariant.
LEMMA StepIInv ==
  ASSUME LockOnly, IInv, [Next]_vars
  PROVE  IInv'
  <1>1. CASE UNCHANGED vars
    BY <1>1, StepStutter
  <1>2. ASSUME NEW t \in Threads, Lock(t) \/ LockStep(t)
        PROVE  IInv'
    BY <1>2, StepLock, StepOwn, StepTest, StepSwap, StepSleep DEF LockStep
  <1>3. ASSUME NEW t \in Threads, UnlockCall(t) \/ UnlockStep(t)
        PROVE  IInv'
    BY <1>3, StepUnlockRecursed, StepUnlockLast, StepUnlockDec,
       StepUnlockWake, StepUnlockPost DEF UnlockCall, UnlockStep
  <1>4. ASSUME NEW t \in Threads PROVE ~TryLock(t) /\ ~TryStep(t)
    BY DEF TryLock, TryStep, TryTest, TryUndo, IInv, NoTry
  <1>5. QED
    BY <1>1, <1>2, <1>3, <1>4 DEF Next

\* The invariant holds in every state of a mutex nobody calls tryLock() on.
THEOREM Invariance ==
  ASSUME LockOnly PROVE Spec => []IInv
  <1>1. Init => IInv
    BY InitIInv
  <1>2. IInv /\ [Next]_vars => IInv'
    BY StepIInv
  <1>3. QED
    BY <1>1, <1>2, PTL DEF Spec

\* The counter stays within its width, the semaphore within its limit, and every
\* thread and field in its domain.
THEOREM TypeCorrect ==
  ASSUME LockOnly PROVE Spec => []TypeOK
  <1>1. IInv => TypeOK
    BY DEF IInv
  <1>2. QED
    BY <1>1, Invariance, PTL

\* Two threads never both have the mutex, however many threads there are.
THEOREM MutexExcludes ==
  ASSUME LockOnly PROVE Spec => []MutualExclusion
  <1>1. IInv => MutualExclusion
    BY DEF IInv
  <1>2. QED
    BY <1>1, Invariance, PTL

\* The asserts under "Nothing owns me" in int_lock() hold without tryLock().
THEOREM AssertsHold ==
  ASSUME LockOnly PROVE Spec => []NothingOwnsMe
  <1>1. IInv => NothingOwnsMe
    BY OwnerStores
  <1>2. QED
    BY <1>1, Invariance, PTL

\* The owner and recursion count are those of the thread that holds claims.
THEOREM OwnerIsHolder ==
  ASSUME LockOnly PROVE Spec => []OwnerAgrees
  <1>1. IInv => OwnerAgrees
    BY DEF IInv
  <1>2. QED
    BY <1>1, Invariance, PTL

\* lockCount accounts for every claim under way and every claim held.
THEOREM CountIsExact ==
  ASSUME LockOnly PROVE Spec => []CountAccounts
  <1>1. IInv => CountAccounts
    BY DEF IInv
  <1>2. QED
    BY <1>1, Invariance, PTL
-----------------------------------------------------------------------------
\* A hand-off is never published to sleepers alone without a post to come.
LEMMA StepWakeup ==
  ASSUME IInv, NoLostWakeup, NEW t \in Threads, Lock(t) \/ LockStep(t)
  PROVE  NoLostWakeup'
  <1> SUFFICES ASSUME wakeSema' = 1
               PROVE  \/ sema' > 0
                      \/ \E u \in Threads : pc'[u] = "unlockPost"
                      \/ \E u \in Threads : pc'[u] \in Waiting /\ ~Asleep(u)'
    BY DEF NoLostWakeup
  <1> USE MutexAssumption DEF IInv, NoTry, TypeOK, Goto, fields
  <1>1. CASE Lock(t)
    BY <1>1 DEF Lock, NoLostWakeup, Asleep, Waiting
  <1>2. CASE LockOwn(t)
    BY <1>2 DEF LockOwn, NoLostWakeup, Asleep, Waiting
  <1>3. CASE LockTest(t)
    <2>1. wakeSema = 1 /\ \A u \in Threads : ~HasToken(u)
      BY <1>3 DEF LockTest, Recurse, HandOffHasTaker
    <2>2. threadId # t
      BY <2>1 DEF HasToken, OwnerAgrees
    <2>3. pc' = [pc EXCEPT ![t] = "lockSwap"]
      BY <1>3, <2>2 DEF LockTest
    <2>4. QED
      BY <2>3 DEF Waiting, Asleep
  <1>4. CASE LockSwap(t) \/ LockSpin(t)
    BY <1>4 DEF LockSwap, LockSpin, GotIt
  <1>5. CASE LockSleep(t)
    BY <1>5 DEF LockSleep, Asleep, Waiting
  <1>6. QED
    BY <1>1, <1>2, <1>3, <1>4, <1>5 DEF LockStep

LEMMA StepWakeupUnlock ==
  ASSUME IInv, NoLostWakeup, NEW t \in Threads, UnlockCall(t) \/ UnlockStep(t)
  PROVE  NoLostWakeup'
  <1> SUFFICES ASSUME wakeSema' = 1
               PROVE  \/ sema' > 0
                      \/ \E u \in Threads : pc'[u] = "unlockPost"
                      \/ \E u \in Threads : pc'[u] \in Waiting /\ ~Asleep(u)'
    BY DEF NoLostWakeup
  <1> USE MutexAssumption DEF IInv, NoTry, TypeOK, Goto, fields
  <1>1. CASE UnlockCall(t)
    BY <1>1 DEF UnlockCall, UnlockRecursed, UnlockLast, NoLostWakeup, Asleep, Waiting
  <1>2. CASE UnlockDec(t)
    BY <1>2 DEF UnlockDec, NoLostWakeup, Asleep, Waiting
  <1>3. CASE UnlockWake(t)
    BY <1>3 DEF UnlockWake
  <1>4. CASE UnlockPost(t)
    BY <1>4 DEF UnlockPost, Posted
  <1>5. QED
    BY <1>1, <1>2, <1>3, <1>4 DEF UnlockStep

\* No interleaving leaves the mutex handed on with every waiter asleep.
THEOREM WakeupsAreKept ==
  ASSUME LockOnly PROVE Spec => []NoLostWakeup
  <1>1. Init => NoLostWakeup
    BY DEF Init, NoLostWakeup
  <1>2. IInv /\ NoLostWakeup /\ [Next]_vars => NoLostWakeup'
    <2> SUFFICES ASSUME IInv, NoLostWakeup, [Next]_vars
                 PROVE  NoLostWakeup'
      OBVIOUS
    <2>1. CASE UNCHANGED vars
      BY <2>1 DEF vars, NoLostWakeup, Asleep
    <2>2. ASSUME NEW t \in Threads PROVE ~TryLock(t) /\ ~TryStep(t)
      BY DEF TryLock, TryStep, TryTest, TryUndo, IInv, NoTry
    <2>3. QED
      BY <2>1, <2>2, StepWakeup, StepWakeupUnlock DEF Next
  <1>3. QED
    BY <1>1, <1>2, Invariance, PTL DEF Spec
-----------------------------------------------------------------------------
\* A step of the mutex is a step of the recursive lock, or changes neither
\* its owner nor its depth.
LEMMA StepRefines ==
  ASSUME LockOnly, IInv, [Next]_vars
  PROVE  [Abstract!Next]_(<<threadId, recurseCount>>)
  <1> USE MutexAssumption DEF IInv, NoTry, Goto, fields
  <1>1. CASE UNCHANGED vars
    BY <1>1 DEF vars
  <1>2. ASSUME NEW t \in Threads PROVE ~TryLock(t) /\ ~TryStep(t)
    BY DEF TryLock, TryStep, TryTest, TryUndo, NoTry
  <1>3. ASSUME NEW t \in Threads, LockOwn(t)
        PROVE  Abstract!Acquire(t)
    BY <1>3, OwnerStores DEF NothingOwnsMe, LockOwn, Abstract!Acquire
  <1>4. ASSUME NEW t \in Threads, LockTest(t)
        PROVE  Abstract!Reacquire(t) \/ UNCHANGED <<threadId, recurseCount>>
    BY <1>4 DEF LockTest, Recurse, Abstract!Reacquire
  <1>5. ASSUME NEW t \in Threads, UnlockRecursed(t)
        PROVE  Abstract!Release(t)
    <2>1. threadId = t /\ recurseCount' = recurseCount - 1 /\ recurseCount # 1
      BY <1>5, UnlockerOwns DEF UnlockRecursed, TypeOK
    <2>2. QED
      BY <1>5, <2>1 DEF UnlockRecursed, Abstract!Release
  <1>6. ASSUME NEW t \in Threads, UnlockLast(t)
        PROVE  Abstract!Release(t)
    <2>1. threadId = t /\ recurseCount' = recurseCount - 1 /\ recurseCount = 1
      BY <1>6, UnlockerOwns DEF UnlockLast, TypeOK
    <2>2. QED
      BY <1>6, <2>1 DEF UnlockLast, Abstract!Release
  <1>7. ASSUME NEW t \in Threads,
               \/ Lock(t) \/ LockSwap(t) \/ LockSpin(t) \/ LockSleep(t)
               \/ UnlockStep(t)
        PROVE  UNCHANGED <<threadId, recurseCount>>
    BY <1>7 DEF Lock, LockSwap, LockSpin, LockSleep, UnlockStep, UnlockDec,
                UnlockWake, UnlockPost
  <1>8. QED
    BY <1>1, <1>2, <1>3, <1>4, <1>5, <1>6, <1>7
    DEF Next, LockStep, UnlockCall, Abstract!Next

\* The fields threadId and recurseCount behave as the abstract recursive lock.
THEOREM Refinement ==
  ASSUME LockOnly PROVE Spec => ImplementsRecursiveLock
  <1>1. Init => Abstract!Init
    BY DEF Init, Abstract!Init
  <1>2. IInv /\ [Next]_vars => [Abstract!Next]_(Abstract!lockVars)
    BY StepRefines DEF Abstract!lockVars
  <1>3. QED
    BY <1>1, <1>2, Invariance, PTL DEF Spec, ImplementsRecursiveLock, Abstract!Spec
=============================================================================
