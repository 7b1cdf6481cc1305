------------------------ MODULE QWaitConditionProofs ------------------------
(***************************************************************************)
(* For any number of threads that wait, with and without a limit, and wake:*)
(* waitcnt is exact, an autoreset object is never signalled under a waiter *)
(* and wakeAll() has woken every sleeper it found when it ends.            *)
(***************************************************************************)
EXTENDS QWaitCondition, FiniteSetTheorems, TLAPS

\* One thread at a time keeps the object's mutex from one step to the next.
OneHolder ==
  \A t, u \in Threads : /\ pc[t] \in {"lockM", "waking"}
                        /\ pc[u] \in {"lockM", "waking"}
                        => t = u

\* The threads a signal may be spent on before wakeAll() ends.
Sleepy == {t \in Threads : pc[t] \in {"gap", "asleep"}}

\* As long as a thread is owed a wake, wakeAll() has as many signals left as
\* there are threads that sleep or are about to.
LoopReaches ==
  \A w \in Threads :
    pc[w] = "waking" => left[w] > 0 /\ (owed = {} \/ Cardinality(Sleepy) <= left[w])

\* The inductive invariant.
IInv == /\ TypeOK
        /\ WaitCountExact
        /\ AutoResetAssert
        /\ OneHolder
        /\ LoopReaches
        /\ owed \subseteq Asleep
        /\ WakeAllReaches

\* Sets of threads are finite, and their cardinalities are bounded by it.
LEMMA SetsAreFinite ==
  ASSUME NEW S \in SUBSET Threads
  PROVE  /\ IsFiniteSet(S) /\ Cardinality(S) \in Nat
         /\ Cardinality(S) <= Cardinality(Threads) /\ Cardinality(Threads) \in Nat
         /\ \A t \in Threads \ S : Cardinality(S \cup {t}) = Cardinality(S) + 1
         /\ \A t \in S : Cardinality(S \ {t}) = Cardinality(S) - 1
         /\ Cardinality(S) = 0 <=> S = {}
         /\ \A R \in SUBSET S : Cardinality(R) <= Cardinality(S)
  BY FS_Subset, FS_AddElement, FS_RemoveElement, FS_CardinalityType, FS_EmptySet,
     ThreadsAssumption

\* With nobody in wakeAll() nobody is owed anything.
LEMMA NobodyOwed ==
  ASSUME IInv, PFree PROVE owed = {}
  BY DEF IInv, PFree, WakeAllReaches

LEMMA InitIInv == Init => IInv
  <1> SUFFICES ASSUME Init PROVE IInv
    OBVIOUS
  <1>1. Counted = {} /\ Cardinality(Counted) = 0
    BY FS_EmptySet DEF Init, Counted, Inside, Cancelled
  <1>2. Cardinality(Threads) \in Nat
    BY SetsAreFinite
  <1>3. QED
    BY <1>1, <1>2 DEF Init, IInv, TypeOK, Labels, Inside, Cancelled, WaitCountExact,
       AutoResetAssert, OneHolder, LoopReaches, WakeAllReaches
-----------------------------------------------------------------------------
\* A thread is counted, holding the object's mutex.
LEMMA StepBegin ==
  ASSUME IInv, NEW t \in Threads, WaitBegin(t)
  PROVE  IInv'
  <1> USE DEF IInv, WaitBegin, Goto
  <1>1. Counted' = Counted \cup {t} /\ t \in Threads \ Counted
    BY DEF Counted, Inside, Cancelled, TypeOK
  <1>2. Counted \in SUBSET Threads /\ Counted' \in SUBSET Threads
    BY DEF Counted
  <1>3. WaitCountExact'
    BY <1>1, <1>2, SetsAreFinite DEF WaitCountExact
  <1>4. waitcnt' \in 0..Cardinality(Threads)
    BY <1>2, <1>3, SetsAreFinite DEF WaitCountExact
  <1>5. TypeOK'
    BY <1>4 DEF TypeOK, Labels, Inside, Cancelled
  <1>6. AutoResetAssert' /\ OneHolder'
    BY DEF AutoResetAssert, OneHolder, PFree, TypeOK
  <1>7. owed = {}
    BY NobodyOwed
  <1>8. LoopReaches' /\ (owed \subseteq Asleep)' /\ WakeAllReaches'
    BY <1>7 DEF LoopReaches, WakeAllReaches, PFree, TypeOK
  <1>9. QED
    BY <1>3, <1>5, <1>6, <1>8

\* A thread inside wait() gets on, and stays counted.
LEMMA StepInside ==
  ASSUME IInv, NEW t \in Threads,
         \/ WaitLockM(t) \/ WaitSleep(t) \/ WaitRefused(t) \/ WaitWoken(t)
         \/ Timeout(t) \/ Spurious(t) \/ WaitCancel(t) \/ WaitUnwind(t)
  PROVE  IInv'
  <1> USE DEF IInv, WaitLockM, WaitSleep, WaitRefused, Timeout, WaitWoken, Goto,
          Spurious, WaitCancel, WaitUnwind
  <1>1. Counted' = Counted
    BY DEF Counted, Inside, Cancelled, TypeOK
  <1>2. TypeOK'
    BY DEF TypeOK, Labels, Inside, Cancelled
  <1>3. WaitCountExact' /\ AutoResetAssert' /\ OneHolder'
    BY <1>1 DEF WaitCountExact, AutoResetAssert, OneHolder, TypeOK
  <1>4. (owed \subseteq Asleep)'
    BY DEF Asleep, TypeOK
  <1>5. WakeAllReaches'
    BY DEF WakeAllReaches, TypeOK
  <1>6. LoopReaches'
    <2> SUFFICES ASSUME NEW w \in Threads, pc'[w] = "waking", owed' # {}
                 PROVE  Cardinality(Sleepy') <= left[w]
      BY DEF LoopReaches, TypeOK
    <2>1. pc[w] = "waking" /\ owed # {} /\ Cardinality(Sleepy) <= left[w]
      BY DEF LoopReaches, TypeOK
    <2>2. ~WaitLockM(t)
      BY <2>1 DEF OneHolder
    <2>3. Sleepy' \in SUBSET Sleepy /\ Sleepy \in SUBSET Threads
      BY <2>2 DEF Sleepy, TypeOK
    <2>4. QED
      BY <2>1, <2>3, SetsAreFinite DEF TypeOK
  <1>7. QED
    BY <1>2, <1>3, <1>4, <1>5, <1>6

\* wait() ends, whichever way.
LEMMA StepReturn ==
  ASSUME IInv, NEW t \in Threads, WaitReturn(t)
  PROVE  IInv'
  <1> USE DEF IInv, WaitReturn, Uncounted, Goto
  <1>1. Counted' = Counted \ {t} /\ t \in Counted
    BY DEF Counted, Inside, Cancelled, TypeOK
  <1>2. Counted \in SUBSET Threads /\ Counted' \in SUBSET Threads
    BY DEF Counted
  <1>3. WaitCountExact'
    BY <1>1, <1>2, SetsAreFinite DEF WaitCountExact
  <1>4. waitcnt' \in 0..Cardinality(Threads)
    BY <1>2, <1>3, SetsAreFinite DEF WaitCountExact
  <1>5. TypeOK'
    BY <1>4 DEF TypeOK, Labels
  <1>6. AutoResetAssert' /\ OneHolder'
    <2>1. isAutoReset => ~isSignalled'
      BY <1>1, <1>2, SetsAreFinite DEF AutoResetAssert, WaitCountExact, TypeOK
    <2>2. OneHolder'
      BY DEF OneHolder, PFree, TypeOK
    <2>3. QED
      BY <2>1, <2>2 DEF AutoResetAssert
  <1>7. owed = {}
    BY NobodyOwed
  <1>8. LoopReaches' /\ (owed \subseteq Asleep)' /\ WakeAllReaches'
    BY <1>7 DEF LoopReaches, WakeAllReaches, PFree, TypeOK
  <1>9. QED
    BY <1>3, <1>5, <1>6, <1>8
-----------------------------------------------------------------------------
\* A signal, sent by w: it wakes some sleeper or, with none asleep, nobody.
LEMMA SignalWakes ==
  ASSUME TypeOK, NEW w \in Threads, NEW l \in Labels, pc[w] \notin Inside \cup Cancelled,
         l \notin Inside \cup Cancelled, owed \subseteq Asleep, Signal(w, l)
  PROVE  /\ pc' \in [Threads -> Labels] /\ pc'[w] = l
         /\ \A t \in Threads \ {w} :
              pc'[t] = pc[t] \/ (pc[t] = "asleep" /\ pc'[t] = "woken")
         /\ owed' \subseteq owed /\ (owed \subseteq Asleep)'
         /\ Counted' = Counted
         /\ owed # {} => \E t \in Sleepy : Sleepy' = Sleepy \ {t}
  <1>1. CASE Asleep = {} /\ Goto(w, l) /\ UNCHANGED owed
    BY <1>1 DEF Goto, TypeOK, Labels, Asleep, Counted
  <1>2. ASSUME NEW t \in Asleep, owed' = owed \ {t},
               pc' = [pc EXCEPT ![t] = "woken", ![w] = l]
        PROVE  /\ pc' \in [Threads -> Labels] /\ pc'[w] = l
               /\ \A u \in Threads \ {w} :
                    pc'[u] = pc[u] \/ (pc[u] = "asleep" /\ pc'[u] = "woken")
               /\ owed' \subseteq owed /\ (owed \subseteq Asleep)'
               /\ Counted' = Counted
               /\ t \in Sleepy /\ Sleepy' = Sleepy \ {t}
    <2>1. t \in Threads /\ pc[t] = "asleep" /\ t # w
      BY <1>2 DEF Asleep, Inside
    <2>2. \A u \in Threads : pc'[u] = IF u = w THEN l
                                     ELSE IF u = t THEN "woken" ELSE pc[u]
      BY <1>2, <2>1 DEF TypeOK
    <2>3. pc' \in [Threads -> Labels]
      BY <1>2, <2>1 DEF TypeOK, Labels, Inside, Cancelled
    <2>4. owed' \subseteq owed /\ (owed \subseteq Asleep)'
      BY <1>2, <2>1, <2>2 DEF Asleep, Inside
    <2>5. Counted' = Counted
      BY <2>1, <2>2 DEF Counted, Inside, Cancelled
    <2>6. t \in Sleepy /\ Sleepy' = Sleepy \ {t}
      BY <2>1, <2>2 DEF Sleepy, Inside
    <2>7. QED
      BY <2>1, <2>2, <2>3, <2>4, <2>5, <2>6
  <1>3. QED
    BY <1>1, <1>2 DEF Signal

\* Steps that neither count nor put to sleep a thread, with nobody in wakeAll().
LEMMA StepIdle ==
  ASSUME IInv, NEW t \in Threads,
         WaitPass(t) \/ WakeAllNone(t) \/ Reset(t)
  PROVE  IInv'
  <1> USE DEF IInv, WaitPass, WakeAllNone, Reset
  <1>1. Counted' = Counted /\ Sleepy' = Sleepy
    BY DEF Counted, Sleepy
  <1>2. TypeOK'
    BY DEF TypeOK
  <1>3. WaitCountExact' /\ AutoResetAssert'
    BY <1>1 DEF WaitCountExact, AutoResetAssert, TypeOK
  <1>4. OneHolder' /\ (owed \subseteq Asleep)' /\ WakeAllReaches'
    BY DEF OneHolder, Asleep, WakeAllReaches
  <1>5. LoopReaches'
    BY <1>1 DEF LoopReaches
  <1>6. QED
    BY <1>2, <1>3, <1>4, <1>5

LEMMA StepWakeOne ==
  ASSUME IInv, NEW w \in Threads, WakeOne(w)
  PROVE  IInv'
  <1> USE DEF IInv, WakeOne
  <1>1. owed = {}
    BY NobodyOwed
  <1>2. CASE UNCHANGED <<pc, owed>>
    <2>1. Counted' = Counted
      BY <1>2 DEF Counted
    <2>2. QED
      BY <1>1, <1>2, <2>1 DEF TypeOK, WaitCountExact, AutoResetAssert, OneHolder,
         LoopReaches, WakeAllReaches, PFree
  <1>3. CASE Signal(w, "run")
    <2>1. /\ pc' \in [Threads -> Labels] /\ Counted' = Counted
          /\ \A t \in Threads : pc'[t] \notin {"lockM", "waking"}
          /\ owed' = {}
      BY <1>1, <1>3, SignalWakes DEF Inside, Cancelled, Labels, PFree
    <2>2. QED
      BY <2>1 DEF TypeOK, WaitCountExact, AutoResetAssert, OneHolder,
         LoopReaches, WakeAllReaches
  <1>4. QED
    BY <1>2, <1>3

\* wakeAll() takes the object's mutex and counts the signals it will send.
LEMMA StepWakeAll ==
  ASSUME IInv, NEW w \in Threads, WakeAll(w)
  PROVE  IInv'
  <1> USE DEF IInv, WakeAll, StaysSignalled, SignalsSent, Goto
  <1>1. Counted' = Counted /\ Sleepy' = Sleepy /\ Asleep' = Asleep
    BY DEF Counted, Sleepy, Asleep, Inside, Cancelled, TypeOK
  <1>2. TypeOK'
    BY DEF TypeOK, Labels, Asleep
  <1>3. WaitCountExact' /\ AutoResetAssert' /\ OneHolder' /\ WakeAllReaches'
    BY <1>1 DEF WaitCountExact, AutoResetAssert, OneHolder, WakeAllReaches,
       PFree, TypeOK
  <1>4. Sleepy \in SUBSET Counted /\ Counted \in SUBSET Threads
    BY DEF Sleepy, Counted, Inside, Cancelled
  <1>5. Cardinality(Sleepy) <= waitcnt
    BY <1>4, SetsAreFinite DEF WaitCountExact
  <1>6. LoopReaches'
    BY <1>1, <1>5 DEF LoopReaches, PFree, TypeOK
  <1>7. QED
    BY <1>1, <1>2, <1>3, <1>6

\* One turn of the loop: while anybody is owed, the signals left and the
\* sleepers become one less together.
LEMMA StepWakeAllSignal ==
  ASSUME IInv, NEW w \in Threads, WakeAllSignal(w)
  PROVE  IInv'
  <1> DEFINE l == IF left[w] = 1 THEN "run" ELSE "waking"
  <1> USE DEF IInv, WakeAllSignal
  <1>1. /\ pc' \in [Threads -> Labels] /\ pc'[w] = l
        /\ \A t \in Threads \ {w} :
             pc'[t] = pc[t] \/ (pc[t] = "asleep" /\ pc'[t] = "woken")
        /\ owed' \subseteq owed /\ (owed \subseteq Asleep)'
        /\ Counted' = Counted
        /\ owed # {} => \E t \in Sleepy : Sleepy' = Sleepy \ {t}
    BY SignalWakes DEF Labels, Inside, Cancelled
  <1>2. left[w] \in Nat /\ left[w] > 0 /\ left'[w] = left[w] - 1
    BY DEF LoopReaches, TypeOK
  <1>3. left' \in [Threads -> 0..Cardinality(Threads)]
    BY <1>2, SetsAreFinite DEF TypeOK
  <1>4. TypeOK'
    BY <1>1, <1>3 DEF TypeOK
  <1>5. WaitCountExact' /\ AutoResetAssert'
    BY <1>1 DEF WaitCountExact, AutoResetAssert
  <1>6. \A t \in Threads \ {w} : pc'[t] \notin {"lockM", "waking"}
    BY <1>1 DEF OneHolder
  <1>7. OneHolder'
    BY <1>6 DEF OneHolder
  <1>8. Sleepy \in SUBSET Threads /\ Sleepy' \in SUBSET Threads
    BY DEF Sleepy
  <1>9. owed' # {} => Cardinality(Sleepy') <= left'[w]
    BY <1>1, <1>2, <1>8, SetsAreFinite DEF LoopReaches
  <1>10. LoopReaches'
    BY <1>1, <1>2, <1>6, <1>9 DEF LoopReaches
  <1>11. left[w] = 1 => owed' = {}
    <2> SUFFICES ASSUME left[w] = 1, owed' # {} PROVE FALSE
      OBVIOUS
    <2>1. Cardinality(Sleepy') <= 0 /\ Cardinality(Sleepy') \in Nat
      BY <1>2, <1>8, <1>9, SetsAreFinite
    <2>2. Sleepy' = {}
      BY <2>1, <1>8, SetsAreFinite
    <2>3. Asleep' \subseteq Sleepy'
      BY DEF Asleep, Sleepy
    <2>4. QED
      BY <1>1, <2>2, <2>3
  <1>12. WakeAllReaches'
    BY <1>1, <1>11 DEF WakeAllReaches
  <1>13. QED
    BY <1>1, <1>4, <1>5, <1>7, <1>10, <1>12
-----------------------------------------------------------------------------
LEMMA StepIInv == IInv /\ [Next]_vars => IInv'
  <1> SUFFICES ASSUME IInv, [Next]_vars PROVE IInv'
    OBVIOUS
  <1>1. ASSUME NEW t \in Threads, WaitStep(t) PROVE IInv'
    BY <1>1, StepInside, StepReturn DEF WaitStep
  <1>2. ASSUME NEW t \in Threads,
               \/ WaitPass(t) \/ WaitBegin(t) \/ WakeOne(t) \/ WakeAllNone(t)
               \/ WakeAll(t) \/ WakeAllSignal(t) \/ Reset(t)
        PROVE  IInv'
    BY <1>2, StepIdle, StepBegin, StepWakeOne, StepWakeAll, StepWakeAllSignal
  <1>3. CASE UNCHANGED vars
    <2>1. Counted' = Counted /\ Sleepy' = Sleepy /\ Asleep' = Asleep
      BY <1>3 DEF vars, Counted, Sleepy, Asleep
    <2>2. QED
      BY <1>3, <2>1 DEF vars, IInv, TypeOK, WaitCountExact, AutoResetAssert,
         OneHolder, LoopReaches, WakeAllReaches
  <1>4. QED
    BY <1>1, <1>2, <1>3 DEF Next

\* The invariant holds in every state.
THEOREM Invariance == Spec => []IInv
  <1>1. QED
    BY InitIInv, StepIInv, PTL DEF Spec

\* No count of waiters, signals or steps leaves its domain.
THEOREM TypeCorrect == Spec => []TypeOK
  <1>1. IInv => TypeOK
    BY DEF IInv
  <1>2. QED
    BY <1>1, Invariance, PTL

\* waitcnt is the number of threads inside wait(), in every state, whether
\* they return from it woken, timed out or refused or were cancelled in it.
THEOREM CountIsExact == Spec => []WaitCountExact
  <1>1. IInv => WaitCountExact
    BY DEF IInv
  <1>2. QED
    BY <1>1, Invariance, PTL

\* The assert of reset() holds for every autoreset object.
THEOREM ResetAsserts == Spec => []AutoResetAssert
  <1>1. IInv => AutoResetAssert
    BY DEF IInv
  <1>2. QED
    BY <1>1, Invariance, PTL

\* wakeAll() ends with every thread awake that was asleep when it began, for
\* any number of waiters that meanwhile time out or fall asleep.
THEOREM AllReached == Spec => []WakeAllReaches
  <1>1. IInv => WakeAllReaches
    BY DEF IInv
  <1>2. QED
    BY <1>1, Invariance, PTL
=============================================================================
