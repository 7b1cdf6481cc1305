--------------------------- MODULE QWaitCondition ---------------------------
(***************************************************************************)
(* QWaitCondition of src/QThread.cxx as it is built on POSIX: an event     *)
(* object made of a QMutex (the object's own, "p"), a pthread mutex "m" and *)
(* a pthread condition.  wait() takes p, then m, gives up p, and only then *)
(* sleeps; the wakers take p but never m, so the order in which a sleeper  *)
(* falls asleep and a waker signals is left open.  What happens while p is *)
(* held without blocking is one action.                                    *)
(***************************************************************************)
EXTENDS Naturals, FiniteSets

CONSTANTS Threads,  \* the threads that use the object; any may wake or reset it
          Waiters   \* those among them that call wait()

ASSUME ThreadsAssumption == IsFiniteSet(Threads) /\ Waiters \subseteq Threads

VARIABLES
  isAutoReset,  \* chosen by the constructor
  isSignalled,  \* QWaitCondition::isSignalled
  waitcnt,      \* QWaitConditionPrivate::waitcnt
  pc,           \* where each thread is inside an operation
  timed,        \* whether the wait() of a thread has a time limit
  ret,          \* what pthread_cond_wait() or pthread_cond_timedwait() returned
  left,         \* the signals that a thread inside wakeAll() still sends
  owed          \* the threads asleep when the present wakeAll() began
                \* and not woken since (an observer of the properties)

vars == <<isAutoReset, isSignalled, waitcnt, pc, timed, ret, left, owed>>

\* Inside wait(), after waitcnt++ and before waitcnt--; a thread that is
\* cancelled there never gets to the latter.
Inside == {"lockM", "gap", "asleep", "woken", "relock"}
Cancelled == {"unwind", "cancelled"}
Labels == Inside \cup Cancelled \cup {"run", "waking"}

Asleep == {t \in Threads : pc[t] = "asleep"}
Goto(t, l) == pc' = [pc EXCEPT ![t] = l]

\* Nobody holds the object's mutex, nobody holds the pthread mutex.  A thread
\* that was cancelled keeps the latter for ever: no handler unlocks it.
PFree == \A t \in Threads : pc[t] \notin {"lockM", "waking"}
MFree == \A t \in Threads : pc[t] \notin {"gap", "cancelled"}

Init == /\ isAutoReset \in BOOLEAN
        /\ isSignalled \in BOOLEAN
        /\ waitcnt = 0
        /\ pc = [t \in Threads |-> "run"]
        /\ timed = [t \in Threads |-> FALSE]
        /\ ret = [t \in Threads |-> "ok"]
        /\ left = [t \in Threads |-> 0]
        /\ owed = {}
-----------------------------------------------------------------------------
\* wait() on a signalled object: an autoreset object lets one thread through.
WaitPass(t) ==
  /\ t \in Waiters /\ pc[t] = "run" /\ PFree /\ isSignalled
  /\ isSignalled' = ~isAutoReset
  /\ UNCHANGED <<isAutoReset, waitcnt, pc, timed, ret, left, owed>>

\* wait() on an unsignalled object: the thread is counted, and keeps p.
WaitBegin(t) ==
  /\ t \in Waiters /\ pc[t] = "run" /\ PFree /\ ~isSignalled
  /\ waitcnt' = waitcnt + 1
  /\ \E b \in BOOLEAN : timed' = [timed EXCEPT ![t] = b]
  /\ Goto(t, "lockM")
  /\ UNCHANGED <<isAutoReset, isSignalled, ret, left, owed>>

\* pthread_mutex_lock(&p->m), then h.unlock().
WaitLockM(t) ==
  /\ pc[t] = "lockM" /\ MFree
  /\ Goto(t, "gap")
  /\ UNCHANGED <<isAutoReset, isSignalled, waitcnt, timed, ret, left, owed>>

\* pthread_cond_wait() or pthread_cond_timedwait() gives up m and sleeps.
WaitSleep(t) ==
  /\ pc[t] = "gap"
  /\ Goto(t, "asleep")
  /\ UNCHANGED <<isAutoReset, isSignalled, waitcnt, timed, ret, left, owed>>

\* The time of day and the milliseconds are added without a carry: tv_nsec may
\* reach 10^9, and pthread_cond_timedwait() fails at once with EINVAL.
WaitRefused(t) ==
  /\ pc[t] = "gap" /\ timed[t]
  /\ ret' = [ret EXCEPT ![t] = "EINVAL"]
  /\ Goto(t, "relock")
  /\ UNCHANGED <<isAutoReset, isSignalled, waitcnt, timed, left, owed>>

\* The time limit of a sleeper passes.
Timeout_ignored(t) == pc[t] = "asleep" /\ timed[t] /\ UNCHANGED vars

Timeout(t) ==
  /\ pc[t] = "asleep" /\ timed[t]
  /\ ret' = [ret EXCEPT ![t] = "ETIMEDOUT"]
  /\ owed' = owed \ {t}
  /\ Goto(t, "woken")
  /\ UNCHANGED <<isAutoReset, isSignalled, waitcnt, timed, left>>

\* POSIX lets pthread_cond_wait() return with nobody having signalled, and
\* wait() does not test again.
Spurious(t) ==
  /\ pc[t] = "asleep"
  /\ owed' = owed \ {t}
  /\ Goto(t, "woken")
  /\ UNCHANGED <<isAutoReset, isSignalled, waitcnt, timed, ret, left>>

\* A sleeper is cancelled: it takes m again and leaves wait() by the exception
\* of the cancellation, which passes neither pthread_mutex_unlock() nor
\* waitcnt--.
WaitCancel(t) ==
  /\ pc[t] = "asleep"
  /\ owed' = owed \ {t}
  /\ Goto(t, "unwind")
  /\ UNCHANGED <<isAutoReset, isSignalled, waitcnt, timed, ret, left>>

WaitUnwind(t) ==
  /\ pc[t] = "unwind" /\ MFree
  /\ Goto(t, "cancelled")
  /\ UNCHANGED <<isAutoReset, isSignalled, waitcnt, timed, ret, left, owed>>

\* pthread_cond_wait() takes m again and returns, m is unlocked.
WaitWoken(t) ==
  /\ pc[t] = "woken" /\ MFree
  /\ Goto(t, "relock")
  /\ UNCHANGED <<isAutoReset, isSignalled, waitcnt, timed, ret, left, owed>>

\* h.relock() and the end of wait().  FXERRHOS looks for negative results, so
\* a refused wait goes on like any other.
Uncounted_signalledOnly(t) == IF ret[t] = "ok" THEN waitcnt - 1 ELSE waitcnt
Uncounted(t) == waitcnt - 1

WaitReturn(t) ==
  /\ pc[t] = "relock" /\ PFree
  /\ waitcnt' = Uncounted(t)
  /\ isSignalled' = (isSignalled /\ ~isAutoReset)
  /\ ret' = [ret EXCEPT ![t] = "ok"]
  /\ Goto(t, "run")
  /\ UNCHANGED <<isAutoReset, timed, left, owed>>
-----------------------------------------------------------------------------
\* pthread_cond_signal() wakes one of the sleepers, if there is one; w goes on
\* to label l.
Signal(w, l) ==
  \/ \E t \in Asleep : /\ pc' = [pc EXCEPT ![t] = "woken", ![w] = l]
                       /\ owed' = owed \ {t}
  \/ Asleep = {} /\ Goto(w, l) /\ UNCHANGED owed

\* wakeOne(): nothing is remembered when nobody waits.
WakeOne(w) ==
  /\ pc[w] = "run" /\ PFree
  /\ \/ waitcnt > 0 /\ Signal(w, "run")
     \/ waitcnt = 0 /\ UNCHANGED <<pc, owed>>
  /\ UNCHANGED <<isAutoReset, isSignalled, waitcnt, timed, ret, left>>

\* wakeAll() with nobody waiting: the next thread is let through.
WakeAllNone(w) ==
  /\ pc[w] = "run" /\ PFree /\ waitcnt = 0
  /\ isSignalled' = TRUE
  /\ UNCHANGED <<isAutoReset, waitcnt, pc, timed, ret, left, owed>>

\* wakeAll() with threads waiting: it signals waitcnt times, holding p, and
\* only a manual-reset object stays signalled.
StaysSignalled_always == TRUE
StaysSignalled == isSignalled \/ ~isAutoReset
SignalsSent_one == 1
SignalsSent == waitcnt

WakeAll(w) ==
  /\ pc[w] = "run" /\ PFree /\ waitcnt > 0
  /\ isSignalled' = StaysSignalled
  /\ left' = [left EXCEPT ![w] = SignalsSent]
  /\ owed' = Asleep
  /\ Goto(w, "waking")
  /\ UNCHANGED <<isAutoReset, waitcnt, timed, ret>>

\* One turn of wakeAll()'s loop; p is given up after the last.
WakeAllSignal(w) ==
  /\ pc[w] = "waking"
  /\ left' = [left EXCEPT ![w] = @ - 1]
  /\ Signal(w, IF left[w] = 1 THEN "run" ELSE "waking")
  /\ UNCHANGED <<isAutoReset, isSignalled, waitcnt, timed, ret>>

\* reset().
Reset(w) ==
  /\ pc[w] = "run" /\ PFree
  /\ isSignalled' = FALSE
  /\ UNCHANGED <<isAutoReset, waitcnt, pc, timed, ret, left, owed>>
-----------------------------------------------------------------------------
WaitStep(t) == WaitLockM(t) \/ WaitSleep(t) \/ WaitRefused(t) \/ Timeout(t)
               \/ WaitWoken(t) \/ WaitReturn(t)
               \/ Spurious(t) \/ WaitCancel(t) \/ WaitUnwind(t)

Next == \E t \in Threads :
          \/ WaitPass(t) \/ WaitBegin(t) \/ WaitStep(t)
          \/ WakeOne(t) \/ WakeAllNone(t) \/ WakeAll(t) \/ WakeAllSignal(t)
          \/ Reset(t)

Spec == Init /\ [][Next]_vars

\* Threads inside an operation run on, time passes, and whoever waits for a
\* mutex that is given up again and again gets it in the end.  Nobody has to
\* call wait(), wakeOne(), wakeAll() or reset(), no thread has to be cancelled
\* and none wakes spuriously in order to make progress.
Fairness == \A t \in Threads :
              /\ WF_vars(WaitSleep(t) \/ WaitRefused(t) \/ Timeout(t)
                         \/ WakeAllSignal(t))
              /\ SF_vars(WaitLockM(t) \/ WaitWoken(t) \/ WaitReturn(t))
FairSpec == Spec /\ Fairness
-----------------------------------------------------------------------------
\* Every variable stays in its domain.
TypeOK == /\ isAutoReset \in BOOLEAN /\ isSignalled \in BOOLEAN
          /\ waitcnt \in 0..Cardinality(Threads)
          /\ pc \in [Threads -> Labels]
          /\ timed \in [Threads -> BOOLEAN]
          /\ ret \in [Threads -> {"ok", "ETIMEDOUT", "EINVAL"}]
          /\ left \in [Threads -> 0..Cardinality(Threads)]
          /\ owed \subseteq Threads

\* waitcnt counts the threads inside wait() whichever way they return from it,
\* woken, timed out or refused by the kernel, and those cancelled inside it.
Counted == {t \in Threads : pc[t] \in Inside \cup Cancelled}
WaitCountExact == waitcnt = Cardinality(Counted)

\* A thread that is asleep when wakeAll() begins is awake when it ends, also
\* when others fall asleep during the loop and take signals meant for it.
WakeAllReaches ==
  (\A w \in Threads : pc[w] # "waking") => owed = {}

\* The assert of reset() holds for an autoreset object: it is never signalled
\* while a thread waits on it.
AutoResetAssert == isAutoReset => ~isSignalled \/ waitcnt = 0

\* A thread was cancelled inside wait(): m is lost, and soon the object's mutex.
SomeCancelled == \E t \in Threads : pc[t] \in Cancelled

\* A wait with a time limit returns, whether or not anybody wakes it, unless a
\* thread is cancelled inside a wait().
TimedWaitsReturn == \A t \in Threads :
  pc[t] \in Inside /\ timed[t] ~> pc[t] = "run" \/ SomeCancelled

\* A thread that is asleep when wakeAll() runs returns from wait(), unless a
\* thread is cancelled inside one.
SleepersReturn == \A t \in Threads : t \in owed ~> pc[t] = "run" \/ SomeCancelled

\* "Signals object & wakes all threads waiting" (include/QThread.h): the same
\* for every thread that waitcnt counts.
WakeAllWakes == \A t, w \in Threads :
  pc[t] \in Inside /\ pc[w] = "waking" ~> pc[t] = "run" \/ SomeCancelled
=============================================================================
