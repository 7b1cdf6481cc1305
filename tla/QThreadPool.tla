---------------------------- MODULE QThreadPool ----------------------------
(***************************************************************************)
(* QThreadPool of src/QThread.cxx: a list of worker threads, a FIFO queue, *)
(* timed jobs kept by a time keeper thread, and clients that dispatch,     *)
(* cancel and wait.  What happens under the pool's mutex is one action;    *)
(* the workers' "free" flags, the count of free workers and the end of a   *)
(* job are changed without it.  Assertions are compiled out (NDEBUG).      *)
(***************************************************************************)
EXTENDS Integers, Sequences, SequencesExt, FiniteSets

CONSTANTS Workers,   \* the Thread objects that are ever created
          Jobs,      \* the jobs, each dispatched once
          Clients,   \* the threads that use the pool
          Totals,    \* the numbers setTotal() is called with
          Delayed,   \* the jobs dispatched with a delay, the others have none
          Awaited,   \* the jobs some client waits for
          Throwing,  \* the jobs that may end with an exception
          Null       \* the null pointer

ASSUME PoolAssumption ==
  /\ IsFiniteSet(Workers) /\ IsFiniteSet(Jobs) /\ Null \notin Jobs \cup Workers
  /\ Totals \subseteq Nat /\ Delayed \cup Awaited \cup Throwing \subseteq Jobs

VARIABLES
  dynamic, total, maximum,  \* the fields of QThreadPoolPrivate
  freeCount,   \* QThreadPoolPrivate::free
  threads,     \* the list of workers
  waiting,     \* the FIFO queue
  timed,       \* the entries of the time keeper
  transit,     \* the job the time keeper took out, holding its own mutex
  at,          \* where each worker is
  free,        \* Thread::free
  item,        \* Thread::codeitem
  code,        \* _code of a worker that has ended a job
  signal,      \* isSignalled of each worker's autoreset wait condition
  waitingwcs,  \* the wait condition of each job, if it has one
  client,      \* where each client is, and with which job
  final,       \* the jobs cancel() has answered NotFound or Cancelled for
  fate,        \* what became of each job (an observer)
  missed,      \* a wake met a thread between its test and its sleep (observer)
  stuck        \* a thread is joined under the pool's mutex, for good

sizes == <<dynamic, total, maximum>>
queues == <<waiting, timed, transit>>
worker == <<at, free, item, code, signal>>
clients == <<client, final>>
\* What a worker leaves alone while it does not hold the pool's mutex, and what
\* cancel() and wait() do.
others == <<sizes, threads, queues, waitingwcs, clients, fate, missed, stuck>>
workers == <<sizes, freeCount, threads, worker, missed, stuck>>
vars == <<sizes, freeCount, threads, queues, worker, waitingwcs, clients,
          fate, missed, stuck>>

\* The constructor, with the call to setTotal() that ends it: a pool that is not
\* dynamic starts all its threads.
Init == /\ dynamic \in BOOLEAN /\ maximum \in Totals
        /\ total = IF dynamic THEN 0 ELSE maximum
        /\ total <= Cardinality(Workers)  \* the bound on Thread objects
        /\ threads = SetToSeq(CHOOSE S \in SUBSET Workers : Cardinality(S) = total)
        /\ at = [w \in Workers |-> IF w \in Range(threads) THEN "starting" ELSE "new"]
        /\ freeCount = 0
        /\ waiting = <<>> /\ timed = {} /\ transit = Null
        /\ free = [w \in Workers |-> TRUE]
        /\ item = [w \in Workers |-> Null]
        /\ code = [w \in Workers |-> Null]
        /\ signal = [w \in Workers |-> FALSE]
        /\ waitingwcs = [j \in Jobs |-> "none"]
        /\ client = [c \in Clients |-> [at |-> "run", job |-> Null, on |-> Null]]
        /\ final = {}
        /\ fate = [j \in Jobs |-> "new"]
        /\ missed = FALSE /\ stuck = FALSE

Goto(w, l) == at' = [at EXCEPT ![w] = l]
-----------------------------------------------------------------------------
\* A worker.  QThread::start() has made the thread; it marks itself running.
Run(w) ==
  /\ at[w] = "starting"
  /\ Goto(w, "top")
  /\ UNCHANGED <<others, freeCount, free, item, code, signal>>

\* The head of the loop, under the pool's mutex: the worker takes the oldest
\* waiting job and its own mutex, or goes free.
TakeOrGoFree(w) ==
  \/ /\ waiting # <<>>
     /\ item' = [item EXCEPT ![w] = Head(waiting)]
     /\ waiting' = Tail(waiting)
     /\ Goto(w, "busy")
  \/ /\ waiting = <<>>
     /\ Goto(w, "unmarked")
     /\ UNCHANGED <<item, waiting>>

Top(w) ==
  /\ ~stuck /\ at[w] = "top"
  /\ TakeOrGoFree(w)
  /\ UNCHANGED <<sizes, freeCount, threads, timed, transit, free, code, signal,
                 waitingwcs, clients, fate, missed, stuck>>

\* free=true and ++parent->free, without the mutex.  A worker too many retires.
MarkFree(w) ==
  /\ at[w] = "unmarked"
  /\ free' = [free EXCEPT ![w] = TRUE]
  /\ Goto(w, "marked")
  /\ UNCHANGED <<others, freeCount, item, code, signal>>

CountFree(w) ==
  /\ at[w] = "marked"
  /\ freeCount' = freeCount + 1
  /\ Goto(w, IF freeCount' > total THEN "retire" ELSE "test")
  /\ UNCHANGED <<others, free, item, code, signal>>

\* It takes back the flag, then the count, and leaves run().
RetireUnmark(w) ==
  /\ at[w] = "retire"
  /\ free' = [free EXCEPT ![w] = FALSE]
  /\ Goto(w, "uncount")
  /\ UNCHANGED <<others, freeCount, item, code, signal>>

RetireUncount(w) ==
  /\ at[w] = "uncount"
  /\ freeCount' = freeCount - 1
  /\ Goto(w, "exit")
  /\ UNCHANGED <<others, free, item, code, signal>>

\* QThread's cleanup marks the thread finished; selfDestruct() then takes it off
\* the pool's list and deletes it with whatever job it was given.
Exit(w) ==
  /\ at[w] = "exit"
  /\ Goto(w, "finished")
  /\ UNCHANGED <<others, freeCount, free, item, code, signal>>

SelfDestruct(w) ==
  /\ ~stuck /\ at[w] = "finished"
  /\ threads' = RemoveFirst(threads, w)
  /\ item' = [item EXCEPT ![w] = Null]
  /\ Goto(w, "gone")
  /\ UNCHANGED <<sizes, freeCount, queues, free, code, signal, waitingwcs,
                 clients, fate, missed, stuck>>

\* wc.wait(): the autoreset event lets the worker through, or it goes to sleep.
EventTest_manual(w) ==
  /\ at[w] = "test"
  /\ Goto(w, IF signal[w] THEN "woken" ELSE "gap")
  /\ UNCHANGED <<others, freeCount, free, item, code, signal>>

EventTest(w) ==
  /\ at[w] = "test"
  /\ signal' = [signal EXCEPT ![w] = FALSE]
  /\ Goto(w, IF signal[w] THEN "woken" ELSE "gap")
  /\ UNCHANGED <<others, freeCount, free, item, code>>

EventSleep(w) ==
  /\ at[w] = "gap"
  /\ Goto(w, "asleep")
  /\ UNCHANGED <<others, freeCount, free, item, code, signal>>

\* free=false and lock(): only from here can cancel() wait for the job.  A worker
\* woken without a job dereferences a null pointer; the model leaves it there.
Begin(w) ==
  /\ at[w] = "woken" /\ item[w] # Null
  /\ free' = [free EXCEPT ![w] = FALSE]
  /\ Goto(w, "busy")
  /\ UNCHANGED <<others, freeCount, item, code, signal>>

\* The job returns, and is taken out of codeitem without the pool's mutex.
Finish(w) ==
  /\ at[w] = "busy"
  /\ code' = [code EXCEPT ![w] = item[w]]
  /\ item' = [item EXCEPT ![w] = Null]
  /\ fate' = [fate EXCEPT ![item[w]] = "done"]
  /\ Goto(w, "ended")
  /\ UNCHANGED <<sizes, freeCount, threads, queues, free, signal, waitingwcs,
                 clients, missed, stuck>>

\* The job throws: codeitem is left as it is, and nobody is woken.
Throw(w) ==
  /\ at[w] = "busy" /\ item[w] \in Throwing
  /\ fate' = [fate EXCEPT ![item[w]] = "thrown"]
  /\ Goto(w, "top")
  /\ UNCHANGED <<sizes, freeCount, threads, queues, free, item, code, signal,
                 waitingwcs, clients, missed, stuck>>

\* wakeAll() on the wait condition of job j.
WaitersOf(j, l) == {c \in Clients : client[c].at = l /\ client[c].job = j}
WakeWaiters(j) ==
  IF waitingwcs[j] = "none" THEN UNCHANGED <<waitingwcs, client, missed>>
  ELSE /\ waitingwcs' = [waitingwcs EXCEPT ![j] = "signalled"]
       /\ client' = [c \in Clients |-> IF c \in WaitersOf(j, "asleep")
                       THEN [client[c] EXCEPT !.at = "woken"] ELSE client[c]]
       /\ missed' = (missed \/ WaitersOf(j, "gap") # {})

\* The worker has the pool's mutex again and goes round the loop with it.
Done_noWake(w) ==
  /\ ~stuck /\ at[w] = "ended"
  /\ code' = [code EXCEPT ![w] = Null]
  /\ TakeOrGoFree(w)
  /\ UNCHANGED <<sizes, freeCount, threads, timed, transit, free, signal,
                 waitingwcs, clients, fate, missed, stuck>>

Done(w) ==
  /\ ~stuck /\ at[w] = "ended"
  /\ code' = [code EXCEPT ![w] = Null]
  /\ WakeWaiters(code[w])
  /\ TakeOrGoFree(w)
  /\ UNCHANGED <<sizes, freeCount, threads, timed, transit, free, signal, final,
                 fate, stuck>>
-----------------------------------------------------------------------------
\* startThreads(n): new threads are appended (which Thread object is which is
\* arbitrary), then every thread that is not running is started.  One that is
\* on its way in or out is joined, and it needs the mutex its joiner holds.
Added(n) == CHOOSE S \in SUBSET {w \in Workers : at[w] = "new"} :
              Cardinality(S) = IF n > total THEN n - total ELSE 0
Joins == \E w \in Range(threads) : at[w] \in {"starting", "finished"}

StartThreads(n) ==
  /\ n - total <= Cardinality({w \in Workers : at[w] = "new"})
  /\ threads' = threads \o SetToSeq(Added(n))
  /\ total' = n
  /\ stuck' = Joins
  /\ at' = [w \in Workers |-> IF w \in Added(n) /\ ~Joins THEN "starting" ELSE at[w]]

SetTotal(c, n) ==
  /\ ~stuck /\ client[c].at = "run"
  /\ maximum' = n
  /\ IF dynamic THEN UNCHANGED <<threads, total, stuck, at>> ELSE StartThreads(n)
  /\ UNCHANGED <<dynamic, freeCount, queues, free, item, code, signal,
                 waitingwcs, clients, fate, missed>>

\* dispatch() with no delay: the first free worker without a job gets it.
Idle(w) == free[w] /\ item[w] = Null

FreeAfterGive_kept == freeCount
FreeAfterGive == freeCount - 1

Give(w, j) ==
  /\ freeCount' = FreeAfterGive
  /\ item' = [item EXCEPT ![w] = j]
  /\ signal' = [signal EXCEPT ![w] = at[w] \notin {"gap", "asleep"}]
  /\ at' = [at EXCEPT ![w] = IF @ = "asleep" THEN "woken" ELSE @]
  /\ missed' = (missed \/ at[w] = "gap")
  /\ UNCHANGED <<total, threads, waiting, stuck>>

\* Nobody is free: the job waits, and a dynamic pool grows by one thread.
Enqueue(j) ==
  /\ waiting' = Append(waiting, j)
  /\ IF dynamic /\ total < maximum THEN StartThreads(total + 1)
     ELSE UNCHANGED <<threads, total, stuck, at>>
  /\ UNCHANGED <<freeCount, item, signal, missed>>

DispatchNow(j) ==
  LET first == SelectInSeq(threads, Idle)
  IN  /\ IF freeCount # 0 /\ first # 0 THEN Give(threads[first], j) ELSE Enqueue(j)
      /\ UNCHANGED <<dynamic, maximum, free, code, waitingwcs, clients>>

Dispatch(c, j) ==
  /\ ~stuck /\ client[c].at = "run" /\ fate[j] = "new" /\ j \notin Delayed
  /\ fate' = [fate EXCEPT ![j] = "pending"]
  /\ DispatchNow(j)
  /\ UNCHANGED <<timed, transit>>

\* With a delay: under the time keeper's mutex.
DispatchLater(c, j) ==
  /\ ~stuck /\ client[c].at = "run" /\ fate[j] = "new" /\ j \in Delayed
  /\ transit = Null
  /\ fate' = [fate EXCEPT ![j] = "pending"]
  /\ timed' = timed \cup {j}
  /\ UNCHANGED <<workers, waiting, transit, waitingwcs, clients>>

\* The time keeper takes an entry whose time has come, and dispatches it.
Fire_keepEntry(j) ==
  /\ transit = Null /\ j \in timed
  /\ transit' = j
  /\ UNCHANGED <<workers, waiting, timed, waitingwcs, clients, fate>>

Fire(j) ==
  /\ transit = Null /\ j \in timed
  /\ transit' = j
  /\ timed' = timed \ {j}
  /\ UNCHANGED <<workers, waiting, waitingwcs, clients, fate>>

FireDispatch ==
  /\ ~stuck /\ transit # Null
  /\ DispatchNow(transit)
  /\ transit' = Null
  /\ UNCHANGED <<timed, fate>>
-----------------------------------------------------------------------------
\* A client's call about job j goes on to label l, or returns.
Proceed(c, j, l, w) ==
  client' = [client EXCEPT ![c] = [at |-> l, job |-> j, on |-> w]]
Return(c) ==
  client' = [client EXCEPT ![c] = [at |-> "run", job |-> Null, on |-> Null]]
ReturnFinal(c, j) == Return(c) /\ final' = final \cup {j}

\* The job is found in the queue and taken out of it.
Dequeue(c, j) ==
  /\ j \in Range(waiting)
  /\ waiting' = RemoveFirst(waiting, j)
  /\ fate' = [fate EXCEPT ![j] = "cancelled"]
  /\ ReturnFinal(c, j)
  /\ UNCHANGED timed

\* cancel(): first the queue, under the pool's mutex.
Cancel(c, j) ==
  /\ ~stuck /\ client[c].at = "run" /\ fate[j] # "new"
  /\ \/ Dequeue(c, j)
     \/ j \notin Range(waiting) /\ Proceed(c, j, "cancel", Null)
        /\ UNCHANGED <<waiting, timed, fate, final>>
  /\ UNCHANGED <<workers, transit, waitingwcs>>

\* Then the queue, the timed jobs and the workers, under both mutexes.
TimeKeeperLocked_ignored == FALSE
TimeKeeperLocked == transit # Null
Running(j) == {w \in Range(threads) : item[w] = j}

CancelSearch(c, wait) ==
  LET j == client[c].job
  IN  /\ ~stuck /\ client[c].at = "cancel" /\ ~TimeKeeperLocked
      /\ \/ Dequeue(c, j)
         \/ /\ j \in timed
            /\ timed' = timed \ {j}
            /\ fate' = [fate EXCEPT ![j] = "cancelled"]
            /\ ReturnFinal(c, j)
            /\ UNCHANGED waiting
         \/ /\ j \notin Range(waiting) \cup timed
            /\ \/ Running(j) = {} /\ ReturnFinal(c, j)
               \/ ~wait /\ Running(j) # {} /\ Return(c) /\ UNCHANGED final
               \/ wait /\ UNCHANGED final
                  /\ \E w \in Running(j) : Proceed(c, j, "join", w)
            /\ UNCHANGED <<waiting, timed, fate>>
      /\ UNCHANGED <<workers, transit, waitingwcs>>

\* QMtxHold h3(t): the worker's own mutex, which it holds while it is busy.
OwnLocked_notGivenBack(w) == at[w] \in {"busy", "ended", "unmarked", "marked",
                                        "test", "gap", "asleep", "woken"}
OwnLocked(w) == at[w] \in {"busy", "ended"}

CancelJoin(c) ==
  /\ client[c].at = "join" /\ ~OwnLocked(client[c].on)
  /\ Return(c)
  /\ UNCHANGED <<workers, final, queues, waitingwcs, fate>>
-----------------------------------------------------------------------------
\* wait(): the job is looked for in the queue, the workers and the timed jobs,
\* the last without the time keeper's mutex.  One client waits for a job.
Known(j) == j \in Range(waiting) \cup timed \/ Running(j) # {}

Wait(c, j) ==
  /\ ~stuck /\ client[c].at = "run" /\ fate[j] # "new" /\ j \in Awaited
  /\ \A d \in Clients : client[d].job = j => client[d].at \in {"run", "cancel", "join"}
  /\ \/ /\ Known(j)
        /\ waitingwcs' = [waitingwcs EXCEPT ![j] = IF @ = "none" THEN "clear" ELSE @]
        /\ Proceed(c, j, "test", Null)
     \/ ~Known(j) /\ UNCHANGED <<waitingwcs, client>>
  /\ UNCHANGED <<workers, queues, fate, final>>

\* wc->wait(period) on a manual-reset event.
WaitEvent(c) ==
  /\ \/ /\ client[c].at = "test"
        /\ client' = [client EXCEPT ![c].at =
                        IF waitingwcs[client[c].job] = "signalled"
                        THEN "woken" ELSE "gap"]
     \/ /\ client[c].at = "gap"
        /\ client' = [client EXCEPT ![c].at = "asleep"]
  /\ UNCHANGED <<workers, queues, waitingwcs, final, fate>>

\* The period ends: the wait condition stays where it is.
WaitTimeout(c) ==
  /\ client[c].at = "asleep"
  /\ Return(c)
  /\ UNCHANGED <<workers, final, queues, waitingwcs, fate>>

\* pthread_cond_timedwait() refuses the period: wc->wait() returns true at once.
WaitRefused(c) ==
  /\ client[c].at = "gap"
  /\ client' = [client EXCEPT ![c].at = "woken"]
  /\ UNCHANGED <<workers, queues, waitingwcs, final, fate>>

\* The wait returned true: the wait condition goes, whether the job has run or not.
WaitEnd(c) ==
  /\ ~stuck /\ client[c].at = "woken"
  /\ waitingwcs' = [waitingwcs EXCEPT ![client[c].job] = "none"]
  /\ Return(c)
  /\ UNCHANGED <<workers, final, queues, fate>>
-----------------------------------------------------------------------------
Work(w) == \/ Run(w) \/ Top(w) \/ MarkFree(w) \/ CountFree(w)
           \/ RetireUnmark(w) \/ RetireUncount(w) \/ Exit(w) \/ SelfDestruct(w)
           \/ EventTest(w) \/ EventSleep(w) \/ Begin(w)
           \/ Finish(w) \/ Throw(w) \/ Done(w)
KeepTime == (\E j \in Jobs : Fire(j)) \/ FireDispatch
Ongoing(c) == \/ \E wait \in BOOLEAN : CancelSearch(c, wait)
              \/ CancelJoin(c) \/ WaitEvent(c) \/ WaitEnd(c)
Call(c) == \/ \E n \in Totals : SetTotal(c, n)
           \/ \E j \in Jobs : \/ Dispatch(c, j) \/ DispatchLater(c, j)
                              \/ Cancel(c, j) \/ Wait(c, j)

\* While the pool is stuck nobody gets its mutex, and no client calls it.
Next == \/ \E w \in Workers : Work(w)
        \/ KeepTime
        \/ \E c \in Clients : Call(c) \/ Ongoing(c) \/ WaitTimeout(c) \/ WaitRefused(c)

Spec == Init /\ [][Next]_vars

\* Threads that can run do, jobs end, and times come.  Nobody has to call the
\* pool, and no wait has to have a limit.
Fairness == /\ \A w \in Workers : WF_vars(Work(w))
            /\ WF_vars(KeepTime)
            /\ \A c \in Clients : WF_vars(Ongoing(c))
FairSpec == Spec /\ Fairness
-----------------------------------------------------------------------------
\* Every variable stays in its domain.
WorkerLabels == {"new", "starting", "top", "unmarked", "marked", "test", "gap",
                 "asleep", "woken", "busy", "ended", "retire", "uncount", "exit",
                 "finished", "gone"}
ClientLabels == {"run", "cancel", "join", "test", "gap", "asleep", "woken"}
TypeOK ==
  /\ dynamic \in BOOLEAN /\ total \in Nat /\ maximum \in Nat /\ freeCount \in Int
  /\ Range(threads) \subseteq Workers /\ IsInjective(threads)
  /\ Range(waiting) \subseteq Jobs /\ IsInjective(waiting)
  /\ timed \subseteq Jobs /\ transit \in Jobs \cup {Null}
  /\ at \in [Workers -> WorkerLabels]
  /\ free \in [Workers -> BOOLEAN] /\ signal \in [Workers -> BOOLEAN]
  /\ item \in [Workers -> Jobs \cup {Null}] /\ code \in [Workers -> Jobs \cup {Null}]
  /\ waitingwcs \in [Jobs -> {"none", "clear", "signalled"}]
  /\ client \in [Clients -> [at : ClientLabels, job : Jobs \cup {Null},
                              on : Workers \cup {Null}]]
  /\ final \subseteq Jobs
  /\ fate \in [Jobs -> {"new", "pending", "done", "thrown", "cancelled"}]
  /\ missed \in BOOLEAN /\ stuck \in BOOLEAN

\* Where the pool has job j: how many times in all.
Places(j) == Cardinality({i \in DOMAIN waiting : waiting[i] = j})
             + Cardinality({w \in Workers : item[w] = j})
             + (IF j \in timed THEN 1 ELSE 0) + (IF j = transit THEN 1 ELSE 0)

\* A job is never handed to two workers nor kept in two lists, whichever of
\* dispatch, time keeper, workers and cancel meet, and once it has run to its
\* end or was cancelled it is nowhere: it never runs again.
OnePlace == \A j \in Jobs :
  /\ Places(j) <= 1
  /\ fate[j] \in {"new", "done", "cancelled"} => Places(j) = 0

\* Once cancel() has answered NotFound or Cancelled, the job will not run: it is
\* not on its way from the time keeper to a worker either.
CancelIsFinal == \A j \in final : Places(j) = 0

\* free never counts more workers than there are between their ++free and the
\* job they are given.
Counted == {w \in Workers : /\ at[w] \in {"test", "gap", "asleep", "retire", "uncount"}
                            /\ item[w] = Null \/ fate[item[w]] # "pending"}
FreeNotOverstated == freeCount <= Cardinality(Counted)

\* "The job enters a FIFO queue which is emptied as fast as the worker threads
\* get through them" (class QThreadPool): a dispatched job stays in the pool
\* until it has run or is cancelled.
JobsAreKept == \A j \in Jobs : fate[j] = "pending" => Places(j) = 1

\* The assert before a job is called: as long as no job was lost, a worker whose
\* event lets it through has been given one.
WorkerHasJob ==
  JobsAreKept => \A w \in Workers : at[w] \in {"woken", "busy"} => item[w] # Null

\* cancel() returns: taking the pool's, the time keeper's and a worker's mutex
\* in turns, it waits for nothing but jobs that end.
CancelReturns == []~stuck =>
  \A c \in Clients : client[c].at \in {"cancel", "join"} ~> client[c].at = "run"

\* A wait() that began before its job ended returns when it has, although the
\* job is taken out of the pool without the pool's mutex.
Waits(c) == client[c].at \in {"test", "gap", "asleep", "woken"}
FinishedWaitsReturn == []~(stuck \/ missed) =>
  \A c \in Clients, j \in Jobs :
    (Waits(c) /\ client[c].job = j /\ fate[j] = "done") ~> ~Waits(c)
=============================================================================
