# TnFOX in TLA+

TLA+ modules, TLC configurations and TLAPS proofs for the concurrent core of
TnFOX, the fork of the FOX toolkit that adds threads, synchronisation, IPC and
portable devices.  Every definition is translated from the C++ sources; paths
below are relative to the repository.  `PROJECT.json` maps each definition to
its source lines, and lists the runs, the hazards, the findings and the theorems.

## The system

TnFOX has two layers.  The FOX widget toolkit (`src/*.cpp`) is upstream,
single-threaded GUI code.  The TnFOX layer (`src/*.cxx`, `include/Q*.h`,
`include/int_QMutexImpl.h`) is what the rest is built on:

| component | state it keeps | operations | used by |
|---|---|---|---|
| QMutex | counter `lockCount`, hand-off flag `wakeSema`, owner, recursion count, kernel semaphore | lock, unlock, tryLock | everything below |
| QWaitCondition | `isSignalled`, `waitcnt`, a QMutex, a pthread mutex and condition | wait, wakeOne, wakeAll, reset | QRWMutex, QThread, QThreadPool, IPC, pipes |
| QRWMutex | counts of readers, pre-writers and upgrading readers, writer, three QWaitConditions | lock, unlock, trylock | application data |
| QThread | handle, running, finished, wait conditions for start and stop, cancellation counts | start, wait, requestTermination, cleanup | thread pools, monitors |
| QThreadPool | workers, `free` count, FIFO queue, timed jobs (a global time keeper thread), wait conditions of jobs | dispatch, cancel, reset, wait, setTotal | FXProcess, FXFSMonitor |
| FXIPCChannel | table of messages that await an acknowledgement, free wait conditions, handlers under way | sendMsg, getMsgAck, doReception, handler threads | TnFXSQLDB_ipc |
| QLocalPipe | two chunked buffers under one mutex | read, write, flush, close | IPC in one process |
| FXLRUCache, FXRefedObject, FXUndoList | costs, counts, lists | insert/remove, addRef/delRef, add/undo/redo/trim | caches, shared objects, editors |
| devices, network, ACLs, translation, text | operating-system handles and plain data | I/O | applications |

They interact by calls and shared memory: a QRWMutex waits on QWaitConditions,
which use a QMutex; a pool's workers are QThreads that sleep on
QWaitConditions; the time keeper calls `dispatch()` on any pool while holding
its own mutex, and `cancel()` takes that mutex and the pool's.

What is hard: steps of `lock` and `unlock` that interleave instruction by
instruction; state that is read before a mutex is given up and used after it
(`_lock()` of QRWMutex, `cancel()`, the `free` count of a pool); sleepers
that are counted before they sleep; counts that must survive every legal
nesting; time limits that end as a signal arrives; and a job that is always in
exactly one place.  `PROJECT.json` lists these hazards at their lines.

What makes each component correct: a QMutex excludes, hands on to a waiter and
never loses the wakeup; a QWaitCondition counts its waiters and reaches all that
sleep; a QRWMutex lets a writer be alone and tells an upgrade what it lost; a
pool runs a job once or not at all, and answers `cancel` and `wait` truthfully; a
QThread cleans up once per run, and its `wait` and `start` return what is true; a
call over a channel ends with its own answer or as lost; a pipe gives each byte
once and in order.

## Modules

| module | models | source |
|---|---|---|
| `RecursiveLock` | what a recursive mutex promises: one owner with a depth | `include/int_QMutexImpl.h` |
| `QMutex` | QMutex, one action per atomic instruction | `include/int_QMutexImpl.h` 303-591 |
| `QMutexProofs` | the inductive invariant of QMutex and its theorems | |
| `QWaitCondition` | QWaitCondition on POSIX | `src/QThread.cxx` 130-292 |
| `QWaitConditionProofs` | the inductive invariant of QWaitCondition and its theorems | |
| `QRWMutex` | QRWMutex | `src/QThread.cxx` 298-519 |
| `QRWMutexProofs` | the inductive invariants of QRWMutex (of writers alone, and of all) and their theorems | |
| `QThreadPool` | workers, pool, time keeper and clients | `src/QThread.cxx` 1733-2262 |
| `QThreadPoolProofs` | the inductive invariant of QThreadPool and its theorems | |
| `QThread` | the life of a thread object, its thread and those that use it | `src/QThread.cxx` 603-1348, 1522-1635 |
| `QThreadProofs` | the inductive invariant of QThread and its theorems | |
| `AckedCalls` | what a channel promises to those who call through it | `src/FXIPC.cxx` |
| `FXIPCChannel` | callers, table of acknowledgements, monitor thread, closing | `src/FXIPC.cxx` 134-998 |
| `FXIPCChannelProofs` | the inductive invariant of FXIPCChannel, its theorems and the refinement of `AckedCalls` | |
| `BytePipe` | what a pipe promises: bytes in order, flushes that mean it | `src/QLocalPipe.cxx` |
| `QLocalPipe` | one direction of a pipe: chunks, events, readers and writers | `src/QLocalPipe.cxx` 38-258 |
| `QLocalPipeProofs` | the inductive invariant of QLocalPipe, its theorems and the refinement of `BytePipe` | |
| `MC...` | the instances TLC checks; `MCQLocalPipe` also has the loop of `writeBlock()` as written | |

The levels are kept apart: QMutex is checked to be a recursive lock, and the
modules above it take "under one QMutex" to mean one atomic action.  QWaitCondition
is modelled in full once; the modules above it use what that module shows of
it: a test of `isSignalled`, a gap in which a wake is missed, and a sleep.

**QMutex.** Built with GCC on Linux: USE_POSIX, USE_OURMUTEX, MUTEX_USESEMA.
`pc[t]` is the place of a thread inside the three operations.  `Lock` is
`lockCount.finc()`; `LockOwn` stores the owner; `LockTest` tells recursion from
contention; `LockSwap`, `LockSpin` and `LockSleep` compete for `wakeSema`;
`UnlockRecursed`, `UnlockLast`, `UnlockDec`, `UnlockWake` and `UnlockPost` are
the steps of `int_unlock()`; `TryLock`, `TryTest` and `TryUndo` those of
`tryLock()`.  `holds` is what the callers have been granted.  `usage` says who calls
`lock()` and who `tryLock()`; it is one of the constant `Usages` and never changes.
The semaphore starts with any value, as it may come from the KernelWaitObjectCache,
where POSIX semaphores keep the count they were released with.

**QWaitCondition.** `wait()` is `WaitPass` or `WaitBegin`, `WaitLockM`,
`WaitSleep`, then `Timeout` or a signal, `WaitWoken`, `WaitReturn`;
`WaitRefused` is `pthread_cond_timedwait()` failing with EINVAL, since
milliseconds are added to `tv_nsec` without a carry.  `FXERRHOS`
(`include/FXException.h` 146) throws on negative results only, so that a refused
wait goes on like a woken one: it takes back its count, resets an autoreset object
and returns true.  `Spurious` is a wake that nobody made, which `wait()` takes for one
that somebody did.  `WaitCancel` and `WaitUnwind` are a cancellation inside
`pthread_cond_wait()`: the thread takes the pthread mutex again and leaves `wait()`
with it locked and with `waitcnt` not taken back.  `WakeAll` and its loop
`WakeAllSignal` hold the object's mutex and never the pthread mutex.

**QRWMutex.** `_lock()` is split where it waits: each of `LockWrite`,
`LockWriteNested`, `LockRead`, `RelockWriters`, `RelockReaders` and
`RelockPrewriters` runs to the next wait or to the return.  `held[t]` is the
stack of locks a thread will give back in order, which `unlock()` asks for.

**QThreadPool.** What runs under the pool's mutex is one action (`Top`,
`Done`, `DispatchNow`, `Cancel`, `CancelSearch`, `SetTotal`, `Wait`); what
workers do without it is not: `MarkFree`, `CountFree`, `RetireUnmark`,
`RetireUncount`, `Begin`, `Finish`.  `fate[j]` observes what became of a job,
`final` the jobs `cancel()` has answered NotFound or Cancelled for.
`startThreads()` joins, under the pool's mutex, a worker that has been
created and does not run yet or any longer; that worker needs the same mutex.
The model marks this state `stuck`: from then on nobody gets the mutex.
A `wait()` with a limit may time out or be refused (`WaitRefused`); a refused one
returns true and drops the job's wait condition, whether the job has run or not.

**QThread.** `Controllers` share one object.  `Start` to `StartReturn` are
`start()`, split where it joins the old thread (with `p` kept) and where it waits;
`Wait`, `Join` to `SetFlags` are `wait()` without a limit, `WaitTest` to
`WaitReturn` with one, which may pass (`WaitTimeout`) or be refused (`WaitRefused`,
which returns true); `Request` reads `isRunning`, `RequestCancel` cancels by the
handle.  The thread goes from `Enter` through `Disable` and `Enable` to `Finish` or
`Cancelled`, and then `CleanupBegin`, `CleanupEnd`, `Wake`, `Linger`; cleanup may
also throw or be cancelled.  `stoppedwc` is one flag in the object, and `event[c]` is
what became of the event that caller `c` waits for: still the object's (`kept`),
`taken` over by the thread, `set`.  `FXERRHOS` (`include/FXException.h` 146) throws
on negative results only; the functions of pthreads return positive errors, so a
join that fails goes on like one that succeeded, and that is how it is modelled.
A caller starts an object which it has found not running; autodelete is left out.

**FXIPCChannel.** `Send`, `SendTooBig`, `Write` and `WriteThrows` are `sendMsgI()`,
which writes with the channel unlocked.  A message above the limit fails under the
mutex and takes its entry with it; a write that throws, of a lost connection or
otherwise, unwinds `removeAck()` without the mutex, in the two steps `Unwind` and
`Unwound`, and whoever uses the table in between sets `torn`, where the model stops.
`GetMsgAck`, `WaitSleep`, `Timeout`, `WaitRefused` and `TakeAck` are `getMsgAck()`;
`Receive`, the ways to leave it and the two steps of `cleanup()` are the
monitor.  `answer[c]` observes what the peer answered to the present call, `refused`
that a wait was refused before its answer came.  An ErrorOccurred is noted in its entry
only if `ErrorTrans` has errors translated; the caller is woken either way (`Noted`).
The peer answers each message at most once, in any order, and at most one disconnect is
under way; the transport may break, with or without what is on it.  The `noquitmsg`
flag, which only spares the peer a second goodbye, is left out.
Refinement: a call is being sent until its message has been written, is sent until its
caller is idle again, and the channel is closing as soon as anything on either side says
so.

**QLocalPipe.** `Write`, `Read` with its `Round`, and `Close` are done under the pipe's
mutex; `Flush` and the waits are not.  `data` is the content of all chunks in a row
(0 where a write went on past its caller's data), with `rptr`, `wptr` and
`datachunks` as the code counts them; a read that goes past it is `broken`, and
nothing is said of what follows.  `Copied` is a closed form of how many bytes the loop of
`writeBlock()` copies; `MCQLocalPipe` has the loop as written (`Rounds`) and TLC compares
the two for chunks of 1 to 6 and blocks of 1 to 14.  Time limits of 0, the only ones
here, are never refused: they add nothing to the time of day.

`BytePipe` is what `include/QLocalPipe.h` promises: a write appends the caller's bytes
and no other, and a read takes the next ones.  The code does not keep that promise
wherever it is used as the header allows, and `rough` observes the three ways out of it:
a block that does not fit (`Fits`: it goes on beyond the end of a chunk and does not
end with one), a read while another thread is in `readBlock()`, and a close
while one is.  `ImplementsPipe` is the refinement up to the first such use, and says
that up to there nothing is read that is not there; `BytesInOrder` holds after it too:
whatever is copied along, what was sent is there once and in order.  Refinement: the
queue is `data` from `rptr` on (`Unread`).

## Runs

| run | instance | what it shows |
|---|---|---|
| `mutex_lock` | 3 threads that all `lock()`, or all `tryLock()`; recursion 2, 1 spin, semaphore limit 2 | exclusion, exact counts, also through failed tries, no lost wakeup, refinement of `RecursiveLock`, waiters are served |
| `mutex_trylock` | 2 threads, one tries | **violation**: the asserts under "Nothing owns me" |
| `waitcondition` | 3 waiters, 1 waker, both kinds of reset, with and without limits; refused, spurious and cancelled waits | exact count of waiters; `wakeAll()` reaches all sleepers; they and timed waits return if no waiter is cancelled |
| `waitcondition_lost` | 1 waiter, 1 waker | **violation**: "wakes all threads waiting" |
| `rwmutex` | 3 threads (one uses `trylock`), depth 2 | one writer; alone while counted; lost read locks told; counts shared exactly; writers get in |
| `rwmutex_nested` | 2 threads | **violation**: "only one thread (you) is permitted to use the data" |
| `threadpool` | 2 workers, a plain and a timed, awaited, throwing job, 1 client, dynamic or not | a job is in one place; cancel is final and returns; `free` is never overstated; a woken worker has a job; waits for ended jobs return |
| `threadpool_kept` | 2 workers, 2 jobs | **violation**: a queued or given job is not lost |
| `thread` | 2 threads that use one object, 2 starts, 1 nested `disableTermination()` | one cleanup per run; `wait()` and `start(true)` return what is true, refused waits excepted; a termination ends the thread and frees those blocked on it |
| `thread_refused` | 1 thread that starts and awaits an object | **violation**: "True if thread finished in time alloted" |
| `ipc` | 2 callers, ids 1 and 2, 3 messages in all, errors not translated | refinement of `AckedCalls` until a wait is refused; calls that are answered, or in the table when the channel closes, return |
| `localpipe` | 2 writers, 2 readers, chunks of 2, blocks of 1 or 2, 3 bytes, raw or not | what was sent is there once and in order; refinement of `BytePipe` where blocks fit and readers take turns; a reader for whom there is data returns |

**Bounds.** Three threads are enough for an owner, a waiter and a newcomer, the
parties of every hand-off; recursion 2 makes the counts differ from flags; a
semaphore limit of 2 is reached.  `UintMax` 7 stands for the largest FXuint and
is wide enough to tell a wrapped count.  Three waiters make the `wakeAll()` loop
longer than its sleepers.  Two upgrading readers and a third thread make both
orders of writer and reader happen.  In the pool each job is dispatched once:
two jobs on two workers give the queue, both lists and both orders of dispatch;
the pool is created with one or two threads and resized to either, so workers
are started, added and retired.  Two starts give a thread object a past: flags, count,
handle and events left over; two controllers let starts, waits and requests
overlap.  With two ids and three messages ids wrap onto one that is still in use and
wait conditions are used again; the model sends nothing after a refused wait, whose
answer may come when its id is used again and is then taken for another's.  Errors are
not translated in the run, as then a call may end in one way more; the proofs cover
both.  Three bytes in chunks of two cross a chunk's end, a block of two may lie in a
chunk or, when it begins in the middle of one, go on past its data; longer blocks,
over several chunks, are covered by the proofs and by what TLC evaluates of `Copied`.
CHECK_DEADLOCK is FALSE for QRWMutex, where a thread can sleep for ever once a wake
is missed, for QWaitCondition, where a cancelled waiter leaves a mutex locked, and for
QThreadPool, QThread, FXIPCChannel and QLocalPipe, where all the bound allows may have
been done, or the system stops in a state named below.

**Fairness.** A thread that is not blocked runs on (weak fairness of the steps
inside an operation).  A mutex whose owner recurses again and again is given back
in the end (strong fairness of the outermost unlock), as locks are held by scoped
`QMtxHold` objects.  Waiters for a mutex that comes free again and again get it
(strong fairness), which `WaitersAreServed` shows for the mutex as a whole; for
a single thread QMutex promises no order, and nothing is claimed of one.  Jobs
end, and the time of a timed job comes.  Nobody has to call anything, and the
limit of a wait is never relied on except in `TimedWaitsReturn`.  Nobody is cancelled,
and no wait ends spuriously, for the sake of progress.
In QThread limits pass and cleanup() ends, but run() need not: only a pending
cancellation ends it, at cancellation points it passes again and again with
termination enabled (strong fairness of `Cancelled`), which `QThread.h` asks of every
run().  In FXIPCChannel the monitor and callers inside a call run on; the peer need not
answer and nobody need send.  In QLocalPipe threads inside a call run on; nobody
need write or read.
`FinishedWaitsReturn`, `CancelReturns`, `WritersGetIn`, `LockedStateKept`,
`TimedWaitsReturn`, `SleepersReturn`, `TerminationEnds`, `ImplementsCalls`,
`CallsReturn`, `ImplementsPipe`, `ReadersReturn`, `WaitIsTruthful` and
`StartIsTruthful` are conditional: their hypotheses (`missed`, `stuck`,
`PrewritersCounted`, `SomeCancelled`, `Stuck`, `refused`, `torn`, `broken`, `rough`,
`earlyJoin`, `sharedEvent`, `TakeTurns`) name the defects below, so that they say what
the rest of the code does.

## Findings

- `QMutex::tryLock()` that fails while the owner unlocks inflates `lockCount`
  for a moment; the owner then hands the mutex on to nobody, and a later
  `lock()` takes it from its next owner.
- `QWaitCondition::wakeAll()` does not wake a thread that has been counted and
  has not fallen asleep yet.
- `QRWMutex::unlock(true)` of a nested write lock lets readers in beside the
  writer.
- `QThreadPool` loses a job that `dispatch()` gives to a worker thread which
  has not reached its loop, when that loop then finds another job queued.
- `QWaitCondition::wait()` with a limit whose nanoseconds exceed 999999999 is refused by
  `pthread_cond_timedwait()` and returns true at once.  `QThread::wait()` then reports
  the end of a thread that still runs, which the run shows; `getMsgAck()` removes its
  entry and returns true with no answer (`refused`), and `QThreadPool::wait()` drops
  its wait condition.

These have a run.  The models name more places where the code leaves its own rules, as
hypotheses of their properties; each property fails without its hypothesis:

- a thread that is cancelled inside `QWaitCondition::wait()` leaves the pthread mutex
  locked: the next thread that waits on the object blocks on it with the object's
  own mutex held, and with it everybody (`SomeCancelled`);
- a second `QThread::wait(FXINFINITE)` fails to join and returns true while the thread
  runs, and marks it finished (`earlyJoin`); `include/QThread.h` promises "True if
  thread finished in time alloted";
- `QThread::start()` that joins a thread which has yet to take the object's mutex
  waits for ever (`Stuck`);
- `startedwc` is left behind signalled by a start that failed, and deleted without
  the mutex under another that waits on it (`sharedEvent`, `broken`); `stoppedwc` is
  deleted under a waiter that missed its wake, and cancelling or joining uses a handle
  that another join has just cleared (`broken`);
- a message sent after the monitor's cleanup waits for ever, although `sendMsg()`
  promises an exception;
- `sendMsgI()` unwinds through `removeAck()` without the mutex (`torn`);
- `QLocalPipe::writeBlock()` copies more than its `maxlen` bytes when a block goes
  on beyond the end of a chunk and does not end with one, and the reader gets them
  (`include/QLocalPipe.h` 107-112 has it write a block of that length); two readers, of a
  class that is documented as threadsafe (line 40), can take what the other
  counted, and one inside `readBlock()` at `close()` what was cleared, past the end of
  the chunks (`rough`, `broken`, `TakeTurns`);
- in raw mode `writeBlock()` waits for the reader with the mutex the reader needs (`Held`);
  `flush()` of a pipe nothing was written to waits for ever; `close()` wakes nobody.

## Proofs

`QMutexProofs` proves for every set of threads, spin count, semaphore limit and
recursion bound, from `MutexAssumption` and `LockOnly`, that no usage has a thread
call `tryLock()` (the finding shows that the theorems fail without it):

- `Invariance`: `Spec => []IInv`.  `IInv` adds to the checked invariants that a
  thread past the test for recursion holds nothing, and that `wakeSema = 1`,
  a claim, and a hand-off under way are one single token.  Neither
  `MutualExclusion` nor `CountAccounts` is inductive alone: that a counter of -1
  means "nobody has the token" needs the count, and that the count survives a
  hand-off needs the token (lemma `FreeCounter` ties the two).
- `MutexExcludes`, `AssertsHold`, `OwnerIsHolder`, `CountIsExact` follow from it;
  `WakeupsAreKept` adds the post that goes with each hand-off;
- `OwnerAgrees` and `HandOffHasTaker` are parts of `IInv`, proved and in no run;
- `Refinement`: each step is a step of `RecursiveLock` or leaves the owner alone.

There is a lemma per action, with a step per conjunct it can disturb, and two
lemmas on how the count moves when a thread enters or leaves `Counted`.

`QWaitConditionProofs` proves for every set of threads, from `ThreadsAssumption`:

- `Invariance`: `Spec => []IInv`.  `WaitCountExact` and `AutoResetAssert` carry
  each other through `wakeAll()`, which clears or keeps `isSignalled` by the
  count.  `WakeAllReaches` needs more: a thread that falls asleep during the
  loop may take a signal meant for another, so the signals left are compared
  with all threads that sleep or are about to (`LoopReaches`); it holds since
  nobody is counted while the waker has the object's mutex (`OneHolder`).
- `TypeCorrect`, `CountIsExact`, `ResetAsserts` and `AllReached` follow, with refused,
  spurious and cancelled waits among the steps.

`QRWMutexProofs` proves for every set of threads and every depth, from
`RWMutexAssumption`, with lemmas on how the locks of a kind in a thread's stack are
counted when one is pushed or popped:

- `WriterIsExact`: the writer's id and count account for all write locks held.
  It is inductive because each way out of a wait tests `write.count` again before
  the lock is granted, and because `unlock(true)` is only legal on top of a
  write lock, which by the invariant makes its caller the writer.
  `WritersExclude` follows.
- `Invariance`: `Spec => []IInv`, which stands on that one.  `ReadersShared` counts read
  locks as a set of (thread, place) pairs, so that a push or pop changes it by one
  element and no induction over threads is needed.  `prewrite.count` is never above
  the number of threads that have or want write access (`PrewritersAgree`), and equal
  to it until a nested write lock is given back; with it the writer's being alone is
  inductive.  A lost read lock is told of because the thread that lost it is marked
  `stale` until it is told, and a writer never is (`StaleAgree`).
- `TypeCorrect`, `ReadersAreShared`, `WriterIsAloneWhileCounted` and `LostLocksAreTold`
  follow.  `OnlyNestingMiscounts` is an action property: one step per action shows
  that the count stays right except in `unlock(true)` with `write.count > 1`.
  For
  `LockedStateStaysRight` what is shown to the threads that run with a lock
  (`StateIn`) is inductive while the count is right.

`QThreadPoolProofs` proves for every set of workers, clients and jobs, whichever are
delayed, awaited or throw, from `PoolAssumption`:

- `Invariance`: `Spec => []IInv`.  `OnePlace` needs that the list of workers and
  where each worker is go together (`ListAgrees`), and that a job's fate follows from
  its place (`FatesAgree`).  `FreeNotOverstated` is the hard part: `free` is added to
  without the mutex, after the worker has put itself on offer.  A dispatch may so
  give a job to a worker that has not counted itself; the event is then set, and the
  worker is *owed*: `free` plus the workers that are owed never exceeds those that are
  ready (`CountAgrees`).
- `TypeCorrect`, `JobsInOnePlace`, `CancelsAreFinal`, `FreeIsNotOverstated`, and
  `WokenHaveJobs`, which like its property speaks of pools that have lost no job.

`Init` of the pool has as many Thread objects as it may create (`total` at most the
number of `Workers`), a bound of the model and no property of the code.

`QThreadProofs` proves for every set of controllers, any number of starts and any
nesting of `disableTermination()`, from `QThreadAssumption`:

- `Invariance`: `Spec => []IInv`.  Runs, cleanups and starts are never further apart
  than the place of the thread allows (`CountsAgree`).  A `wait()` that was woken
  has seen the end of its run, since the event it waits for was taken over by
  that run's cleanup (`WaitersSawTheEnd`); one that was refused has not, and is told
  apart by its place.  As long as no start event was left behind,
  the calls that use it do so one at a time (`EventIsOwn`), because a `start()` that
  joins keeps the mutex.
- `TypeCorrect`, `CleanedUpOnce`, `WaitsAreTruthful` and `StartsAreTruthful`; the last
  two are the conditional action properties the run `thread` checks.

`FXIPCChannelProofs` proves for every set of callers, width of ids and number of
messages, from `ChannelAssumption` (no more callers than ids, as otherwise the loop
that looks for a free id never ends) and `NullAssumption` (a null pointer is no entry):

- `Invariance`: `Spec => []IInv`, in two parts.  Always, a call under way and its entry
  in the table determine each other, also while its sender unwinds (`EntriesAgree`), and
  conditions to be used again are not signalled (`FreshConditions`).  As long as no wait
  was refused, whatever is on the wire is about the present call of its caller, which
  nobody has woken yet, and there is one message or answer to a call (`WireAgrees`), so
  that an id that wraps never brings a late answer to a new call; and a
  signalled entry has the answer or the loss that its caller is to be told
  (`EntriesTell`).  All this rests on the peer answering at most once.
- `TypeCorrect`, and `Refinement`: as long as no wait was refused a step is one of a call
  as `AckedCalls` allows it, the closing, or none of these.

`QLocalPipeProofs` proves for any number of readers and writers, any size of chunks and
lengths of blocks, from `QLocalPipeAssumption`:

- `Invariance`: `Spec => []IInv`, in two parts.  `Base` holds however the pipe is used:
  the two pointers and the count of chunks say how long the content is (`Extents`); what
  is unread is the numbers from `got + 1` to `sent` in order, with rubbish in between
  (`BytesAgree`); a flush goes on only when `empty` has been signalled, and then
  everything up to its mark has been read (`FlushesAgree`); and `newdatawaiters` counts
  the readers inside `readBlock()` (`ReadersAgree`).  `Plain` holds until it is used
  roughly: there is no rubbish, and the one reader inside a call finds what it has
  counted, which is why nothing is read that is not there.  The lemmas
  on division by the size of a chunk (`DivMod`, `ChunksInOrder`, `CopiedBounds`) and on
  lists that lose their front (`DropDrop`, `DropConcat`, `NumbersTaken`) carry it.
- `TypeCorrect` and `BytesKept` follow from `Base`; for `Refinement` each step up to the
  first rough one is a step of `BytePipe` or leaves it as it is, by `Plain`.

Each of these modules has one lemma per action, and the last theorem combines them.
The inductive invariants were checked by TLC on the runs' instances before they were
proved.

**Model-checked only.** Liveness (`WaitersAreServed`, `TimedWaitsReturn`,
`SleepersReturn`, `WritersGetIn`, `CancelReturns`, `FinishedWaitsReturn`,
`TerminationEnds`, `CallsReturn`, `ReadersReturn`), which is out of the prover's reach, and what is found violated.  That
`Copied` is what the loop of `writeBlock()` copies would be an induction over the
rounds of that loop; it is compared by TLC on the lengths above.

## Not modelled

- QThread: autodelete and selfDestruct() (a pool's worker has it in `QThreadPool`),
  creation upcalls and cleanup calls, priorities, affinity and the primary thread.
- FXIPCChannel: handlers of incoming messages and their thread pool, filters,
  messages without acknowledgement, compression, byte order and checksums, and what a
  late answer does after a refused wait once its id is used again.
- Spurious wakes, and cancellation inside a wait, outside of QWaitCondition: the modules
  above it have its waits woken, timed out or refused, and QThread the cancellation of
  run() and cleanup().
- QLocalPipe: open(), setGranularity(), the close of the reading end, ends destroyed
  while in use.
- QThreadPool: reset(), setDynamic(), the upcalls and the destructor, and times: the
  time of an entry comes at any moment.  One client at a time waits for a job: with
  two the code deletes the wait condition under the second.
- The Windows builds, the Apple builds and the builds with a system mutex.
- FXLRUCache and FXUndoList are sequential containers, FXRefedObject is a single
  atomic count; FXFSMonitor, FXProcess and the devices are calls of the operating
  system.  Widgets, databases, text and vendored code keep no protocol of their own.

## Plan

1. State and prove that QRWMutex and QThreadPool implement abstract specifications (a
   read-write lock with ranks of access; a bag of jobs, each run or cancelled once), as
   QMutex, FXIPCChannel and QLocalPipe do.
2. Handlers of incoming messages; progress of the pool: jobs that stay queued beside
   a free worker, `reset()` and the time keeper's waits.
3. The closing of a pipe's reading end, and both directions together.
