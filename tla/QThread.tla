------------------------------ MODULE QThread ------------------------------
(***************************************************************************)
(* The life of a QThread object (src/QThread.cxx 602-1348, POSIX): threads *)
(* that start it, wait for it with and without a limit and ask it to       *)
(* terminate, and the thread of the operating system that it stands for.   *)
(* pthread_create(), join() and cancel() return their errors as positive   *)
(* numbers, which FXERRHOS does not look at: a join of a thread that       *)
(* another is joining returns at once, like one that succeeded.            *)
(***************************************************************************)
EXTENDS Integers

CONSTANTS Controllers,  \* threads that use the object
          MaxStarts,    \* a bound: how often it is started
          MaxHold,      \* a bound on nested disableTermination()
          Null          \* nobody, or the null pointer

ASSUME QThreadAssumption ==
  Null \notin Controllers /\ MaxStarts \in Nat /\ MaxHold \in Nat

VARIABLES
  isRunning, isFinished, isInCleanup, termdisablecnt,  \* of QThread
  p,          \* QThreadPrivate as a mutex: who has it
  threadh,    \* whether there is a handle to join
  startedwc,  \* its start event: "none", "unset" or "set"
  stoppedwc,  \* whether there is a stop event; it is set only once taken over
  os,         \* where the thread is
  disabled,   \* its cancel state
  cancel,     \* whether a cancellation of it is pending
  unwinding,  \* it is being carried out
  joiner,     \* who joins it, or has
  took,       \* it has taken a stop event over
  at,         \* where each controller is
  saw,        \* the runs there had been when its call looked at the object
  event,      \* the state of the stop event it waits for
  tillStarted,\* whether its start() waits
  starts, runs, cleanups,  \* threads created, run() and cleanup() called
  earlyJoin,  \* a join failed while the thread was running (observer)
  sharedEvent,\* a start() left its event to the next, or two use it (observer)
  broken      \* the program used what is gone, or runs the object twice

flags == <<isRunning, isFinished, isInCleanup>>
events == <<startedwc, stoppedwc>>
thread == <<os, disabled, termdisablecnt, cancel, unwinding, took>>
calls == <<saw, event, tillStarted>>
observed == <<starts, runs, cleanups, earlyJoin, sharedEvent, broken>>
vars == <<flags, p, threadh, events, thread, joiner, at, calls, observed>>

Goto(c, l) == at' = [at EXCEPT ![c] = l]
Alive == os \notin {"none", "gone"}

Init == /\ isRunning = FALSE /\ isFinished = FALSE /\ isInCleanup = FALSE
        /\ termdisablecnt = 0
        /\ p = Null /\ threadh = FALSE
        /\ startedwc = "none" /\ stoppedwc = FALSE
        /\ os = "none" /\ disabled = FALSE /\ cancel = FALSE
        /\ unwinding = FALSE /\ joiner = Null /\ took = FALSE
        /\ at = [c \in Controllers |-> "idle"]
        /\ saw = [c \in Controllers |-> 0]
        /\ event = [c \in Controllers |-> "none"]
        /\ tillStarted = [c \in Controllers |-> FALSE]
        /\ starts = 0 /\ runs = 0 /\ cleanups = 0
        /\ earlyJoin = FALSE /\ sharedEvent = FALSE /\ broken = FALSE
-----------------------------------------------------------------------------
\* start() makes the thread and gives p back.  The old one is gone (who joins it
\* has done so), unless its join failed.
Create(c, b) ==
  /\ starts' = starts + 1
  /\ os' = "created" /\ disabled' = FALSE /\ cancel' = FALSE
  /\ unwinding' = FALSE /\ took' = FALSE /\ joiner' = Null
  /\ threadh' = TRUE
  /\ p' = Null
  /\ broken' = (broken \/ Alive)
  /\ saw' = [saw EXCEPT ![c] = IF b THEN runs ELSE 0]
  /\ at' = [d \in Controllers |-> IF d = c THEN IF b THEN "starting" ELSE "idle"
                                  ELSE IF at[d] = "joining" THEN "joined"
                                  ELSE at[d]]
  /\ tillStarted' = [tillStarted EXCEPT ![c] = FALSE]

StartWaits == {"starting", "startasleep", "started"}

\* start(), of a thread that its caller has found not running(): with a thread to
\* join the mutex is kept for as long as the join takes.
Start(c) ==
  /\ at[c] = "idle" /\ p = Null /\ starts < MaxStarts /\ ~isRunning
  /\ \E b \in BOOLEAN :
       /\ startedwc' = IF b /\ startedwc = "none" THEN "unset" ELSE startedwc
       /\ sharedEvent' = (sharedEvent \/ (b /\ \E d \in Controllers : at[d] \in StartWaits))
       /\ \/ ~threadh /\ Create(c, b)
          \/ /\ threadh
             /\ p' = c /\ Goto(c, "startjoin")
             /\ tillStarted' = [tillStarted EXCEPT ![c] = b]
             /\ UNCHANGED <<threadh, os, disabled, cancel, unwinding, took,
                            joiner, starts, saw, broken>>
  /\ UNCHANGED <<flags, termdisablecnt, stoppedwc, event, runs, cleanups,
                 earlyJoin>>

\* Its pthread_join(): waits, or fails since there is or has been another.
StartJoin(c) ==
  /\ at[c] = "startjoin" /\ joiner = Null
  /\ joiner' = c /\ Goto(c, "startjoining")
  /\ UNCHANGED <<flags, p, threadh, events, thread, calls, observed>>

StartJoined(c) ==
  /\ \/ at[c] = "startjoining" /\ os = "gone"
     \/ at[c] = "startjoin" /\ joiner # Null
  /\ Create(c, tillStarted[c])
  /\ UNCHANGED <<flags, termdisablecnt, events, event, runs, cleanups,
                 earlyJoin, sharedEvent>>

\* p->startedwc->wait(10000), of an event that another start() may have deleted.
\* (A wake missed between its test and its sleep ends like a slow thread.)
StartWait(c) ==
  /\ at[c] = "starting"
  /\ broken' = (startedwc = "none")
  /\ Goto(c, IF startedwc = "set" THEN "started" ELSE "startasleep")
  /\ UNCHANGED <<flags, p, threadh, events, thread, joiner, calls, starts, runs,
                 cleanups, earlyJoin, sharedEvent>>

\* The ten seconds are over: "Failed to start thread".  The event stays.
StartFailed(c) ==
  /\ at[c] = "startasleep"
  /\ Goto(c, "idle")
  /\ saw' = [saw EXCEPT ![c] = 0]
  /\ sharedEvent' = TRUE
  /\ UNCHANGED <<flags, p, threadh, events, thread, joiner, event, tillStarted,
                 starts, runs, cleanups, earlyJoin, broken>>

\* FXDELETE(p->startedwc), without the mutex.
EventDeleted_not == startedwc
EventDeleted == "none"
StartReturn(c) ==
  /\ at[c] = "started"
  /\ startedwc' = EventDeleted
  /\ broken' = \E d \in Controllers \ {c} : at[d] \in StartWaits \ {"starting"}
  /\ Goto(c, "idle")
  /\ saw' = [saw EXCEPT ![c] = 0]
  /\ UNCHANGED <<flags, p, threadh, stoppedwc, thread, joiner, event, tillStarted, starts, runs,
                 cleanups, earlyJoin, sharedEvent>>
-----------------------------------------------------------------------------
\* QThreadPrivate::run() up to the body.  It returns at once if isInCleanup was
\* left set by an earlier run.
Enter ==
  /\ os = "created" /\ p = Null
  /\ \/ /\ isInCleanup
        /\ os' = "gone"
        /\ UNCHANGED <<isRunning, isFinished, startedwc, at, runs>>
     \/ /\ ~isInCleanup
        /\ isRunning' = TRUE /\ isFinished' = FALSE
        /\ runs' = runs + 1
        /\ startedwc' = IF startedwc = "none" THEN "none" ELSE "set"
        /\ at' = [c \in Controllers |-> IF at[c] = "startasleep" THEN "started"
                                        ELSE at[c]]
        /\ os' = "body"
  /\ UNCHANGED <<isInCleanup, p, threadh, stoppedwc, disabled, termdisablecnt,
                 cancel, unwinding, took, joiner, calls, starts, cleanups,
                 earlyJoin, sharedEvent, broken>>

\* disableTermination() and enableTermination(): the count is the object's, the
\* cancel state the thread's.
Disable ==
  /\ os = "body" /\ termdisablecnt < MaxHold
  /\ termdisablecnt' = termdisablecnt + 1
  /\ disabled' = (disabled \/ termdisablecnt = 0)
  /\ UNCHANGED <<flags, p, threadh, events, os, cancel, unwinding, took, joiner,
                 at, calls, observed>>

CountEnabled_unclamped == termdisablecnt - 1
CountEnabled == IF termdisablecnt = 0 THEN 0 ELSE termdisablecnt - 1
StillDisabled_always == disabled
StillDisabled == disabled /\ termdisablecnt # 1
Enable ==
  /\ os = "body"
  /\ termdisablecnt' = CountEnabled
  /\ disabled' = StillDisabled
  /\ UNCHANGED <<flags, p, threadh, events, os, cancel, unwinding, took, joiner,
                 at, calls, observed>>

\* run() returns, or an exception leaves it; start_thread() calls cleanup then.
AfterRun_notPopped == "gone"
AfterRun == "ending"
Finish ==
  /\ os = "body"
  /\ os' = AfterRun
  /\ UNCHANGED <<flags, p, threadh, events, disabled, termdisablecnt, cancel,
                 unwinding, took, joiner, at, calls, observed>>

\* A cancellation point with a cancellation pending: the cleanup handler is next.
Cancelled ==
  /\ os = "body" /\ cancel /\ ~disabled
  /\ os' = "ending" /\ unwinding' = TRUE
  /\ UNCHANGED <<flags, p, threadh, events, disabled, termdisablecnt, cancel,
                 took, joiner, at, calls, observed>>

\* QThreadPrivate::cleanup(): QThread_DTHold, the mark, and then the object's own
\* cleanup() without the mutex.
CleanupBegin ==
  /\ os = "ending" /\ p = Null /\ ~isInCleanup
  /\ termdisablecnt' = termdisablecnt + 1
  /\ disabled' = (disabled \/ termdisablecnt = 0)
  /\ isInCleanup' = TRUE
  /\ cleanups' = cleanups + 1
  /\ os' = "cleaning"
  /\ UNCHANGED <<isRunning, isFinished, p, threadh, events, cancel, unwinding,
                 took, joiner, at, calls, starts, runs, earlyJoin, sharedEvent, broken>>

\* forceCleanup(), and the stop event is taken over; termination is possible again.
CleanupEnd ==
  /\ os = "cleaning" /\ p = Null
  /\ isRunning' = FALSE /\ isFinished' = TRUE
  /\ took' = stoppedwc /\ stoppedwc' = FALSE
  /\ event' = [c \in Controllers |-> IF event[c] = "kept" THEN "taken" ELSE event[c]]
  /\ termdisablecnt' = CountEnabled /\ disabled' = StillDisabled
  /\ os' = "after"
  /\ UNCHANGED <<isInCleanup, p, threadh, startedwc, cancel, unwinding, joiner,
                 at, saw, tillStarted, observed>>

\* An exception leaves cleanup(): start_thread() sets the flags without the mutex
\* and wakes nobody.  (When a cancellation is carried out it would end the program.)
CleanupThrows ==
  /\ os = "cleaning" /\ ~unwinding
  /\ isRunning' = FALSE /\ isFinished' = TRUE
  /\ termdisablecnt' = CountEnabled /\ disabled' = StillDisabled
  /\ os' = "gone"
  /\ UNCHANGED <<isInCleanup, p, threadh, events, cancel, unwinding, took,
                 joiner, at, calls, observed>>

\* A cancellation reaches cleanup(): QThread_DTHold found a count that an earlier
\* run had left and did not disable it.
CleanupCancelled ==
  /\ os = "cleaning" /\ cancel /\ ~disabled /\ ~unwinding
  /\ os' = "gone"
  /\ termdisablecnt' = CountEnabled
  /\ UNCHANGED <<flags, p, threadh, events, disabled, cancel, unwinding, took,
                 joiner, at, calls, observed>>

\* The rest of cleanup(): the waiters are woken,
Wake ==
  /\ os = "after"
  /\ os' = IF took THEN "linger" ELSE "gone"
  /\ event' = [c \in Controllers |-> IF event[c] = "taken" THEN "set" ELSE event[c]]
  /\ at' = [c \in Controllers |-> IF at[c] = "asleep" /\ event[c] = "taken"
                                  THEN "woken" ELSE at[c]]
  /\ UNCHANGED <<flags, p, threadh, events, disabled, termdisablecnt, cancel,
                 unwinding, took, joiner, saw, tillStarted, observed>>

\* and a second later, long enough for those that have woken, the event is deleted,
\* under those that slept through the wake.
Linger ==
  /\ os = "linger"
  /\ \A c \in Controllers : event[c] = "set" => at[c] \in {"gap", "asleep"}
  /\ broken' = \E c \in Controllers : event[c] = "set"
  /\ os' = "gone"
  /\ UNCHANGED <<flags, p, threadh, events, disabled, termdisablecnt, cancel,
                 unwinding, took, joiner, at, calls, starts, runs, cleanups,
                 earlyJoin, sharedEvent>>

\* The second is a cancellation point: the event is never deleted.
LingerCancelled ==
  /\ os = "linger" /\ cancel /\ ~disabled /\ ~unwinding
  /\ os' = "gone"
  /\ UNCHANGED <<flags, p, threadh, events, disabled, termdisablecnt, cancel,
                 unwinding, took, joiner, at, calls, observed>>
-----------------------------------------------------------------------------
\* wait().  If the thread has finished or does not run (yet) it returns at once.
Wait(c) ==
  /\ at[c] = "idle" /\ p = Null /\ ~isFinished /\ isRunning
  /\ saw' = [saw EXCEPT ![c] = runs]
  /\ \/ /\ Goto(c, "join")
        /\ UNCHANGED <<stoppedwc, event>>
     \/ /\ stoppedwc' = TRUE
        /\ event' = [event EXCEPT ![c] = "kept"]
        /\ Goto(c, "begun")
  /\ UNCHANGED <<flags, p, threadh, startedwc, thread, joiner, tillStarted,
                 observed>>

\* FXINFINITE: pthread_join() without the mutex; of a null handle it crashes, and
\* while or after another joins it fails, which goes unnoticed.
Join(c) ==
  /\ at[c] = "join"
  /\ broken' = ~threadh
  /\ \/ /\ joiner = Null
        /\ joiner' = c /\ Goto(c, "joining")
        /\ UNCHANGED earlyJoin
     \/ /\ joiner # Null
        /\ Goto(c, "joined")
        /\ earlyJoin' = (earlyJoin \/ Alive)
        /\ UNCHANGED joiner
  /\ UNCHANGED <<flags, p, threadh, events, thread, calls, starts, runs, cleanups,
                 sharedEvent>>

Joined(c) ==
  /\ at[c] = "joining" /\ os = "gone"
  /\ Goto(c, "joined")
  /\ UNCHANGED <<flags, p, threadh, events, thread, joiner, calls, observed>>

ZeroHandle(c) ==
  /\ at[c] = "joined"
  /\ threadh' = FALSE
  /\ Goto(c, "zeroed")
  /\ UNCHANGED <<flags, p, events, thread, joiner, calls, observed>>

\* "In case thread had died", without the mutex, whatever has been started since.
SetFlags(c) ==
  /\ at[c] = "zeroed"
  /\ isFinished' = TRUE /\ isRunning' = FALSE /\ isInCleanup' = FALSE
  /\ Goto(c, "idle")
  /\ saw' = [saw EXCEPT ![c] = 0]
  /\ UNCHANGED <<p, threadh, events, thread, joiner, event, tillStarted, observed>>

\* A limit: wc->wait(time) on the stop event.
WaitTest(c) ==
  /\ at[c] = "begun"
  /\ Goto(c, IF event[c] = "set" THEN "woken" ELSE "gap")
  /\ UNCHANGED <<flags, p, threadh, events, thread, joiner, calls, observed>>

WaitSleep(c) ==
  /\ at[c] = "gap"
  /\ Goto(c, "asleep")
  /\ UNCHANGED <<flags, p, threadh, events, thread, joiner, calls, observed>>

\* The limit and the time of day are added without a carry: pthread_cond_timedwait()
\* may refuse the wait with EINVAL, and wc->wait() then returns true at once.  (Not
\* so the ten seconds of start(): whole seconds leave tv_nsec below 10^9.)
WaitRefused(c) ==
  /\ at[c] = "gap"
  /\ Goto(c, "refused")
  /\ UNCHANGED <<flags, p, threadh, events, thread, joiner, calls, observed>>

AtLimit_true == "woken"
AtLimit == "idle"
WaitTimeout(c) ==
  /\ at[c] = "asleep"
  /\ Goto(c, AtLimit)
  /\ event' = [event EXCEPT ![c] = "none"]
  /\ UNCHANGED <<flags, p, threadh, events, thread, joiner, saw, tillStarted,
                 observed>>

\* It returns true: woken, let through by a set event, or refused.
WaitReturn(c) ==
  /\ at[c] \in {"woken", "refused"}
  /\ Goto(c, "idle")
  /\ event' = [event EXCEPT ![c] = "none"]
  /\ saw' = [saw EXCEPT ![c] = 0]
  /\ UNCHANGED <<flags, p, threadh, events, thread, joiner, tillStarted,
                 observed>>

\* requestTermination(): looks at isRunning and cancels by the handle, without the
\* mutex: the thread may have ended, been joined or be another by then.
Request(c) ==
  /\ at[c] = "idle" /\ isRunning
  /\ Goto(c, "requesting")
  /\ UNCHANGED <<flags, p, threadh, events, thread, joiner, calls, observed>>

RequestCancel(c) ==
  /\ at[c] = "requesting"
  /\ cancel' = (cancel \/ Alive)
  /\ broken' = ~threadh
  /\ Goto(c, "idle")
  /\ UNCHANGED <<flags, p, threadh, events, os, disabled, termdisablecnt,
                 unwinding, took, joiner, calls, starts, runs, cleanups, earlyJoin,
                 sharedEvent>>
-----------------------------------------------------------------------------
Starting(c) == StartJoin(c) \/ StartJoined(c) \/ StartWait(c) \/ StartFailed(c)
               \/ StartReturn(c)
Waiting(c) == Join(c) \/ Joined(c) \/ ZeroHandle(c) \/ SetFlags(c) \/ WaitTest(c)
              \/ WaitSleep(c) \/ WaitRefused(c) \/ WaitTimeout(c) \/ WaitReturn(c)
Cleaning == CleanupBegin \/ CleanupEnd \/ Wake \/ Linger
Thread == \/ Enter \/ Disable \/ Enable \/ Finish \/ Cancelled
          \/ Cleaning \/ CleanupThrows \/ CleanupCancelled \/ LingerCancelled

Next == /\ ~broken
        /\ \/ Thread
           \/ \E c \in Controllers : \/ Start(c) \/ Starting(c)
                                     \/ Wait(c) \/ Waiting(c)
                                     \/ Request(c) \/ RequestCancel(c)

Spec == Init /\ [][Next]_vars

\* Calls and the thread's own code go on, limits pass and cleanup() ends.  Nothing
\* makes run() end: only a cancellation point which it passes with termination
\* enabled, again and again, as QThread.h asks for.
Fairness ==
  /\ WF_vars(~broken /\ (Enter \/ Cleaning))
  /\ WF_vars(~broken /\ Enable) /\ SF_vars(~broken /\ Cancelled)
  /\ \A c \in Controllers :
       WF_vars(~broken /\ (Starting(c) \/ Waiting(c) \/ RequestCancel(c)))
FairSpec == Spec /\ Fairness
-----------------------------------------------------------------------------
\* Every variable stays in its domain.
TypeOK ==
  /\ {isRunning, isFinished, isInCleanup, threadh, stoppedwc, disabled, cancel,
      unwinding, took, earlyJoin, sharedEvent, broken} \subseteq BOOLEAN
  /\ termdisablecnt \in 0..(MaxHold + MaxStarts)
  /\ p \in Controllers \cup {Null} /\ joiner \in Controllers \cup {Null}
  /\ startedwc \in {"none", "unset", "set"}
  /\ os \in {"none", "created", "body", "ending", "cleaning", "after", "linger",
             "gone"}
  /\ at \in [Controllers ->
       {"idle", "startjoin", "startjoining", "starting", "startasleep",
        "started", "join", "joining", "joined", "zeroed", "begun",
        "gap", "asleep", "refused", "woken", "requesting"}]
  /\ saw \in [Controllers -> 0..MaxStarts]
  /\ event \in [Controllers -> {"none", "kept", "taken", "set"}]
  /\ tillStarted \in [Controllers -> BOOLEAN]
  /\ {starts, runs, cleanups} \subseteq 0..MaxStarts

\* "cleanup() is guaranteed to be called irrespective of how the thread ends"
\* (QThread.h): once for every time run() was called, after it and before anything
\* is started again.
CleanupOnce ==
  ~broken => cleanups = IF os \in {"body", "ending"} THEN runs - 1 ELSE runs

\* A wait() that saw the thread running and returns true comes after the end of
\* that run, through an event that is taken over and deleted, limits, and restarts
\* of the object in between: unless the kernel refused its timed wait, or another
\* joined the thread (earlyJoin).
Ended(n) == n < runs \/ os \notin {"body", "ending", "cleaning"}
ReturnsTrue(c) == at[c] \in {"woken", "refused", "zeroed"} /\ at'[c] = "idle"
WaitIsTruthful ==
  [][\A c \in Controllers :
       ReturnsTrue(c) => Ended(saw[c]) \/ at[c] = "refused" \/ earlyJoin]_vars

\* "True if thread finished in time alloted" (include/QThread.h), of waits that
\* have a time allotted.
FinishedInTime ==
  [][\A c \in Controllers :
       ReturnsTrue(c) /\ at[c] # "zeroed" => Ended(saw[c])]_vars

\* A start(true) that returns has waited until its own run() was under way.  (Not so
\* once a start() has failed, whose event the next one finds, or two that overlap
\* share one: sharedEvent.)
StartIsTruthful ==
  [][\A c \in Controllers :
       ~sharedEvent /\ at[c] = "started" /\ at'[c] = "idle" => saw[c] < runs]_vars

\* A start() that joins a thread which has yet to take p keeps it from doing so.
Stuck == \E c \in Controllers : p = c /\ os \in {"created", "body", "ending", "cleaning"}

\* A request that reaches the thread ends it, with the calls that are blocked on it.
\* (A wait() that has not begun to join yet may get to join the next run instead.)
Blocked(c) == at[c] \in {"startjoin", "startjoining", "joining", "begun", "gap", "asleep"}
TerminationEnds == [](~Stuck /\ ~broken) =>
  /\ cancel ~> os = "gone"
  /\ \A c \in Controllers : (cancel /\ Alive /\ Blocked(c)) ~> ~Blocked(c)
=============================================================================
