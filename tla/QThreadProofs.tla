--------------------------- MODULE QThreadProofs ---------------------------
(***************************************************************************)
(* For any number of threads that start, wait for and terminate a QThread: *)
(* its cleanup is called once per run, and what wait() and start() return  *)
(* is true.                                                                *)
(***************************************************************************)
EXTENDS QThread, TLAPS

Rejoining(c) == at[c] \in {"startjoin", "startjoining"}

\* How far the counters are apart.  QThread_DTHold of a cleanup adds one to the
\* count of disableTermination(); a thread that is created has not run.
CountsAgree ==
  /\ cleanups <= runs /\ runs <= starts
  /\ os = "created" => runs < starts
  /\ os # "none" => starts > 0
  /\ termdisablecnt <= IF os = "cleaning" \/ broken THEN MaxHold + 1 ELSE MaxHold
  /\ \A c \in Controllers : saw[c] <= runs
  /\ \A c \in Controllers : Rejoining(c) => starts < MaxStarts

\* A wait() that is about to return true has seen the end of the run it waits for,
\* through its event or through its join; one that was refused has seen nothing.
WaitersSawTheEnd ==
  \A c \in Controllers :
    /\ event[c] \in {"taken", "set"} => Ended(saw[c])
    /\ at[c] = "woken" => event[c] = "set"
    /\ event[c] # "none" => at[c] \in {"begun", "gap", "asleep", "refused", "woken"}
    /\ at[c] \in {"joined", "zeroed"} /\ ~earlyJoin => Ended(saw[c])

\* A start() that joins the old thread keeps the mutex.
JoinerHasMutex == \A c \in Controllers : Rejoining(c) => p = c

\* The start() calls that use the start event, or are going to.
UsesEvent(c) == at[c] \in StartWaits \/ (Rejoining(c) /\ tillStarted[c])

\* While none has left its event behind they use it one at a time, it is set only
\* once its user's run has begun, and goes with its user.
EventIsOwn ==
  ~sharedEvent =>
    /\ \A c, d \in Controllers : UsesEvent(c) /\ UsesEvent(d) => c = d
    /\ startedwc # "none" => \E c \in Controllers : UsesEvent(c)
    /\ \A c \in Controllers : UsesEvent(c) /\ Rejoining(c) => startedwc = "unset"
    /\ \A c \in Controllers :
         \/ at[c] = "started"
         \/ at[c] \in StartWaits /\ startedwc = "set"
         => saw[c] < runs

\* The inductive invariant.
IInv == TypeOK /\ CountsAgree /\ CleanupOnce /\ WaitersSawTheEnd
        /\ JoinerHasMutex /\ EventIsOwn
-----------------------------------------------------------------------------
\* The flags and observers one by one: the provers do not see through the set.
Booleans == /\ isRunning \in BOOLEAN /\ isFinished \in BOOLEAN /\ isInCleanup \in BOOLEAN
            /\ threadh \in BOOLEAN /\ stoppedwc \in BOOLEAN /\ disabled \in BOOLEAN
            /\ cancel \in BOOLEAN /\ unwinding \in BOOLEAN /\ took \in BOOLEAN
            /\ earlyJoin \in BOOLEAN /\ sharedEvent \in BOOLEAN /\ broken \in BOOLEAN

Domains ==
  /\ termdisablecnt \in 0..(MaxHold + MaxStarts)
  /\ p \in Controllers \cup {Null} /\ joiner \in Controllers \cup {Null}
  /\ startedwc \in {"none", "unset", "set"}
  /\ os \in {"none", "created", "body", "ending", "cleaning", "after", "linger",
             "gone"}
  /\ at \in [Controllers ->
       {"idle", "startjoin", "startjoining", "starting", "startasleep",
        "started", "join", "joining", "joined", "zeroed", "begun",
        "gap", "asleep", "refused", "woken", "requesting"}]
  /\ saw \in [Controllers -> 0..MaxStarts]
  /\ event \in [Controllers -> {"none", "kept", "taken", "set"}]
  /\ tillStarted \in [Controllers -> BOOLEAN]
  /\ {starts, runs, cleanups} \subseteq 0..MaxStarts

LEMMA SplitTypes == TypeOK <=> Booleans /\ Domains
  <1>1. Booleans <=> {isRunning, isFinished, isInCleanup, threadh, stoppedwc, disabled,
                      cancel, unwinding, took, earlyJoin, sharedEvent, broken} \subseteq BOOLEAN
    BY Zenon DEF Booleans
  <1>2. QED
    BY <1>1, Zenon DEF TypeOK, Domains

LEMMA InitIInv == Init => IInv
  <1> SUFFICES ASSUME Init PROVE IInv
    OBVIOUS
  <1> USE QThreadAssumption DEF Init
  <1>1. TypeOK
    <2>1. Booleans
      BY DEF Booleans
    <2>2. Domains
      BY DEF Domains
    <2>3. QED
      BY <2>1, <2>2, SplitTypes
  <1>2. CountsAgree /\ JoinerHasMutex
    BY DEF CountsAgree, JoinerHasMutex, Rejoining
  <1>3. CleanupOnce /\ WaitersSawTheEnd
    BY DEF CleanupOnce, WaitersSawTheEnd
  <1>4. EventIsOwn
    BY DEF EventIsOwn, UsesEvent, StartWaits, Rejoining
  <1>5. QED
    BY <1>1, <1>2, <1>3, <1>4 DEF IInv

\* A thread is made while nobody joins to make another.
LEMMA CreateCounts ==
  ASSUME IInv, ~broken, NEW c \in Controllers, NEW b \in BOOLEAN, Create(c, b),
         starts < MaxStarts, UNCHANGED <<runs, cleanups, termdisablecnt>>,
         \A d \in Controllers : Rejoining(d) => d = c
  PROVE  CountsAgree'
  <1> USE QThreadAssumption DEF IInv, CountsAgree, Create
  <1>1. \A d \in Controllers : ~Rejoining(d)'
    BY DEF Rejoining
  <1>2. \A d \in Controllers : saw'[d] <= runs'
    BY DEF TypeOK
  <1>3. os = "cleaning" => broken'
    BY DEF Alive
  <1>4. termdisablecnt' <= IF os' = "cleaning" \/ broken' THEN MaxHold + 1 ELSE MaxHold
    BY <1>3 DEF TypeOK
  <1>5. QED
    BY <1>1, <1>2, <1>4 DEF TypeOK

\* The flags and observers.
LEMMA BooleansKept ==
  ASSUME Booleans, Next PROVE Booleans'
  <1> USE DEF flags, events, thread, calls, observed, Goto, Booleans, Alive
  <1>1. ASSUME NEW c \in Controllers, Start(c) PROVE Booleans'
    BY <1>1 DEF Start, Create
  <1>2. ASSUME NEW c \in Controllers, StartJoin(c) PROVE Booleans'
    BY <1>2 DEF StartJoin
  <1>3. ASSUME NEW c \in Controllers, StartJoined(c) PROVE Booleans'
    BY <1>3 DEF StartJoined, Create
  <1>4. ASSUME NEW c \in Controllers, StartWait(c) PROVE Booleans'
    BY <1>4 DEF StartWait
  <1>5. ASSUME NEW c \in Controllers, StartFailed(c) PROVE Booleans'
    BY <1>5 DEF StartFailed
  <1>6. ASSUME NEW c \in Controllers, StartReturn(c) PROVE Booleans'
    BY <1>6 DEF StartReturn
  <1>7. ASSUME NEW c \in Controllers, Wait(c) PROVE Booleans'
    BY <1>7 DEF Wait
  <1>8. ASSUME NEW c \in Controllers, Join(c) PROVE Booleans'
    BY <1>8 DEF Join
  <1>9. ASSUME NEW c \in Controllers, Joined(c) PROVE Booleans'
    BY <1>9 DEF Joined
  <1>10. ASSUME NEW c \in Controllers, ZeroHandle(c) PROVE Booleans'
    BY <1>10 DEF ZeroHandle
  <1>11. ASSUME NEW c \in Controllers, SetFlags(c) PROVE Booleans'
    BY <1>11 DEF SetFlags
  <1>12. ASSUME NEW c \in Controllers, WaitTest(c) PROVE Booleans'
    BY <1>12 DEF WaitTest
  <1>13. ASSUME NEW c \in Controllers, WaitSleep(c) PROVE Booleans'
    BY <1>13 DEF WaitSleep
  <1>13b. ASSUME NEW c \in Controllers, WaitRefused(c) PROVE Booleans'
    BY <1>13b DEF WaitRefused
  <1>14. ASSUME NEW c \in Controllers, WaitTimeout(c) PROVE Booleans'
    BY <1>14 DEF WaitTimeout
  <1>15. ASSUME NEW c \in Controllers, WaitReturn(c) PROVE Booleans'
    BY <1>15 DEF WaitReturn
  <1>16. ASSUME NEW c \in Controllers, Request(c) PROVE Booleans'
    BY <1>16 DEF Request
  <1>17. ASSUME NEW c \in Controllers, RequestCancel(c) PROVE Booleans'
    BY <1>17 DEF RequestCancel
  <1>18. ASSUME Enter PROVE Booleans'
    BY <1>18 DEF Enter
  <1>19. ASSUME Disable PROVE Booleans'
    BY <1>19 DEF Disable
  <1>20. ASSUME Enable PROVE Booleans'
    BY <1>20 DEF Enable, StillDisabled
  <1>21. ASSUME Finish PROVE Booleans'
    BY <1>21 DEF Finish
  <1>22. ASSUME Cancelled PROVE Booleans'
    BY <1>22 DEF Cancelled
  <1>23. ASSUME CleanupBegin PROVE Booleans'
    BY <1>23 DEF CleanupBegin
  <1>24. ASSUME CleanupEnd PROVE Booleans'
    BY <1>24 DEF CleanupEnd, StillDisabled
  <1>25. ASSUME CleanupThrows PROVE Booleans'
    BY <1>25 DEF CleanupThrows, StillDisabled
  <1>26. ASSUME CleanupCancelled PROVE Booleans'
    BY <1>26 DEF CleanupCancelled
  <1>27. ASSUME Wake PROVE Booleans'
    BY <1>27 DEF Wake
  <1>28. ASSUME Linger PROVE Booleans'
    BY <1>28 DEF Linger
  <1>29. ASSUME LingerCancelled PROVE Booleans'
    BY <1>29 DEF LingerCancelled
  <1>30. QED
    BY <1>1, <1>2, <1>3, <1>4, <1>5, <1>6, <1>7, <1>8, <1>9, <1>10, <1>11,
       <1>12, <1>13, <1>14, <1>15, <1>16, <1>17, <1>18, <1>19, <1>20, <1>21,
       <1>22, <1>23, <1>24, <1>25, <1>26, <1>27, <1>28, <1>29, <1>13b
    DEF Next, Thread, Cleaning, Starting, Waiting

\* The other variables; each counter has room for the step that adds to it.
LEMMA DomainsKept ==
  ASSUME IInv, ~broken, Next PROVE Domains'
  <1> USE QThreadAssumption
      DEF flags, events, thread, calls, observed, Goto, IInv, TypeOK, Domains,
          CountsAgree, CleanupOnce, Rejoining, StartWaits
  <1>1. ASSUME NEW c \in Controllers, Start(c)
        PROVE  Domains'
    <2>1. ASSUME NEW b \in BOOLEAN, ~threadh /\ Create(c, b), starts < MaxStarts PROVE Domains'
      <3>1. event' = event /\ startedwc' \in {"none", "unset", "set"}
        BY <1>1 DEF Start
      <3>2. UNCHANGED <<termdisablecnt, runs, cleanups>>
        BY <1>1 DEF Start
      <3>3. QED
        BY <2>1, <3>1, <3>2 DEF Create
    <2>2. CASE threadh
      BY <1>1, <2>2 DEF Start
    <2>3. QED
      BY <1>1, <2>1, <2>2 DEF Start
  <1>2. ASSUME NEW c \in Controllers, StartJoin(c) \/ StartWait(c) \/ StartFailed(c)
        PROVE  Domains'
    BY <1>2 DEF StartJoin, StartWait, StartFailed
  <1>3. ASSUME NEW c \in Controllers, StartJoined(c)
        PROVE  Domains'
    BY <1>3 DEF StartJoined, Create
  <1>4. ASSUME NEW c \in Controllers, StartReturn(c)
        PROVE  Domains'
    BY <1>4 DEF StartReturn, EventDeleted
  <1>5. ASSUME NEW c \in Controllers, Wait(c) PROVE Domains'
    BY <1>5 DEF Wait
  <1>6. ASSUME NEW c \in Controllers, Join(c) PROVE Domains'
    BY <1>6 DEF Join
  <1>7. ASSUME NEW c \in Controllers, Joined(c) \/ ZeroHandle(c) \/ SetFlags(c)
        PROVE  Domains'
    BY <1>7 DEF Joined, ZeroHandle, SetFlags
  <1>8. ASSUME NEW c \in Controllers, WaitTest(c) \/ WaitSleep(c) \/ WaitRefused(c) \/ WaitTimeout(c)
                                     \/ WaitReturn(c)
        PROVE  Domains'
    BY <1>8 DEF WaitTest, WaitSleep, WaitRefused, WaitTimeout, WaitReturn, AtLimit
  <1>9. ASSUME NEW c \in Controllers, Request(c) \/ RequestCancel(c)
        PROVE  Domains'
    BY <1>9 DEF Request, RequestCancel
  <1>10. ASSUME Enter PROVE Domains'
    BY <1>10 DEF Enter
  <1>11. ASSUME Disable \/ Enable \/ Finish \/ Cancelled
        PROVE  Domains'
    BY <1>11 DEF Disable, Enable, Finish, Cancelled, CountEnabled,
      StillDisabled, AfterRun
  <1>12. ASSUME CleanupBegin PROVE Domains'
    BY <1>12 DEF CleanupBegin
  <1>13. ASSUME CleanupEnd \/ CleanupThrows \/ CleanupCancelled
        PROVE  Domains'
    BY <1>13 DEF CleanupEnd, CleanupThrows, CleanupCancelled, CountEnabled,
      StillDisabled
  <1>14. ASSUME Wake \/ Linger \/ LingerCancelled
        PROVE  Domains'
    BY <1>14 DEF Wake, Linger, LingerCancelled
  <1>15. QED
    BY <1>1, <1>2, <1>3, <1>4, <1>5, <1>6, <1>7, <1>8, <1>9, <1>10, <1>11,
      <1>12, <1>13, <1>14
    DEF Next, Thread, Cleaning, Starting, Waiting

\* A thread is created, runs and is cleaned up in turns.
LEMMA CountsKept ==
  ASSUME IInv, ~broken, Next PROVE CountsAgree'
  <1> USE QThreadAssumption
      DEF flags, events, thread, calls, observed, Goto, IInv, TypeOK, CountsAgree,
          CleanupOnce, Rejoining, JoinerHasMutex
  <1>1. ASSUME NEW c \in Controllers, Start(c)
        PROVE  CountsAgree'
    <2>1. \A d \in Controllers : ~Rejoining(d)
      BY <1>1 DEF Start
    <2>2. ASSUME NEW b \in BOOLEAN, ~threadh /\ Create(c, b) PROVE CountsAgree'
      BY <1>1, <2>1, <2>2, CreateCounts DEF Start
    <2>3. CASE threadh
      BY <1>1, <2>3 DEF Start
    <2>4. QED
      BY <1>1, <2>2, <2>3 DEF Start
  <1>2. ASSUME NEW c \in Controllers, StartJoin(c) \/ StartWait(c) \/ StartFailed(c)
        PROVE  CountsAgree'
    BY <1>2 DEF StartJoin, StartWait, StartFailed
  <1>3. ASSUME NEW c \in Controllers, StartJoined(c)
        PROVE  CountsAgree'
    <2>1. \A d \in Controllers : Rejoining(d) => d = c
      BY <1>3 DEF StartJoined
    <2>2. tillStarted[c] \in BOOLEAN /\ starts < MaxStarts
      BY <1>3 DEF StartJoined
    <2>3. QED
      BY <1>3, <2>1, <2>2, CreateCounts DEF StartJoined
  <1>4. ASSUME NEW c \in Controllers, StartReturn(c)
        PROVE  CountsAgree'
    BY <1>4 DEF StartReturn, EventDeleted
  <1>5. ASSUME NEW c \in Controllers, Wait(c) PROVE CountsAgree'
    BY <1>5 DEF Wait
  <1>6. ASSUME NEW c \in Controllers, Join(c) PROVE CountsAgree'
    BY <1>6 DEF Join
  <1>7. ASSUME NEW c \in Controllers, Joined(c) \/ ZeroHandle(c) \/ SetFlags(c)
        PROVE  CountsAgree'
    BY <1>7 DEF Joined, ZeroHandle, SetFlags
  <1>8. ASSUME NEW c \in Controllers, WaitTest(c) \/ WaitSleep(c) \/ WaitRefused(c) \/ WaitTimeout(c)
                                     \/ WaitReturn(c)
        PROVE  CountsAgree'
    BY <1>8 DEF WaitTest, WaitSleep, WaitRefused, WaitTimeout, WaitReturn, AtLimit
  <1>9. ASSUME NEW c \in Controllers, Request(c) \/ RequestCancel(c)
        PROVE  CountsAgree'
    BY <1>9 DEF Request, RequestCancel
  <1>10. ASSUME Enter PROVE CountsAgree'
    BY <1>10 DEF Enter
  <1>11. ASSUME Disable \/ Enable \/ Finish \/ Cancelled
        PROVE  CountsAgree'
    BY <1>11 DEF Disable, Enable, Finish, Cancelled, CountEnabled,
      StillDisabled, AfterRun
  <1>12. ASSUME CleanupBegin PROVE CountsAgree'
    BY <1>12 DEF CleanupBegin
  <1>13. ASSUME CleanupEnd \/ CleanupThrows \/ CleanupCancelled
        PROVE  CountsAgree'
    BY <1>13 DEF CleanupEnd, CleanupThrows, CleanupCancelled, CountEnabled,
      StillDisabled
  <1>14. ASSUME Wake PROVE CountsAgree'
    BY <1>14 DEF Wake
  <1>15. ASSUME Linger PROVE CountsAgree'
    BY <1>15 DEF Linger
  <1>16. ASSUME LingerCancelled PROVE CountsAgree'
    BY <1>16 DEF LingerCancelled
  <1>17. QED
    BY <1>1, <1>2, <1>3, <1>4, <1>5, <1>6, <1>7, <1>8, <1>9, <1>10, <1>11,
      <1>12, <1>13, <1>14, <1>15, <1>16
    DEF Next, Thread, Cleaning, Starting, Waiting

\* Each way to end a run calls cleanup() once.
LEMMA OnceKept ==
  ASSUME IInv, ~broken, Next PROVE CleanupOnce'
  <1> USE QThreadAssumption
      DEF flags, events, thread, calls, observed, Goto, IInv, TypeOK, CleanupOnce,
          Alive
  <1>1. ASSUME NEW c \in Controllers, Start(c)
        PROVE  CleanupOnce'
    BY <1>1 DEF Start, Create
  <1>2. ASSUME NEW c \in Controllers, StartJoin(c) \/ StartWait(c) \/ StartFailed(c)
        PROVE  CleanupOnce'
    BY <1>2 DEF StartJoin, StartWait, StartFailed
  <1>3. ASSUME NEW c \in Controllers, StartJoined(c)
        PROVE  CleanupOnce'
    BY <1>3 DEF StartJoined, Create
  <1>4. ASSUME NEW c \in Controllers, StartReturn(c)
        PROVE  CleanupOnce'
    BY <1>4 DEF StartReturn, EventDeleted
  <1>5. ASSUME NEW c \in Controllers, Wait(c) PROVE CleanupOnce'
    BY <1>5 DEF Wait
  <1>6. ASSUME NEW c \in Controllers, Join(c) PROVE CleanupOnce'
    BY <1>6 DEF Join
  <1>7. ASSUME NEW c \in Controllers, Joined(c) \/ ZeroHandle(c) \/ SetFlags(c)
        PROVE  CleanupOnce'
    BY <1>7 DEF Joined, ZeroHandle, SetFlags
  <1>8. ASSUME NEW c \in Controllers, WaitTest(c) \/ WaitSleep(c) \/ WaitRefused(c) \/ WaitTimeout(c)
                                     \/ WaitReturn(c)
        PROVE  CleanupOnce'
    BY <1>8 DEF WaitTest, WaitSleep, WaitRefused, WaitTimeout, WaitReturn, AtLimit
  <1>9. ASSUME NEW c \in Controllers, Request(c) \/ RequestCancel(c)
        PROVE  CleanupOnce'
    BY <1>9 DEF Request, RequestCancel
  <1>10. ASSUME Enter PROVE CleanupOnce'
    BY <1>10 DEF Enter
  <1>11. ASSUME Disable \/ Enable \/ Finish \/ Cancelled
        PROVE  CleanupOnce'
    BY <1>11 DEF Disable, Enable, Finish, Cancelled, CountEnabled,
      StillDisabled, AfterRun
  <1>12. ASSUME CleanupBegin PROVE CleanupOnce'
    BY <1>12 DEF CleanupBegin
  <1>13. ASSUME CleanupEnd \/ CleanupThrows \/ CleanupCancelled
        PROVE  CleanupOnce'
    BY <1>13 DEF CleanupEnd, CleanupThrows, CleanupCancelled, CountEnabled,
      StillDisabled
  <1>14. ASSUME Wake \/ Linger \/ LingerCancelled
        PROVE  CleanupOnce'
    BY <1>14 DEF Wake, Linger, LingerCancelled
  <1>15. QED
    BY <1>1, <1>2, <1>3, <1>4, <1>5, <1>6, <1>7, <1>8, <1>9, <1>10, <1>11,
      <1>12, <1>13, <1>14
    DEF Next, Thread, Cleaning, Starting, Waiting

\* What a waiter has seen end stays ended, whatever is started since.
LEMMA WaitersKept ==
  ASSUME IInv, ~broken, Next PROVE WaitersSawTheEnd'
  <1> USE QThreadAssumption
      DEF flags, events, thread, calls, observed, Goto, IInv, TypeOK, CountsAgree,
          WaitersSawTheEnd, Ended, Alive
  <1>1. ASSUME NEW c \in Controllers, Start(c)
        PROVE  WaitersSawTheEnd'
    BY <1>1 DEF Start, Create
  <1>2. ASSUME NEW c \in Controllers, StartJoin(c) \/ StartWait(c) \/ StartFailed(c)
        PROVE  WaitersSawTheEnd'
    BY <1>2 DEF StartJoin, StartWait, StartFailed
  <1>3. ASSUME NEW c \in Controllers, StartJoined(c)
        PROVE  WaitersSawTheEnd'
    BY <1>3 DEF StartJoined, Create
  <1>4. ASSUME NEW c \in Controllers, StartReturn(c)
        PROVE  WaitersSawTheEnd'
    BY <1>4 DEF StartReturn, EventDeleted
  <1>5. ASSUME NEW c \in Controllers, Wait(c) PROVE WaitersSawTheEnd'
    BY <1>5 DEF Wait
  <1>6. ASSUME NEW c \in Controllers, Join(c) PROVE WaitersSawTheEnd'
    <2>1. joiner # Null /\ ~earlyJoin' => Ended(saw[c])
      BY <1>6 DEF Join
    <2>2. earlyJoin => earlyJoin'
      BY <1>6 DEF Join
    <2>3. QED
      BY <1>6, <2>1, <2>2 DEF Join
  <1>7. ASSUME NEW c \in Controllers, Joined(c) \/ ZeroHandle(c) \/ SetFlags(c)
        PROVE  WaitersSawTheEnd'
    BY <1>7 DEF Joined, ZeroHandle, SetFlags
  <1>8. ASSUME NEW c \in Controllers, WaitTest(c) \/ WaitSleep(c) \/ WaitRefused(c) \/ WaitTimeout(c)
                                     \/ WaitReturn(c)
        PROVE  WaitersSawTheEnd'
    BY <1>8 DEF WaitTest, WaitSleep, WaitRefused, WaitTimeout, WaitReturn, AtLimit
  <1>9. ASSUME NEW c \in Controllers, Request(c) \/ RequestCancel(c)
        PROVE  WaitersSawTheEnd'
    BY <1>9 DEF Request, RequestCancel
  <1>10. ASSUME Enter PROVE WaitersSawTheEnd'
    BY <1>10 DEF Enter
  <1>11. ASSUME Disable \/ Enable \/ Finish \/ Cancelled
        PROVE  WaitersSawTheEnd'
    BY <1>11 DEF Disable, Enable, Finish, Cancelled, CountEnabled,
      StillDisabled, AfterRun
  <1>12. ASSUME CleanupBegin PROVE WaitersSawTheEnd'
    BY <1>12 DEF CleanupBegin
  <1>13. ASSUME CleanupEnd \/ CleanupThrows \/ CleanupCancelled
        PROVE  WaitersSawTheEnd'
    BY <1>13 DEF CleanupEnd, CleanupThrows, CleanupCancelled, CountEnabled,
      StillDisabled
  <1>14. ASSUME Wake \/ Linger \/ LingerCancelled
        PROVE  WaitersSawTheEnd'
    BY <1>14 DEF Wake, Linger, LingerCancelled
  <1>15. QED
    BY <1>1, <1>2, <1>3, <1>4, <1>5, <1>6, <1>7, <1>8, <1>9, <1>10, <1>11,
      <1>12, <1>13, <1>14
    DEF Next, Thread, Cleaning, Starting, Waiting

\* The mutex is kept until the join is over.
LEMMA MutexKept ==
  ASSUME IInv, ~broken, Next PROVE JoinerHasMutex'
  <1> USE QThreadAssumption
      DEF flags, events, thread, calls, observed, Goto, IInv, TypeOK, JoinerHasMutex,
          Rejoining
  <1>1. ASSUME NEW c \in Controllers, Start(c)
        PROVE  JoinerHasMutex'
    BY <1>1 DEF Start, Create
  <1>2. ASSUME NEW c \in Controllers, StartJoin(c) \/ StartWait(c) \/ StartFailed(c)
        PROVE  JoinerHasMutex'
    BY <1>2 DEF StartJoin, StartWait, StartFailed
  <1>3. ASSUME NEW c \in Controllers, StartJoined(c)
        PROVE  JoinerHasMutex'
    BY <1>3 DEF StartJoined, Create
  <1>4. ASSUME NEW c \in Controllers, StartReturn(c)
        PROVE  JoinerHasMutex'
    BY <1>4 DEF StartReturn, EventDeleted
  <1>5. ASSUME NEW c \in Controllers, Wait(c) PROVE JoinerHasMutex'
    BY <1>5 DEF Wait
  <1>6. ASSUME NEW c \in Controllers, Join(c) PROVE JoinerHasMutex'
    BY <1>6 DEF Join
  <1>7. ASSUME NEW c \in Controllers, Joined(c) \/ ZeroHandle(c) \/ SetFlags(c)
        PROVE  JoinerHasMutex'
    BY <1>7 DEF Joined, ZeroHandle, SetFlags
  <1>8. ASSUME NEW c \in Controllers, WaitTest(c) \/ WaitSleep(c) \/ WaitRefused(c) \/ WaitTimeout(c)
                                     \/ WaitReturn(c)
        PROVE  JoinerHasMutex'
    BY <1>8 DEF WaitTest, WaitSleep, WaitRefused, WaitTimeout, WaitReturn, AtLimit
  <1>9. ASSUME NEW c \in Controllers, Request(c) \/ RequestCancel(c)
        PROVE  JoinerHasMutex'
    BY <1>9 DEF Request, RequestCancel
  <1>10. ASSUME Enter PROVE JoinerHasMutex'
    BY <1>10 DEF Enter
  <1>11. ASSUME Disable \/ Enable \/ Finish \/ Cancelled
        PROVE  JoinerHasMutex'
    BY <1>11 DEF Disable, Enable, Finish, Cancelled, CountEnabled,
      StillDisabled, AfterRun
  <1>12. ASSUME CleanupBegin PROVE JoinerHasMutex'
    BY <1>12 DEF CleanupBegin
  <1>13. ASSUME CleanupEnd \/ CleanupThrows \/ CleanupCancelled
        PROVE  JoinerHasMutex'
    BY <1>13 DEF CleanupEnd, CleanupThrows, CleanupCancelled, CountEnabled,
      StillDisabled
  <1>14. ASSUME Wake \/ Linger \/ LingerCancelled
        PROVE  JoinerHasMutex'
    BY <1>14 DEF Wake, Linger, LingerCancelled
  <1>15. QED
    BY <1>1, <1>2, <1>3, <1>4, <1>5, <1>6, <1>7, <1>8, <1>9, <1>10, <1>11,
      <1>12, <1>13, <1>14
    DEF Next, Thread, Cleaning, Starting, Waiting

\* The start event is made, set and deleted for one start().
LEMMA EventKept ==
  ASSUME IInv, ~broken, Next PROVE EventIsOwn'
  <1> USE QThreadAssumption
      DEF flags, events, thread, calls, observed, Goto, IInv, TypeOK, CountsAgree,
          JoinerHasMutex, EventIsOwn, UsesEvent, StartWaits, Rejoining
  <1>1. ASSUME NEW c \in Controllers, Start(c)
        PROVE  EventIsOwn'
    BY <1>1 DEF Start, Create
  <1>2. ASSUME NEW c \in Controllers, StartJoin(c) \/ StartWait(c) \/ StartFailed(c)
        PROVE  EventIsOwn'
    BY <1>2 DEF StartJoin, StartWait, StartFailed
  <1>3. ASSUME NEW c \in Controllers, StartJoined(c)
        PROVE  EventIsOwn'
    BY <1>3 DEF StartJoined, Create
  <1>4. ASSUME NEW c \in Controllers, StartReturn(c)
        PROVE  EventIsOwn'
    BY <1>4 DEF StartReturn, EventDeleted
  <1>5. ASSUME NEW c \in Controllers, Wait(c) PROVE EventIsOwn'
    BY <1>5 DEF Wait
  <1>6. ASSUME NEW c \in Controllers, Join(c) PROVE EventIsOwn'
    BY <1>6 DEF Join
  <1>7. ASSUME NEW c \in Controllers, Joined(c) \/ ZeroHandle(c) \/ SetFlags(c)
        PROVE  EventIsOwn'
    BY <1>7 DEF Joined, ZeroHandle, SetFlags
  <1>8. ASSUME NEW c \in Controllers, WaitTest(c) \/ WaitSleep(c) \/ WaitRefused(c) \/ WaitTimeout(c)
                                     \/ WaitReturn(c)
        PROVE  EventIsOwn'
    BY <1>8 DEF WaitTest, WaitSleep, WaitRefused, WaitTimeout, WaitReturn, AtLimit
  <1>9. ASSUME NEW c \in Controllers, Request(c) \/ RequestCancel(c)
        PROVE  EventIsOwn'
    BY <1>9 DEF Request, RequestCancel
  <1>10. ASSUME Enter PROVE EventIsOwn'
    BY <1>10 DEF Enter
  <1>11. ASSUME Disable \/ Enable \/ Finish \/ Cancelled
        PROVE  EventIsOwn'
    BY <1>11 DEF Disable, Enable, Finish, Cancelled, CountEnabled,
      StillDisabled, AfterRun
  <1>12. ASSUME CleanupBegin PROVE EventIsOwn'
    BY <1>12 DEF CleanupBegin
  <1>13. ASSUME CleanupEnd \/ CleanupThrows \/ CleanupCancelled
        PROVE  EventIsOwn'
    BY <1>13 DEF CleanupEnd, CleanupThrows, CleanupCancelled, CountEnabled,
      StillDisabled
  <1>14. ASSUME Wake PROVE EventIsOwn'
    BY <1>14 DEF Wake
  <1>15. ASSUME Linger PROVE EventIsOwn'
    BY <1>15 DEF Linger
  <1>16. ASSUME LingerCancelled PROVE EventIsOwn'
    BY <1>16 DEF LingerCancelled
  <1>17. QED
    BY <1>1, <1>2, <1>3, <1>4, <1>5, <1>6, <1>7, <1>8, <1>9, <1>10, <1>11,
      <1>12, <1>13, <1>14, <1>15, <1>16
    DEF Next, Thread, Cleaning, Starting, Waiting

LEMMA StepIInv == IInv /\ [Next]_vars => IInv'
  <1> SUFFICES ASSUME IInv, [Next]_vars PROVE IInv'
    OBVIOUS
  <1>1. CASE Next
    <2>1. ~broken
      BY <1>1 DEF Next
    <2>2. Booleans
      BY SplitTypes DEF IInv
    <2>3. Booleans' /\ Domains'
      BY <1>1, <2>1, <2>2, BooleansKept, DomainsKept
    <2>4. TypeOK'
      BY <2>3, SplitTypes, PTL
    <2>5. QED
      BY <1>1, <2>1, <2>4, CountsKept, OnceKept, WaitersKept, MutexKept, EventKept
      DEF IInv
  <1>2. CASE UNCHANGED vars
    BY <1>2 DEF vars, flags, events, thread, calls, observed, IInv, TypeOK,
       CountsAgree, Rejoining, CleanupOnce, WaitersSawTheEnd, Ended,
       JoinerHasMutex, EventIsOwn, UsesEvent
  <1>3. QED
    BY <1>1, <1>2

\* The invariant holds in every state of the object.
THEOREM Invariance == Spec => []IInv
  <1>1. QED
    BY InitIInv, StepIInv, PTL DEF Spec

\* Every variable of QThread stays in its domain; the counts have the bounds of the
\* model, and the count of disableTermination() never goes below zero.
THEOREM TypeCorrect == Spec => []TypeOK
  <1>1. IInv => TypeOK
    BY DEF IInv
  <1>2. QED
    BY <1>1, Invariance, PTL

\* cleanup() is called once for each run(), however a run ends and whatever the
\* object's users do.
THEOREM CleanedUpOnce == Spec => []CleanupOnce
  <1>1. IInv => CleanupOnce
    BY DEF IInv
  <1>2. QED
    BY <1>1, Invariance, PTL

\* wait() that returns true comes after the end of the run it saw, unless the kernel
\* refused its timed wait or a second join of the same thread came early.
THEOREM WaitsAreTruthful == Spec => WaitIsTruthful
  <1>1. IInv /\ [Next]_vars =>
          [\A c \in Controllers :
             ReturnsTrue(c) => Ended(saw[c]) \/ at[c] = "refused" \/ earlyJoin]_vars
    BY DEF IInv, WaitersSawTheEnd, ReturnsTrue
  <1>2. QED
    BY <1>1, Invariance, PTL DEF Spec, WaitIsTruthful

\* start(true) that returns true has waited until its own run was under way.
THEOREM StartsAreTruthful == Spec => StartIsTruthful
  <1>1. IInv /\ [Next]_vars =>
          [\A c \in Controllers :
             ~sharedEvent /\ at[c] = "started" /\ at'[c] = "idle" => saw[c] < runs]_vars
    BY DEF IInv, EventIsOwn
  <1>2. QED
    BY <1>1, Invariance, PTL DEF Spec, StartIsTruthful
=============================================================================
