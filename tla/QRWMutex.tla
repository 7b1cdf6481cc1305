------------------------------ MODULE QRWMutex ------------------------------
(***************************************************************************)
(* QRWMutex of src/QThread.cxx: a recursive read/write mutex that lets a   *)
(* thread ask for write access on top of its read access.  All its fields  *)
(* are under one QMutex, so what happens between two waits is one action.  *)
(* Threads wait on three QWaitConditions (manual reset, never reset), which *)
(* are modelled as QWaitCondition shows them to be: wakeAll() signals the  *)
(* event for good and reaches whoever is asleep, but not a thread between  *)
(* its own test of the event and its sleep ("gap").                        *)
(***************************************************************************)
EXTENDS Integers, Sequences, SequencesExt, FiniteSets

CONSTANTS Threads,    \* the threads that use the mutex
          NoThread,   \* the write.threadid 0
          MaxDepth,   \* bound: locks a thread holds at the same time
          MaxWrites,  \* how many write locks a thread nests
          TryLockers  \* the threads that call trylock() and not lock()

ASSUME RWMutexAssumption ==
  /\ IsFiniteSet(Threads) /\ NoThread \notin Threads
  /\ MaxDepth \in Nat \ {0} /\ MaxWrites \in Nat \ {0}
  /\ TryLockers \subseteq Threads

VARIABLES
  readCount,      \* read.count
  prewriteCount,  \* prewrite.count: threads that have or want write access
  rws,            \* prewrite.rws: read locks of threads that want to write
  writeThread,    \* write.threadid
  writeCount,     \* write.count
  readLockLost,   \* write.readLockLost
  lockedstate,    \* what isLocked() returns
  signalled,      \* isSignalled of the three QWaitConditions
  pc, event,      \* where each thread is inside lock(), and what it waits for
  held,           \* the locks each thread holds, the oldest first
  stale,          \* read locks during which another thread had write access,
                  \* and lock() has not said so (an observer)
  missed          \* a wakeAll() met a thread in the gap (an observer)

counts == <<readCount, prewriteCount, rws>>
writer == <<writeThread, writeCount, readLockLost>>
waits  == <<signalled, pc, event, missed>>
vars == <<counts, writer, lockedstate, waits, held, stale>>

\* writecntZeroed, readcntZeroed and prewritecntZeroed.
Events == {"writers", "readers", "prewriters"}
States == {"Unlocked", "ReadOnly", "ReadWrite"}

Locks(t, kind) == Cardinality({i \in DOMAIN held[t] : held[t][i] = kind})
ReadCnt(t) == Locks(t, "read")   \* the thread's own myreadcnt

\* The constructor leaves lockedstate alone.
Init == /\ readCount = 0 /\ prewriteCount = 0 /\ rws = 0
        /\ writeThread = NoThread /\ writeCount = 0 /\ readLockLost = FALSE
        /\ lockedstate \in States
        /\ signalled = [e \in Events |-> FALSE]
        /\ pc = [t \in Threads |-> "run"]
        /\ event = [t \in Threads |-> "none"]
        /\ held = [t \in Threads |-> <<>>]
        /\ stale = [t \in Threads |-> FALSE]
        /\ missed = FALSE
-----------------------------------------------------------------------------
\* The waits.  h.unlock(), wait() on event e; afterwards the thread takes the
\* mutex again ("relock").
WaitFor(t, e) == /\ pc' = [pc EXCEPT ![t] = "before"]
                 /\ event' = [event EXCEPT ![t] = e]
                 /\ UNCHANGED <<signalled, missed>>

Goto(t, l) == pc' = [pc EXCEPT ![t] = l] /\ UNCHANGED <<signalled, event, missed>>
Return(t) == /\ pc' = [pc EXCEPT ![t] = "run"]
             /\ event' = [event EXCEPT ![t] = "none"]
             /\ UNCHANGED <<signalled, missed>>

WaitTest(t) ==
  /\ pc[t] = "before"
  /\ Goto(t, IF signalled[event[t]] THEN "relock" ELSE "gap")
  /\ UNCHANGED <<counts, writer, lockedstate, held, stale>>

WaitSleep(t) ==
  /\ pc[t] = "gap"
  /\ Goto(t, "asleep")
  /\ UNCHANGED <<counts, writer, lockedstate, held, stale>>

At(l, e) == {t \in Threads : pc[t] = l /\ event[t] = e}

\* wakeAll() on the events es, inside unlock() by a thread that goes on.
WakeAll(es) ==
  /\ signalled' = [e \in Events |-> signalled[e] \/ e \in es]
  /\ pc' = [t \in Threads |-> IF \E e \in es : t \in At("asleep", e)
                              THEN "relock" ELSE pc[t]]
  /\ missed' = (missed \/ \E e \in es : At("gap", e) # {})
  /\ UNCHANGED event
-----------------------------------------------------------------------------
\* readLockLost is cleared for a nested request, and set for the next one.
LostFlag_cleared(upgrade, otherRWlock) == readLockLost /\ ~upgrade
LostFlag(upgrade, otherRWlock) == (readLockLost /\ ~upgrade) \/ otherRWlock

\* The end of lock(true): the thread has write access.  otherRWlock tells that
\* threads with read locks still wait for theirs; lock() returns lockLost.
Granted(t, otherRWlock) ==
  LET upgrade == ReadCnt(t) > 0
      lockLost == upgrade /\ readLockLost
  IN  /\ writeThread' = t
      /\ writeCount' = 1
      /\ readLockLost' = LostFlag(upgrade, otherRWlock)
      /\ lockedstate' = "ReadWrite"
      /\ held' = [held EXCEPT ![t] = Append(@, "write")]
      /\ stale' = [u \in Threads |->
                     IF u = t THEN stale[t] /\ ~lockLost
                     ELSE ReadCnt(u) > 0]
      /\ Return(t)

\* Nobody writes: the thread waits for the readers, its own read locks aside.
Claim(t) ==
  \/ /\ readCount # ReadCnt(t)
     /\ readCount' = readCount - ReadCnt(t)
     /\ rws' = rws + ReadCnt(t)
     /\ WaitFor(t, "readers")
     /\ UNCHANGED <<writer, lockedstate, held, stale>>
  \/ readCount = ReadCnt(t) /\ Granted(t, rws # 0) /\ UNCHANGED <<readCount, rws>>

\* The head of the do loop: other writers come first.
WaitForWriters(t) == /\ WaitFor(t, "writers")
                     /\ UNCHANGED <<readCount, rws, writer, lockedstate, held, stale>>

Attempt(t) == \/ writeCount # 0 /\ WaitForWriters(t)
              \/ writeCount = 0 /\ Claim(t)

\* lock(true) and trylock(true), which goes on only when nobody writes.
CanLock(t) == /\ pc[t] = "run" /\ Len(held[t]) < MaxDepth
              /\ t \in TryLockers => writeCount = 0

LockWrite_upgradeUncounted(t) ==
  /\ CanLock(t) /\ writeThread # t
  /\ prewriteCount' = IF ReadCnt(t) > 0 THEN prewriteCount ELSE prewriteCount + 1
  /\ Attempt(t)

LockWrite(t) ==
  /\ CanLock(t) /\ writeThread # t
  /\ prewriteCount' = prewriteCount + 1
  /\ Attempt(t)

LockWriteNested(t) ==
  /\ CanLock(t) /\ writeThread = t /\ Locks(t, "write") < MaxWrites
  /\ writeCount' = writeCount + 1
  /\ held' = [held EXCEPT ![t] = Append(@, "write")]
  /\ UNCHANGED <<counts, writeThread, readLockLost, lockedstate, waits, stale>>

\* After the wait for writers, and after the wait for readers.
RelockWriters(t) ==
  /\ pc[t] = "relock" /\ event[t] = "writers"
  /\ Attempt(t)
  /\ UNCHANGED prewriteCount

RwsWithout_kept(t) == rws
RwsWithout(t) == rws - ReadCnt(t)

RelockReaders_noRetest(t) ==
  /\ pc[t] = "relock" /\ event[t] = "readers" /\ readCount = 0
  /\ readCount' = ReadCnt(t)
  /\ rws' = RwsWithout(t)
  /\ Granted(t, rws' # 0)
  /\ UNCHANGED prewriteCount

RelockReaders(t) ==
  /\ pc[t] = "relock" /\ event[t] = "readers"
  /\ \/ /\ readCount # 0
        /\ WaitFor(t, "readers")
        /\ UNCHANGED <<readCount, rws, writer, lockedstate, held, stale>>
     \/ /\ readCount = 0
        /\ readCount' = ReadCnt(t)
        /\ rws' = RwsWithout(t)
        /\ \/ /\ writeCount # 0
              /\ WaitFor(t, "writers")
              /\ UNCHANGED <<writer, lockedstate, held, stale>>
           \/ writeCount = 0 /\ Granted(t, rws' # 0)
  /\ UNCHANGED prewriteCount
-----------------------------------------------------------------------------
\* lock(false) and trylock(false): a new reader waits for all that have or want
\* write access; whoever has a lock already does not.
IsNew(t) == ReadCnt(t) = 0 /\ writeThread # t

ReadGranted(t) ==
  /\ readCount' = readCount + 1
  /\ held' = [held EXCEPT ![t] = Append(@, "read")]
  /\ lockedstate' = IF IsNew(t) THEN "ReadOnly" ELSE lockedstate
  /\ Return(t)
  /\ UNCHANGED <<prewriteCount, rws, writer>>

ReadBlocked_byWriterOnly(t) == writeCount # 0
ReadBlocked(t) == prewriteCount # 0

ReadAttempt(t) ==
  \/ IsNew(t) /\ ReadBlocked(t) /\ WaitFor(t, "prewriters")
     /\ UNCHANGED <<counts, writer, lockedstate, held>>
  \/ ~(IsNew(t) /\ ReadBlocked(t)) /\ ReadGranted(t)

LockRead(t) ==
  /\ CanLock(t)
  /\ ReadAttempt(t)
  /\ UNCHANGED stale

RelockPrewriters_noRetest(t) ==
  /\ pc[t] = "relock" /\ event[t] = "prewriters"
  /\ ReadGranted(t)
  /\ UNCHANGED stale

RelockPrewriters(t) ==
  /\ pc[t] = "relock" /\ event[t] = "prewriters"
  /\ ReadAttempt(t)
  /\ UNCHANGED stale
-----------------------------------------------------------------------------
\* unlock() takes the parameter of the most recent lock().
Holds(t, kind) == pc[t] = "run" /\ held[t] # <<>> /\ Last(held[t]) = kind

\* unlock(true) counts prewrite.count down whether or not the lock was nested.
CountedDown_unchecked(n) == n - 1
CountedDown(n) == IF n = 0 THEN 0 ELSE n - 1

UnlockWrite(t) ==
  LET done == writeCount = 1
      opened == prewriteCount = 1
  IN  /\ Holds(t, "write")
      /\ held' = [held EXCEPT ![t] = Front(@)]
      /\ writeCount' = writeCount - 1
      /\ writeThread' = IF done THEN NoThread ELSE t
      /\ lockedstate' = IF ~done THEN lockedstate
                        ELSE IF ReadCnt(t) > 0 THEN "ReadOnly" ELSE "Unlocked"
      /\ prewriteCount' = CountedDown(prewriteCount)
      /\ WakeAll((IF done THEN {"writers"} ELSE {})
                 \cup (IF opened THEN {"prewriters"} ELSE {}))
      /\ UNCHANGED <<readCount, rws, readLockLost, stale>>

StateWithoutReaders_unlocked == "Unlocked"
StateWithoutReaders == IF writeCount > 0 THEN "ReadWrite" ELSE "Unlocked"

UnlockRead(t) ==
  LET none == readCount = 1
  IN  /\ Holds(t, "read")
      /\ held' = [held EXCEPT ![t] = Front(@)]
      /\ readCount' = readCount - 1
      /\ lockedstate' = IF none THEN StateWithoutReaders ELSE lockedstate
      /\ stale' = [stale EXCEPT ![t] = @ /\ ReadCnt(t) > 1]
      /\ WakeAll(IF none THEN {"readers"} ELSE {})
      /\ UNCHANGED <<prewriteCount, rws, writer>>
-----------------------------------------------------------------------------
Inside(t) == WaitTest(t) \/ WaitSleep(t) \/ RelockWriters(t)
             \/ RelockReaders(t) \/ RelockPrewriters(t)
Unlock(t) == UnlockWrite(t) \/ UnlockRead(t)

Next == \E t \in Threads :
          \/ LockWrite(t) \/ LockWriteNested(t) \/ LockRead(t)
          \/ Inside(t) \/ Unlock(t)

Spec == Init /\ [][Next]_vars

\* Threads that can run do, and a thread that gets to its outermost lock again
\* and again ends by giving it back (QMtxHold unlocks when its scope is left).
Fairness == \A t \in Threads : /\ WF_vars(Inside(t) \/ Unlock(t))
                               /\ SF_vars(Unlock(t) /\ Len(held[t]) = 1)
FairSpec == Spec /\ Fairness
-----------------------------------------------------------------------------
\* Every field stays in its domain; no counter goes below zero.
TypeOK == /\ readCount \in Nat /\ prewriteCount \in Nat /\ rws \in Nat
          /\ writeThread \in Threads \cup {NoThread}
          /\ writeCount \in 0..MaxWrites /\ readLockLost \in BOOLEAN
          /\ lockedstate \in States
          /\ signalled \in [Events -> BOOLEAN]
          /\ pc \in [Threads -> {"run", "before", "gap", "asleep", "relock"}]
          /\ event \in [Threads -> Events \cup {"none"}]
          /\ held \in [Threads -> BoundedSeq({"read", "write"}, MaxDepth)]
          /\ stale \in [Threads -> BOOLEAN] /\ missed \in BOOLEAN

Running(t) == pc[t] = "run" /\ held[t] # <<>>

\* "Only one thread (you) is permitted to use the data": while a thread has
\* write access no other thread runs with a lock of either kind; a thread that
\* keeps read locks meanwhile is inside lock(), waiting for write access.
WriterIsAlone ==
  \A t, u \in Threads : Running(t) /\ Running(u) /\ Locks(t, "write") > 0 => t = u

\* "FAILURE: Permitting multiple writes" (TestSuite/TestMultithreading) is never
\* reported: however write locks are nested, one thread at a time has them.
OneWriter ==
  \A t, u \in Threads : Locks(t, "write") > 0 /\ Locks(u, "write") > 0 => t = u

\* prewrite.count counts the threads that have or want write access.
WantsWrite(t) == event[t] \in {"writers", "readers"}
PrewritersCounted ==
  prewriteCount =
    Cardinality({t \in Threads : Locks(t, "write") > 0 \/ WantsWrite(t)})

\* Readers keep out of a writer's way as long as that count is right.
AloneWhileCounted == PrewritersCounted => WriterIsAlone

\* Nothing puts the count wrong but giving back a nested write lock.
CountLostByNestingOnly ==
  [][PrewritersCounted =>
       PrewritersCounted' \/ (writeCount' # 0 /\ writeCount' < writeCount)]_vars

\* lock(true) on top of a read lock returns true whenever another thread had
\* write access since that read lock was taken or last reported on, through
\* any number of upgrades under way at the same time.  trylock() is left out:
\* it has no way to say so.
LockLostIsTold ==
  \A t \in Threads \ TryLockers : writeThread = t => ~stale[t]

\* read.count and prewrite.rws share out the read locks of all threads: those
\* of a thread that waits for the readers are in rws, all others in read.count.
Upgrading == {t \in Threads : event[t] = "readers"}
ReadLocks(S) == {l \in S \X (1..MaxDepth) :
                   l[2] \in DOMAIN held[l[1]] /\ held[l[1]][l[2]] = "read"}
SumOfReads(S) == Cardinality(ReadLocks(S))
ReadersShared == /\ rws = SumOfReads(Upgrading)
                 /\ readCount = SumOfReads(Threads \ Upgrading)

\* isLocked() is right once the mutex has been used, as long as no nested write
\* lock was given back: ReadWrite under a writer, ReadOnly while threads run
\* with read locks alone.
LockedStateAgrees ==
  \A t \in Threads :
    Running(t) => lockedstate = IF writeCount > 0 THEN "ReadWrite" ELSE "ReadOnly"
LockedStateKept == []PrewritersCounted => []LockedStateAgrees

\* While no wakeAll() meets a thread between its test and its sleep, and no
\* nested write lock is given back, whoever wants to write or another writer
\* gets in: readers cannot keep them out.
WritersGetIn ==
  [](~missed /\ PrewritersCounted) =>
    ((\E t \in Threads : WantsWrite(t)) ~> writeCount > 0)
=============================================================================
