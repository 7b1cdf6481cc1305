--------------------------- MODULE QRWMutexProofs ---------------------------
(***************************************************************************)
(* For any number of threads that read, write, nest and upgrade: one at a  *)
(* time has write access, alone while prewrite.count is right; what        *)
(* read.count and prewrite.rws count; who is told of a lost read lock;     *)
(* what can put prewrite.count wrong, and what isLocked() returns until    *)
(* then.                                                                   *)
(***************************************************************************)
EXTENDS QRWMutex, FiniteSetTheorems, SequenceTheorems, TLAPS

Kinds == {"read", "write"}

\* The writer's fields and the locks stay in their domains.
WriterTypes == /\ writeThread \in Threads \cup {NoThread}
               /\ writeCount \in Nat
               /\ held \in [Threads -> Seq(Kinds)]

\* write.threadid and write.count say whose write locks there are, and how many.
WriterAgrees ==
  /\ \A t \in Threads : Locks(t, "write") = IF writeThread = t THEN writeCount ELSE 0
  /\ writeThread = NoThread <=> writeCount = 0

\* The inductive invariant about writers, which stands on its own.
WriterInv == WriterTypes /\ WriterAgrees

\* The other variables' domains, and what a thread is that waits inside lock().
ThreadsAgree ==
  /\ TypeOK
  /\ \A t \in Threads : event[t] = "none" <=> pc[t] = "run"
  /\ \A t \in Threads : pc[t] # "run" => Len(held[t]) < MaxDepth /\ writeThread # t
  /\ \A t \in Threads : event[t] = "prewriters" => ReadCnt(t) = 0

\* prewrite.count is never too high, and right unless readers may be in.
Prewriters == {t \in Threads : Locks(t, "write") > 0 \/ WantsWrite(t)}
PrewritersAgree == prewriteCount <= Cardinality(Prewriters) /\ AloneWhileCounted

\* A stale read lock is flagged to be told of, and its thread does not write.
StaleAgree ==
  /\ \A t \in Threads : stale[t] => ReadCnt(t) > 0 /\ readLockLost
  /\ \A t \in Threads : writeThread = t => ~stale[t]

\* The inductive invariant.
IInv == WriterInv /\ ThreadsAgree /\ ReadersShared /\ PrewritersAgree /\ StaleAgree

\* How many elements of s are k, when one more comes or the last one goes.
Of(s, k) == {i \in DOMAIN s : s[i] = k}

LEMMA OfIsFinite ==
  ASSUME NEW s \in Seq(Kinds), NEW k
  PROVE  IsFiniteSet(Of(s, k)) /\ Cardinality(Of(s, k)) \in Nat
  <1>1. Len(s) \in Nat /\ DOMAIN s = 1..Len(s)
    BY LenProperties
  <1>2. IsFiniteSet(1..Len(s))
    BY <1>1, FS_Interval
  <1>3. Of(s, k) \in SUBSET (1..Len(s))
    BY <1>1 DEF Of
  <1>4. IsFiniteSet(Of(s, k))
    BY <1>2, <1>3, FS_Subset
  <1>5. QED
    BY <1>4, FS_CardinalityType

LEMMA OfAppend ==
  ASSUME NEW s \in Seq(Kinds), NEW x \in Kinds, NEW k
  PROVE  Cardinality(Of(Append(s, x), k)) =
           Cardinality(Of(s, k)) + (IF x = k THEN 1 ELSE 0)
  <1>1. /\ DOMAIN Append(s, x) = 1..(Len(s) + 1) /\ DOMAIN s = 1..Len(s)
        /\ Len(s) \in Nat /\ Append(s, x)[Len(s) + 1] = x
        /\ \A i \in 1..Len(s) : Append(s, x)[i] = s[i]
    BY AppendProperties, LenProperties
  <1>2. Of(Append(s, x), k) =
          IF x = k THEN Of(s, k) \cup {Len(s) + 1} ELSE Of(s, k)
    BY <1>1 DEF Of
  <1>3. Len(s) + 1 \notin Of(s, k)
    BY <1>1 DEF Of
  <1>4. IsFiniteSet(Of(s, k)) /\ Cardinality(Of(s, k)) \in Nat
    BY OfIsFinite
  <1>5. Cardinality(Of(s, k) \cup {Len(s) + 1}) = Cardinality(Of(s, k)) + 1
    BY <1>3, <1>4, FS_AddElement
  <1>6. QED
    BY <1>2, <1>4, <1>5

LEMMA OfFront ==
  ASSUME NEW s \in Seq(Kinds), s # <<>>, NEW k
  PROVE  /\ Front(s) \in Seq(Kinds)
         /\ Cardinality(Of(Front(s), k)) =
              Cardinality(Of(s, k)) - (IF Last(s) = k THEN 1 ELSE 0)
  <1>1. DOMAIN s = 1..Len(s) /\ Len(s) \in Nat /\ Len(s) > 0
    BY LenProperties, EmptySeq
  <1>2. /\ Front(s) \in Seq(Kinds) /\ DOMAIN Front(s) = 1..(Len(s) - 1)
        /\ \A i \in 1..(Len(s) - 1) : Front(s)[i] = s[i]
    BY <1>1 DEF Front
  <1>3. Last(s) = s[Len(s)]
    BY DEF Last
  <1>4. Of(Front(s), k) = Of(s, k) \ {Len(s)}
    BY <1>1, <1>2 DEF Of
  <1>5. Len(s) \in Of(s, k) <=> Last(s) = k
    BY <1>1, <1>3 DEF Of
  <1>6. IsFiniteSet(Of(s, k)) /\ Cardinality(Of(s, k)) \in Nat
    BY OfIsFinite
  <1>7. Cardinality(Of(s, k) \ {Len(s)}) =
          IF Len(s) \in Of(s, k) THEN Cardinality(Of(s, k)) - 1
          ELSE Cardinality(Of(s, k))
    BY <1>6, FS_RemoveElement
  <1>8. QED
    BY <1>2, <1>4, <1>5, <1>6, <1>7

\* What a thread's stack of locks does to its numbers of locks.
LEMMA LocksAppend ==
  ASSUME WriterTypes, NEW t \in Threads, NEW x \in Kinds,
         held' = [held EXCEPT ![t] = Append(@, x)]
  PROVE  /\ held' \in [Threads -> Seq(Kinds)]
         /\ \A u \in Threads, k \in Kinds : Locks(u, k)' =
              Locks(u, k) + (IF u = t /\ x = k THEN 1 ELSE 0)
  <1>1. \A u \in Threads : held[u] \in Seq(Kinds)
    BY DEF WriterTypes
  <1>2. held' \in [Threads -> Seq(Kinds)]
    BY <1>1, AppendProperties DEF WriterTypes
  <1>3. \A u \in Threads : held'[u] = IF u = t THEN Append(held[t], x) ELSE held[u]
    BY DEF WriterTypes
  <1>4. \A u \in Threads, k \in Kinds :
          /\ Locks(u, k) = Cardinality(Of(held[u], k))
          /\ Locks(u, k)' = Cardinality(Of(held'[u], k))
          /\ Cardinality(Of(held[u], k)) \in Nat
    BY <1>1, OfIsFinite DEF Locks, Of
  <1>5. \A k \in Kinds : Cardinality(Of(Append(held[t], x), k)) =
          Cardinality(Of(held[t], k)) + (IF x = k THEN 1 ELSE 0)
    BY <1>1, OfAppend
  <1>6. QED
    BY <1>2, <1>3, <1>4, <1>5

LEMMA LocksFront ==
  ASSUME WriterTypes, NEW t \in Threads, held[t] # <<>>,
         held' = [held EXCEPT ![t] = Front(@)]
  PROVE  /\ held' \in [Threads -> Seq(Kinds)]
         /\ \A u \in Threads, k \in Kinds : Locks(u, k)' =
              Locks(u, k) - (IF u = t /\ Last(held[t]) = k THEN 1 ELSE 0)
         /\ \A k \in Kinds : Last(held[t]) = k => Locks(t, k) > 0
  <1>1. \A u \in Threads : held[u] \in Seq(Kinds)
    BY DEF WriterTypes
  <1>2. Front(held[t]) \in Seq(Kinds)
    BY <1>1, OfFront
  <1>3. /\ held' \in [Threads -> Seq(Kinds)]
        /\ \A u \in Threads : held'[u] = IF u = t THEN Front(held[t]) ELSE held[u]
    BY <1>2 DEF WriterTypes
  <1>4. \A u \in Threads, k \in Kinds :
          /\ Locks(u, k) = Cardinality(Of(held[u], k))
          /\ Locks(u, k)' = Cardinality(Of(held'[u], k))
          /\ Cardinality(Of(held[u], k)) \in Nat
    BY <1>1, OfIsFinite DEF Locks, Of
  <1>5. \A k \in Kinds : Cardinality(Of(Front(held[t]), k)) =
          Cardinality(Of(held[t], k)) - (IF Last(held[t]) = k THEN 1 ELSE 0)
    BY <1>1, OfFront
  <1>6. \A k \in Kinds : Cardinality(Of(Front(held[t]), k)) \in Nat
    BY <1>2, OfIsFinite
  <1>7. QED
    BY <1>3, <1>4, <1>5, <1>6

LEMMA LocksAreNat ==
  ASSUME WriterTypes PROVE \A u \in Threads, k \in Kinds : Locks(u, k) \in Nat
  <1>1. \A u \in Threads, k \in Kinds : Locks(u, k) = Cardinality(Of(held[u], k))
    BY DEF Locks, Of
  <1>2. QED
    BY <1>1, OfIsFinite DEF WriterTypes
-----------------------------------------------------------------------------
LEMMA InitWriterInv == Init => WriterInv
  <1> SUFFICES ASSUME Init PROVE WriterInv
    OBVIOUS
  <1>1. WriterTypes
    BY EmptySeq DEF Init, WriterTypes
  <1>2. \A t \in Threads : Locks(t, "write") = 0
    <2>1. DOMAIN <<>> = {}
      OBVIOUS
    <2>2. \A t \in Threads : {i \in DOMAIN held[t] : held[t][i] = "write"} = {}
      BY <2>1 DEF Init
    <2>3. QED
      BY <2>2, FS_EmptySet DEF Locks
  <1>3. QED
    BY <1>1, <1>2, RWMutexAssumption DEF Init, WriterInv, WriterAgrees

\* Steps that leave the writer and the locks as they are.
LEMMA StepWaits ==
  ASSUME WriterInv, UNCHANGED <<writer, held>>
  PROVE  WriterInv'
  BY DEF WriterInv, writer, WriterTypes, WriterAgrees, Locks

\* Write access is granted when nobody has it.
LEMMA StepGranted ==
  ASSUME WriterInv, NEW t \in Threads, NEW b, writeCount = 0, Granted(t, b)
  PROVE  WriterInv'
  <1>1. held' \in [Threads -> Seq(Kinds)]
    BY LocksAppend DEF WriterInv, Granted, Kinds
  <1>2. \A u \in Threads : Locks(u, "write")' =
          Locks(u, "write") + (IF u = t THEN 1 ELSE 0)
    BY LocksAppend DEF WriterInv, Granted, Kinds
  <1>3. writeThread = NoThread /\ \A u \in Threads : Locks(u, "write") = 0
    BY DEF WriterInv, WriterAgrees
  <1>4. writeThread' = t /\ writeCount' = 1
    BY DEF Granted
  <1>5. QED
    BY <1>1, <1>2, <1>3, <1>4, RWMutexAssumption DEF WriterInv, WriterTypes, WriterAgrees

LEMMA StepAttempt ==
  ASSUME WriterInv, NEW t \in Threads, Attempt(t)
  PROVE  WriterInv'
  <1>1. CASE writeCount # 0 /\ WaitForWriters(t)
    BY <1>1, StepWaits DEF WaitForWriters
  <1>2. CASE writeCount = 0 /\ Claim(t)
    BY <1>2, StepWaits, StepGranted DEF Claim
  <1>3. QED
    BY <1>1, <1>2 DEF Attempt

LEMMA StepRelockReaders ==
  ASSUME WriterInv, NEW t \in Threads, RelockReaders(t)
  PROVE  WriterInv'
  BY StepWaits, StepGranted DEF RelockReaders

\* The writer takes its lock once more.
LEMMA StepNested ==
  ASSUME WriterInv, NEW t \in Threads, LockWriteNested(t)
  PROVE  WriterInv'
  <1>1. held' \in [Threads -> Seq(Kinds)]
    BY LocksAppend DEF WriterInv, LockWriteNested, Kinds
  <1>2. \A u \in Threads : Locks(u, "write")' =
          Locks(u, "write") + (IF u = t THEN 1 ELSE 0)
    BY LocksAppend DEF WriterInv, LockWriteNested, Kinds
  <1>3. writeThread = t /\ writeThread' = t /\ writeCount' = writeCount + 1
    BY DEF LockWriteNested
  <1>4. QED
    BY <1>1, <1>2, <1>3, RWMutexAssumption DEF WriterInv, WriterTypes, WriterAgrees

\* Read locks are taken and given back beside the writer's.
LEMMA StepRead ==
  ASSUME WriterInv, NEW t \in Threads, ReadAttempt(t) \/ UnlockRead(t)
  PROVE  WriterInv'
  <1>1. ASSUME ReadGranted(t) PROVE WriterInv'
    <2>1. held' \in [Threads -> Seq(Kinds)]
      BY <1>1, LocksAppend DEF WriterInv, ReadGranted, Kinds
    <2>2. \A u \in Threads : Locks(u, "write")' = Locks(u, "write")
      <3>1. \A u \in Threads : Locks(u, "write")' = Locks(u, "write") + 0
        BY <1>1, LocksAppend DEF WriterInv, ReadGranted, Kinds
      <3>2. QED
        BY <3>1 DEF WriterInv, WriterAgrees, WriterTypes
    <2>3. QED
      BY <1>1, <2>1, <2>2 DEF ReadGranted, writer, WriterInv, WriterTypes, WriterAgrees
  <1>2. ASSUME UnlockRead(t) PROVE WriterInv'
    <2>1. held[t] # <<>> /\ Last(held[t]) = "read"
      BY <1>2 DEF UnlockRead, Holds
    <2>2. held' \in [Threads -> Seq(Kinds)]
      BY <1>2, <2>1, LocksFront DEF WriterInv, UnlockRead
    <2>3. \A u \in Threads : Locks(u, "write")' = Locks(u, "write")
      <3>1. \A u \in Threads : Locks(u, "write")' = Locks(u, "write") - 0
        BY <1>2, <2>1, LocksFront DEF WriterInv, UnlockRead, Kinds
      <3>2. QED
        BY <3>1 DEF WriterInv, WriterAgrees, WriterTypes
    <2>4. QED
      BY <1>2, <2>2, <2>3 DEF UnlockRead, writer, WriterInv, WriterTypes, WriterAgrees
  <1>3. QED
    BY <1>1, <1>2, StepWaits DEF ReadAttempt

\* Only the writer gives back a write lock, and the last one frees the mutex.
LEMMA StepUnlockWrite ==
  ASSUME WriterInv, NEW t \in Threads, UnlockWrite(t)
  PROVE  WriterInv'
  <1>1. /\ held[t] # <<>> /\ Last(held[t]) = "write"
        /\ held' = [held EXCEPT ![t] = Front(@)]
        /\ writeCount' = writeCount - 1
        /\ writeThread' = IF writeCount = 1 THEN NoThread ELSE t
    BY DEF UnlockWrite, Holds
  <1>2. /\ held' \in [Threads -> Seq(Kinds)]
        /\ \A u \in Threads : Locks(u, "write")' =
             Locks(u, "write") - (IF u = t THEN 1 ELSE 0)
        /\ Locks(t, "write") > 0
    BY <1>1, LocksFront DEF WriterInv, Kinds
  <1>3. writeThread = t /\ writeCount > 0
    BY <1>2 DEF WriterInv, WriterAgrees
  <1>4. QED
    BY <1>1, <1>2, <1>3, RWMutexAssumption DEF WriterInv, WriterTypes, WriterAgrees
-----------------------------------------------------------------------------
LEMMA StepWriterInv == WriterInv /\ [Next]_vars => WriterInv'
  <1> SUFFICES ASSUME WriterInv, [Next]_vars PROVE WriterInv'
    OBVIOUS
  <1>1. ASSUME NEW t \in Threads,
               LockWrite(t) \/ LockWriteNested(t) \/ LockRead(t)
        PROVE  WriterInv'
    BY <1>1, StepAttempt, StepNested, StepRead DEF LockWrite, LockRead
  <1>2. ASSUME NEW t \in Threads, Inside(t) PROVE WriterInv'
    <2>1. CASE WaitTest(t) \/ WaitSleep(t)
      BY <2>1, StepWaits DEF WaitTest, WaitSleep
    <2>2. CASE RelockWriters(t) \/ RelockReaders(t) \/ RelockPrewriters(t)
      BY <2>2, StepAttempt, StepRelockReaders, StepRead
      DEF RelockWriters, RelockPrewriters
    <2>3. QED
      BY <1>2, <2>1, <2>2 DEF Inside
  <1>3. ASSUME NEW t \in Threads, Unlock(t) PROVE WriterInv'
    BY <1>3, StepUnlockWrite, StepRead DEF Unlock
  <1>4. CASE UNCHANGED vars
    BY <1>4, StepWaits DEF vars
  <1>5. QED
    BY <1>1, <1>2, <1>3, <1>4 DEF Next

\* The writer's fields account for all write locks in every state.
THEOREM WriterIsExact == Spec => []WriterInv
  <1>1. QED
    BY InitWriterInv, StepWriterInv, PTL DEF Spec

\* One thread at a time has write access, however threads nest, upgrade and wait.
THEOREM WritersExclude == Spec => []OneWriter
  <1>1. WriterInv => OneWriter
    BY DEF WriterInv, WriterAgrees, OneWriter
  <1>2. QED
    BY <1>1, WriterIsExact, PTL
-----------------------------------------------------------------------------
\* The sums of read locks, as functions of the stacks h of locks: which change.
StackTypes(h) == /\ h \in [Threads -> Seq(Kinds)]
                 /\ \A t \in Threads : Len(h[t]) <= MaxDepth
Reads(h, t) == Cardinality(Of(h[t], "read"))
ReadsIn(h, S) == {l \in S \X (1..MaxDepth) :
                    l[2] \in DOMAIN h[l[1]] /\ h[l[1]][l[2]] = "read"}
SumIn(h, S) == Cardinality(ReadsIn(h, S))

LEMMA ReadsFinite ==
  ASSUME NEW h, NEW S, S \subseteq Threads
  PROVE  IsFiniteSet(ReadsIn(h, S)) /\ SumIn(h, S) \in Nat
  <1>1. IsFiniteSet(S) /\ IsFiniteSet(1..MaxDepth)
    BY RWMutexAssumption, FS_Subset, FS_Interval
  <1>2. IsFiniteSet(S \X (1..MaxDepth))
    BY <1>1, FS_Product
  <1>3. ReadsIn(h, S) \subseteq S \X (1..MaxDepth)
    BY DEF ReadsIn
  <1>4. QED
    BY <1>2, <1>3, FS_Subset, FS_CardinalityType DEF SumIn

\* What one thread adds to a sum.
LEMMA SumSplit ==
  ASSUME NEW h, StackTypes(h), NEW S, S \subseteq Threads, NEW t \in S
  PROVE  /\ SumIn(h, S) = SumIn(h, S \ {t}) + Reads(h, t)
         /\ Reads(h, t) \in Nat
  <1> DEFINE own == Of(h[t], "read")
             ownLocks == {t} \X own
  <1>1. DOMAIN h[t] = 1..Len(h[t]) /\ Len(h[t]) \in Nat
        /\ h[t] \in Seq(Kinds) /\ Len(h[t]) <= MaxDepth
    BY LenProperties DEF StackTypes
  <1>2. own \subseteq 1..MaxDepth
    BY <1>1, RWMutexAssumption DEF Of
  <1>3. ReadsIn(h, S) = ReadsIn(h, S \ {t}) \cup ownLocks
    BY <1>2 DEF ReadsIn, Of
  <1>4. ReadsIn(h, S \ {t}) \cap ownLocks = {}
    BY DEF ReadsIn
  <1>5. IsFiniteSet(own) /\ Cardinality(own) \in Nat
    BY <1>1, OfIsFinite
  <1>6. IsFiniteSet(ownLocks) /\ Cardinality(ownLocks) = Cardinality(own)
    <2>1. IsFiniteSet({t}) /\ Cardinality({t}) = 1
      BY FS_Singleton
    <2>2. IsFiniteSet(ownLocks) /\ Cardinality(ownLocks) = Cardinality({t}) * Cardinality(own)
      BY <1>5, <2>1, FS_Product
    <2>3. QED
      BY <1>5, <2>1, <2>2
  <1>7. IsFiniteSet(ReadsIn(h, S \ {t})) /\ SumIn(h, S \ {t}) \in Nat
    BY ReadsFinite
  <1>8. Cardinality(ReadsIn(h, S \ {t}) \cap ownLocks) = 0
    BY <1>4, FS_EmptySet
  <1>9. Cardinality(ReadsIn(h, S)) =
          Cardinality(ReadsIn(h, S \ {t})) + Cardinality(ownLocks) - 0
    BY <1>3, <1>6, <1>7, <1>8, FS_Union
  <1>10. QED
    BY <1>5, <1>6, <1>7, <1>9 DEF SumIn, Reads

LEMMA SumSame ==
  ASSUME NEW g, NEW h, NEW S, \A u \in S : g[u] = h[u]
  PROVE  SumIn(g, S) = SumIn(h, S)
  <1>1. ReadsIn(g, S) = ReadsIn(h, S)
    BY DEF ReadsIn
  <1>2. QED
    BY <1>1 DEF SumIn

\* Thread t changes its locks, or comes to or leaves the set U of those in rws.
InRws(h, U, t) == IF t \in U THEN Reads(h, t) ELSE 0
InReadCount(h, U, t) == IF t \in U THEN 0 ELSE Reads(h, t)

LEMMA SumMoves ==
  ASSUME NEW g, NEW h, StackTypes(g), StackTypes(h), NEW t \in Threads,
         \A u \in Threads \ {t} : g[u] = h[u],
         NEW U, NEW V, U \subseteq Threads, V \subseteq Threads, U \ {t} = V \ {t}
  PROVE  /\ SumIn(h, V) = SumIn(g, U) - InRws(g, U, t) + InRws(h, V, t)
         /\ SumIn(h, Threads \ V) =
              SumIn(g, Threads \ U) - InReadCount(g, U, t) + InReadCount(h, V, t)
         /\ InRws(g, U, t) \in Nat /\ InReadCount(g, U, t) \in Nat
  <1> DEFINE Others == U \ {t}
             Rest == (Threads \ U) \ {t}
  <1>1. /\ SumIn(h, Others) = SumIn(g, Others) /\ SumIn(h, Rest) = SumIn(g, Rest)
        /\ SumIn(g, Others) \in Nat /\ SumIn(g, Rest) \in Nat
    BY SumSame, ReadsFinite
  <1>2. \A f \in {g, h}, W \in {U, V} :
          /\ SumIn(f, W) = SumIn(f, W \ {t}) + InRws(f, W, t)
          /\ SumIn(f, Threads \ W) = SumIn(f, (Threads \ W) \ {t}) + InReadCount(f, W, t)
          /\ InRws(f, W, t) \in Nat /\ InReadCount(f, W, t) \in Nat
    <2> SUFFICES ASSUME NEW f \in {g, h}, NEW W \in {U, V}
                 PROVE /\ SumIn(f, W) = SumIn(f, W \ {t}) + InRws(f, W, t)
                       /\ SumIn(f, Threads \ W) =
                            SumIn(f, (Threads \ W) \ {t}) + InReadCount(f, W, t)
                       /\ InRws(f, W, t) \in Nat /\ InReadCount(f, W, t) \in Nat
      OBVIOUS
    <2>1. StackTypes(f) /\ W \subseteq Threads /\ Threads \ W \subseteq Threads
      OBVIOUS
    <2>2. SumIn(f, W) \in Nat /\ SumIn(f, Threads \ W) \in Nat
      BY <2>1, ReadsFinite
    <2>3. CASE t \in W
      <3>1. (Threads \ W) \ {t} = Threads \ W
        BY <2>3
      <3>2. SumIn(f, W) = SumIn(f, W \ {t}) + Reads(f, t) /\ Reads(f, t) \in Nat
        BY <2>1, <2>3, SumSplit
      <3>3. QED
        BY <2>2, <2>3, <3>1, <3>2 DEF InRws, InReadCount
    <2>4. CASE t \notin W
      <3>1. W \ {t} = W
        BY <2>4
      <3>2. t \in Threads \ W
        BY <2>4
      <3>3. SumIn(f, Threads \ W) = SumIn(f, (Threads \ W) \ {t}) + Reads(f, t)
            /\ Reads(f, t) \in Nat
        BY <2>1, <3>2, SumSplit
      <3>4. SumIn(f, W) = SumIn(f, W \ {t}) + 0
        BY <2>2, <3>1
      <3>5. InRws(f, W, t) = 0 /\ InReadCount(f, W, t) = Reads(f, t)
        BY <2>4 DEF InRws, InReadCount
      <3>6. QED
        BY <3>3, <3>4, <3>5
    <2>5. QED
      BY <2>3, <2>4
  <1>3. (Threads \ V) \ {t} = Rest /\ V \ {t} = Others
    OBVIOUS
  <1>4. /\ SumIn(g, U) = SumIn(g, Others) + InRws(g, U, t)
        /\ SumIn(g, Threads \ U) = SumIn(g, Rest) + InReadCount(g, U, t)
        /\ InRws(g, U, t) \in Nat /\ InReadCount(g, U, t) \in Nat
    BY <1>2
  <1>5. /\ SumIn(h, V) = SumIn(h, Others) + InRws(h, V, t)
        /\ SumIn(h, Threads \ V) = SumIn(h, Rest) + InReadCount(h, V, t)
        /\ InRws(h, V, t) \in Nat /\ InReadCount(h, V, t) \in Nat
    BY <1>2, <1>3
  <1>6. QED
    BY <1>1, <1>4, <1>5

\* The reads of a thread are part of its sum.
LEMMA SumBounds ==
  ASSUME NEW h, StackTypes(h), NEW S, S \subseteq Threads, NEW t \in S, NEW u \in S,
         t # u
  PROVE  Reads(h, t) + Reads(h, u) <= SumIn(h, S)
  <1>1. /\ SumIn(h, S) = SumIn(h, S \ {t}) + Reads(h, t) /\ Reads(h, t) \in Nat
    BY SumSplit
  <1>2. /\ SumIn(h, S \ {t}) = SumIn(h, (S \ {t}) \ {u}) + Reads(h, u)
        /\ Reads(h, u) \in Nat
    BY SumSplit
  <1>3. SumIn(h, (S \ {t}) \ {u}) \in Nat
    BY ReadsFinite
  <1>4. QED
    BY <1>1, <1>2, <1>3

\* In the terms of the specification.
LEMMA SumsAreSumsIn ==
  /\ \A S : SumOfReads(S) = SumIn(held, S)
  /\ \A t \in Threads : ReadCnt(t) = Reads(held, t) /\ ReadCnt(t)' = Reads(held', t)
  BY DEF SumOfReads, ReadLocks, SumIn, ReadsIn, ReadCnt, Locks, Reads, Of

LEMMA SharedKept ==
  ASSUME StackTypes(held), StackTypes(held'), ReadersShared, NEW t \in Threads,
         \A u \in Threads \ {t} : held'[u] = held[u],
         Upgrading' \ {t} = Upgrading \ {t},
         rws' = rws - InRws(held, Upgrading, t) + InRws(held', Upgrading', t),
         readCount' = readCount - InReadCount(held, Upgrading, t)
                      + InReadCount(held', Upgrading', t)
  PROVE  ReadersShared'
  <1>1. Upgrading \subseteq Threads /\ Upgrading' \subseteq Threads
    BY DEF Upgrading
  <1>2. /\ SumIn(held', Upgrading') = SumIn(held, Upgrading)
               - InRws(held, Upgrading, t) + InRws(held', Upgrading', t)
        /\ SumIn(held', Threads \ Upgrading') = SumIn(held, Threads \ Upgrading)
               - InReadCount(held, Upgrading, t) + InReadCount(held', Upgrading', t)
    BY <1>1, SumMoves
  <1>3. rws = SumIn(held, Upgrading) /\ readCount = SumIn(held, Threads \ Upgrading)
    BY SumsAreSumsIn DEF ReadersShared
  <1>4. rws' = SumIn(held', Upgrading') /\ readCount' = SumIn(held', Threads \ Upgrading')
    BY <1>2, <1>3
  <1>5. QED
    BY <1>4 DEF ReadersShared, SumOfReads, ReadLocks, SumIn, ReadsIn
-----------------------------------------------------------------------------
LEMMA BoundedIsSeq ==
  ASSUME NEW h
  PROVE  h \in [Threads -> BoundedSeq({"read", "write"}, MaxDepth)] <=> StackTypes(h)
  <1>1. \A s : s \in BoundedSeq({"read", "write"}, MaxDepth) <=>
                 s \in Seq(Kinds) /\ Len(s) <= MaxDepth
    <2> TAKE s
    <2>1. ASSUME s \in BoundedSeq({"read", "write"}, MaxDepth)
          PROVE  s \in Seq(Kinds) /\ Len(s) <= MaxDepth
      <3>1. PICK m \in 0..MaxDepth : s \in [1..m -> Kinds]
        BY <2>1 DEF BoundedSeq, SeqOf, Kinds
      <3>2. QED
        BY <3>1, IsASeq, LenProperties, RWMutexAssumption
    <2>2. ASSUME s \in Seq(Kinds), Len(s) <= MaxDepth
          PROVE  s \in BoundedSeq({"read", "write"}, MaxDepth)
      <3>1. Len(s) \in 0..MaxDepth /\ s \in [1..Len(s) -> Kinds]
        BY <2>2, LenProperties, RWMutexAssumption
      <3>2. QED
        BY <3>1 DEF BoundedSeq, SeqOf, Kinds
    <2>3. QED
      BY <2>1, <2>2
  <1>2. QED
    BY <1>1 DEF StackTypes

\* Whatever a step does to the locks of the thread that takes it, others keep theirs.
LEMMA StackAppend ==
  ASSUME StackTypes(held), NEW t \in Threads, NEW x \in Kinds, Len(held[t]) < MaxDepth,
         held' = [held EXCEPT ![t] = Append(@, x)]
  PROVE  StackTypes(held') /\ \A u \in Threads \ {t} : held'[u] = held[u]
  <1>1. held[t] \in Seq(Kinds)
    BY DEF StackTypes
  <1>2. Append(held[t], x) \in Seq(Kinds) /\ Len(Append(held[t], x)) = Len(held[t]) + 1
        /\ Len(held[t]) \in Nat
    BY <1>1, AppendProperties, LenProperties
  <1>3. QED
    BY <1>2, RWMutexAssumption DEF StackTypes

LEMMA StackFront ==
  ASSUME StackTypes(held), NEW t \in Threads, held[t] # <<>>,
         held' = [held EXCEPT ![t] = Front(@)]
  PROVE  StackTypes(held') /\ \A u \in Threads \ {t} : held'[u] = held[u]
  <1>1. held[t] \in Seq(Kinds)
    BY DEF StackTypes
  <1>2. Front(held[t]) \in Seq(Kinds)
    BY <1>1, OfFront
  <1>3. Len(held[t]) \in Nat /\ Len(held[t]) > 0
    BY <1>1, LenProperties, EmptySeq
  <1>4. Len(Front(held[t])) = Len(held[t]) - 1
    BY <1>1, <1>3 DEF Front
  <1>5. QED
    BY <1>2, <1>3, <1>4, RWMutexAssumption DEF StackTypes

LEMMA InvStack ==
  ASSUME IInv PROVE StackTypes(held) /\ WriterTypes
  BY BoundedIsSeq DEF IInv, ThreadsAgree, TypeOK, WriterInv

\* Each thread waits inside lock() with room for the lock it will be granted.
LEMMA StacksKept ==
  ASSUME IInv, Next PROVE StackTypes(held')
  <1>1. StackTypes(held)
    BY InvStack
  <1>2. ASSUME NEW t \in Threads, NEW b, Len(held[t]) < MaxDepth, Granted(t, b)
        PROVE  StackTypes(held')
    BY <1>1, <1>2, StackAppend DEF Granted, Kinds
  <1>3. ASSUME NEW t \in Threads, Len(held[t]) < MaxDepth, Attempt(t) \/ ReadAttempt(t)
        PROVE  StackTypes(held')
    BY <1>1, <1>2, <1>3, StackAppend
    DEF Attempt, WaitForWriters, Claim, ReadAttempt, ReadGranted, Kinds
  <1>4. ASSUME NEW t \in Threads, LockWrite(t) \/ LockWriteNested(t) \/ LockRead(t)
        PROVE  StackTypes(held')
    BY <1>1, <1>3, <1>4, StackAppend
    DEF LockWrite, LockWriteNested, LockRead, CanLock, Kinds
  <1>5. ASSUME NEW t \in Threads, Inside(t)
        PROVE  StackTypes(held')
    <2>1. pc[t] = "relock" => Len(held[t]) < MaxDepth
      BY DEF IInv, ThreadsAgree
    <2>2. QED
      BY <1>1, <1>2, <1>3, <1>5, <2>1
      DEF Inside, WaitTest, WaitSleep, RelockWriters, RelockReaders, RelockPrewriters
  <1>6. ASSUME NEW t \in Threads, Unlock(t) PROVE StackTypes(held')
    BY <1>1, <1>6, StackFront DEF Unlock, UnlockWrite, UnlockRead, Holds
  <1>7. QED
    BY <1>4, <1>5, <1>6 DEF Next

\* What the write or read lock a thread is granted does to its numbers of locks.
LEMMA ReadsAppend ==
  ASSUME WriterTypes, NEW t \in Threads, NEW x \in Kinds,
         held' = [held EXCEPT ![t] = Append(@, x)]
  PROVE  Reads(held', t) = Reads(held, t) + (IF x = "read" THEN 1 ELSE 0)
         /\ Reads(held, t) \in Nat
  BY LocksAppend, LocksAreNat DEF Locks, Reads, Of, Kinds

LEMMA ReadsFront ==
  ASSUME WriterTypes, NEW t \in Threads, held[t] # <<>>,
         held' = [held EXCEPT ![t] = Front(@)]
  PROVE  Reads(held', t) = Reads(held, t) - (IF Last(held[t]) = "read" THEN 1 ELSE 0)
         /\ Reads(held, t) \in Nat /\ Reads(held', t) \in Nat
  <1>1. Locks(t, "read") = Reads(held, t) /\ Locks(t, "read")' = Reads(held', t)
    BY DEF Locks, Reads, Of
  <1>2. Locks(t, "read")' = Locks(t, "read") - (IF Last(held[t]) = "read" THEN 1 ELSE 0)
        /\ (Last(held[t]) = "read" => Locks(t, "read") > 0)
    BY LocksFront DEF Kinds
  <1>3. Locks(t, "read") \in Nat
    BY LocksAreNat DEF Kinds
  <1>4. QED
    BY <1>1, <1>2, <1>3
-----------------------------------------------------------------------------
\* Thread t takes its read locks where it goes: e is what it waits for next.
LEMMA Shares ==
  ASSUME IInv, StackTypes(held'), NEW t \in Threads, NEW e,
         \A u \in Threads \ {t} : held'[u] = held[u],
         event' = [event EXCEPT ![t] = e],
         rws' = rws - (IF event[t] = "readers" THEN Reads(held, t) ELSE 0)
                    + (IF e = "readers" THEN Reads(held', t) ELSE 0),
         readCount' = readCount - (IF event[t] = "readers" THEN 0 ELSE Reads(held, t))
                      + (IF e = "readers" THEN 0 ELSE Reads(held', t))
  PROVE  ReadersShared'
  <1>1. event \in [Threads -> Events \cup {"none"}]
    BY DEF IInv, ThreadsAgree, TypeOK
  <1>2. /\ Upgrading' \ {t} = Upgrading \ {t}
        /\ t \in Upgrading' <=> e = "readers"
        /\ t \in Upgrading <=> event[t] = "readers"
    BY <1>1 DEF Upgrading
  <1>3. /\ rws' = rws - InRws(held, Upgrading, t) + InRws(held', Upgrading', t)
        /\ readCount' = readCount - InReadCount(held, Upgrading, t)
                        + InReadCount(held', Upgrading', t)
    BY <1>2 DEF InRws, InReadCount
  <1>4. StackTypes(held) /\ ReadersShared
    BY InvStack DEF IInv
  <1>5. QED
    BY <1>2, <1>3, <1>4, SharedKept

LEMMA Numbers ==
  ASSUME IInv
  PROVE  /\ readCount \in Nat /\ rws \in Nat /\ prewriteCount \in Nat
         /\ writeCount \in Nat
         /\ \A t \in Threads : Reads(held, t) \in Nat /\ Reads(held, t) = ReadCnt(t)
         /\ event \in [Threads -> Events \cup {"none"}]
         /\ \A t \in Threads : event[t] = "none" <=> pc[t] = "run"
         /\ \A t \in Threads : pc[t] # "run" => Len(held[t]) < MaxDepth
  <1>1. \A t \in Threads : Reads(held, t) \in Nat
    BY InvStack, OfIsFinite DEF Reads, StackTypes
  <1>2. QED
    BY <1>1, SumsAreSumsIn DEF IInv, ThreadsAgree, TypeOK

\* A thread that gets write access keeps its read locks, counted in read.count.
LEMMA SharedGranted ==
  ASSUME IInv, NEW t \in Threads, NEW b, Granted(t, b), Len(held[t]) < MaxDepth,
         \/ event[t] # "readers" /\ UNCHANGED <<readCount, rws>>
         \/ /\ event[t] = "readers" /\ readCount = 0
            /\ readCount' = ReadCnt(t) /\ rws' = rws - ReadCnt(t)
  PROVE  ReadersShared'
  <1>1. /\ held' = [held EXCEPT ![t] = Append(@, "write")]
        /\ event' = [event EXCEPT ![t] = "none"]
    BY DEF Granted, Return
  <1>2. StackTypes(held') /\ \A u \in Threads \ {t} : held'[u] = held[u]
    BY <1>1, InvStack, StackAppend DEF Kinds
  <1>3. Reads(held', t) = Reads(held, t)
    <2>1. Reads(held', t) = Reads(held, t) + 0
      BY <1>1, InvStack, ReadsAppend DEF Kinds
    <2>2. QED
      BY <2>1, Numbers
  <1>4. /\ rws' = rws - (IF event[t] = "readers" THEN Reads(held, t) ELSE 0)
                    + (IF "none" = "readers" THEN Reads(held', t) ELSE 0)
        /\ readCount' = readCount - (IF event[t] = "readers" THEN 0 ELSE Reads(held, t))
                      + (IF "none" = "readers" THEN 0 ELSE Reads(held', t))
    BY <1>3, Numbers
  <1>5. QED
    BY <1>1, <1>2, <1>4, Shares

\* A thread that goes to wait keeps its locks; its read locks are in rws while
\* it waits for the readers.
LEMMA SharedWait ==
  ASSUME IInv, NEW t \in Threads, NEW e, WaitFor(t, e), UNCHANGED held,
         \/ event[t] # "readers" /\ e # "readers" /\ UNCHANGED <<readCount, rws>>
         \/ event[t] = "readers" /\ e = "readers" /\ UNCHANGED <<readCount, rws>>
         \/ /\ event[t] # "readers" /\ e = "readers"
            /\ readCount' = readCount - ReadCnt(t) /\ rws' = rws + ReadCnt(t)
         \/ /\ event[t] = "readers" /\ e # "readers" /\ readCount = 0
            /\ readCount' = ReadCnt(t) /\ rws' = rws - ReadCnt(t)
  PROVE  ReadersShared'
  <1>1. StackTypes(held') /\ (\A u \in Threads \ {t} : held'[u] = held[u])
        /\ Reads(held', t) = Reads(held, t)
    BY InvStack DEF Reads
  <1>2. event' = [event EXCEPT ![t] = e]
    BY DEF WaitFor
  <1>3. /\ rws' = rws - (IF event[t] = "readers" THEN Reads(held, t) ELSE 0)
                    + (IF e = "readers" THEN Reads(held', t) ELSE 0)
        /\ readCount' = readCount - (IF event[t] = "readers" THEN 0 ELSE Reads(held, t))
                      + (IF e = "readers" THEN 0 ELSE Reads(held', t))
    BY <1>1, Numbers
  <1>4. QED
    BY <1>1, <1>2, <1>3, Shares

LEMMA SharedAttempt ==
  ASSUME IInv, NEW t \in Threads, Len(held[t]) < MaxDepth, event[t] # "readers",
         Attempt(t)
  PROVE  ReadersShared'
  <1>1. CASE writeCount # 0 /\ WaitForWriters(t)
    BY <1>1, SharedWait DEF WaitForWriters
  <1>2. CASE writeCount = 0 /\ Claim(t)
    BY <1>2, SharedWait, SharedGranted DEF Claim
  <1>3. QED
    BY <1>1, <1>2 DEF Attempt

LEMMA SharedReadAttempt ==
  ASSUME IInv, NEW t \in Threads, Len(held[t]) < MaxDepth, event[t] # "readers",
         ReadAttempt(t)
  PROVE  ReadersShared'
  <1>1. CASE WaitFor(t, "prewriters") /\ UNCHANGED <<counts, held>>
    BY <1>1, SharedWait DEF counts
  <1>2. CASE ReadGranted(t)
    <2>1. /\ held' = [held EXCEPT ![t] = Append(@, "read")]
          /\ event' = [event EXCEPT ![t] = "none"]
          /\ readCount' = readCount + 1 /\ rws' = rws
      BY <1>2 DEF ReadGranted, Return
    <2>2. StackTypes(held') /\ \A u \in Threads \ {t} : held'[u] = held[u]
      BY <2>1, InvStack, StackAppend DEF Kinds
    <2>3. Reads(held', t) = Reads(held, t) + 1
      BY <2>1, InvStack, ReadsAppend DEF Kinds
    <2>4. /\ rws' = rws - (IF event[t] = "readers" THEN Reads(held, t) ELSE 0)
                      + (IF "none" = "readers" THEN Reads(held', t) ELSE 0)
          /\ readCount' = readCount - (IF event[t] = "readers" THEN 0 ELSE Reads(held, t))
                        + (IF "none" = "readers" THEN 0 ELSE Reads(held', t))
      BY <2>1, <2>3, Numbers
    <2>5. QED
      BY <2>1, <2>2, <2>4, Shares
  <1>3. QED
    BY <1>1, <1>2 DEF ReadAttempt

LEMMA SharedUnlock ==
  ASSUME IInv, NEW t \in Threads, Unlock(t)
  PROVE  ReadersShared'
  <1>1. held[t] # <<>> /\ held' = [held EXCEPT ![t] = Front(@)] /\ event[t] = "none"
    BY Numbers DEF Unlock, UnlockWrite, UnlockRead, Holds
  <1>2. StackTypes(held') /\ \A u \in Threads \ {t} : held'[u] = held[u]
    BY <1>1, InvStack, StackFront
  <1>3. event' = [event EXCEPT ![t] = event[t]]
    BY Numbers DEF Unlock, UnlockWrite, UnlockRead, WakeAll
  <1>4. Reads(held', t) = Reads(held, t) - (IF Last(held[t]) = "read" THEN 1 ELSE 0)
        /\ Reads(held, t) \in Nat
    BY <1>1, InvStack, ReadsFront
  <1>5. /\ rws' = rws
        /\ readCount' = readCount - (IF Last(held[t]) = "read" THEN 1 ELSE 0)
    BY Numbers DEF Unlock, UnlockWrite, UnlockRead, Holds
  <1>6. /\ rws' = rws - (IF event[t] = "readers" THEN Reads(held, t) ELSE 0)
                    + (IF event[t] = "readers" THEN Reads(held', t) ELSE 0)
        /\ readCount' = readCount - (IF event[t] = "readers" THEN 0 ELSE Reads(held, t))
                      + (IF event[t] = "readers" THEN 0 ELSE Reads(held', t))
    BY <1>1, <1>4, <1>5, Numbers
  <1>7. QED
    BY <1>2, <1>3, <1>6, Shares

\* read.count and prewrite.rws go on sharing out the read locks.
LEMMA SharedStep ==
  ASSUME IInv, [Next]_vars PROVE ReadersShared'
  <1>1. ASSUME UNCHANGED <<readCount, rws, held, event>> PROVE ReadersShared'
    BY <1>1 DEF IInv, ReadersShared, SumOfReads, ReadLocks, Upgrading
  <1>2. ASSUME NEW t \in Threads, LockWrite(t) \/ LockRead(t) PROVE ReadersShared'
    BY <1>2, Numbers, SharedAttempt, SharedReadAttempt DEF LockWrite, LockRead, CanLock
  <1>3. ASSUME NEW t \in Threads, LockWriteNested(t) PROVE ReadersShared'
    <2>1. /\ held' = [held EXCEPT ![t] = Append(@, "write")] /\ Len(held[t]) < MaxDepth
          /\ UNCHANGED <<readCount, rws, event>>
      BY <1>3 DEF LockWriteNested, CanLock, counts, waits
    <2>2. StackTypes(held') /\ \A u \in Threads \ {t} : held'[u] = held[u]
      BY <2>1, InvStack, StackAppend DEF Kinds
    <2>3. Reads(held', t) = Reads(held, t) + 0
      BY <2>1, InvStack, ReadsAppend DEF Kinds
    <2>4. event' = [event EXCEPT ![t] = event[t]]
      BY <2>1, Numbers
    <2>5. /\ rws' = rws - (IF event[t] = "readers" THEN Reads(held, t) ELSE 0)
                      + (IF event[t] = "readers" THEN Reads(held', t) ELSE 0)
          /\ readCount' = readCount - (IF event[t] = "readers" THEN 0 ELSE Reads(held, t))
                        + (IF event[t] = "readers" THEN 0 ELSE Reads(held', t))
      BY <2>1, <2>3, Numbers
    <2>6. QED
      BY <2>2, <2>4, <2>5, Shares
  <1>4. ASSUME NEW t \in Threads, Inside(t) PROVE ReadersShared'
    <2>1. CASE WaitTest(t) \/ WaitSleep(t)
      BY <2>1, <1>1 DEF WaitTest, WaitSleep, Goto, counts
    <2>2. CASE RelockWriters(t) \/ RelockPrewriters(t)
      BY <2>2, Numbers, SharedAttempt, SharedReadAttempt
      DEF RelockWriters, RelockPrewriters
    <2>3. CASE RelockReaders(t)
      <3>1. event[t] = "readers" /\ Len(held[t]) < MaxDepth
        BY <2>3, Numbers DEF RelockReaders
      <3>2. QED
        BY <2>3, <3>1, SharedWait, SharedGranted DEF RelockReaders, RwsWithout
    <2>4. QED
      BY <1>4, <2>1, <2>2, <2>3 DEF Inside
  <1>5. CASE UNCHANGED vars
    BY <1>5, <1>1 DEF vars, counts, waits
  <1>6. QED
    BY <1>2, <1>3, <1>4, <1>5, SharedUnlock DEF Next
-----------------------------------------------------------------------------
\* Where the threads are.  One lemma for each way to come or go.
Waits == /\ signalled \in [Events -> BOOLEAN]
         /\ pc \in [Threads -> {"run", "before", "gap", "asleep", "relock"}]
         /\ event \in [Threads -> Events \cup {"none"}]
         /\ missed \in BOOLEAN

WaitsAgree ==
  /\ \A t \in Threads : event[t] = "none" <=> pc[t] = "run"
  /\ \A t \in Threads : pc[t] # "run" => Len(held[t]) < MaxDepth /\ writeThread # t
  /\ \A t \in Threads : event[t] = "prewriters" => Reads(held, t) = 0

LEMMA WaitsOfInv == IInv => Waits /\ WaitsAgree
  BY SumsAreSumsIn DEF IInv, ThreadsAgree, TypeOK, Waits, WaitsAgree

LEMMA WaitsWaitFor ==
  ASSUME Waits, WaitsAgree, NEW t \in Threads, NEW e \in Events, WaitFor(t, e),
         UNCHANGED <<held, writeThread>>, Len(held[t]) < MaxDepth, writeThread # t,
         e = "prewriters" => Reads(held, t) = 0
  PROVE  Waits' /\ WaitsAgree'
  <1>1. Waits'
    BY DEF Waits, WaitFor
  <1>2. WaitsAgree'
    BY DEF Waits, WaitsAgree, WaitFor, Events, Reads
  <1>3. QED
    BY <1>1, <1>2

LEMMA WaitsReturn ==
  ASSUME Waits, WaitsAgree, NEW t \in Threads, Return(t), writeThread' \in {writeThread, t},
         \A u \in Threads \ {t} : held'[u] = held[u]
  PROVE  Waits' /\ WaitsAgree'
  <1>1. Waits'
    BY DEF Waits, Return
  <1>2. WaitsAgree'
    BY DEF Waits, WaitsAgree, Return, Events, Reads
  <1>3. QED
    BY <1>1, <1>2

LEMMA WaitsGoto ==
  ASSUME Waits, WaitsAgree, NEW t \in Threads, NEW l \in {"gap", "asleep", "relock"},
         pc[t] # "run", Goto(t, l), UNCHANGED <<held, writeThread>>
  PROVE  Waits' /\ WaitsAgree'
  <1>1. Waits'
    BY DEF Waits, Goto
  <1>2. WaitsAgree'
    BY DEF Waits, WaitsAgree, Goto, Reads
  <1>3. QED
    BY <1>1, <1>2

LEMMA WaitsWakeAll ==
  ASSUME Waits, WaitsAgree, NEW t \in Threads, pc[t] = "run", NEW es, WakeAll(es),
         writeThread' \in {writeThread, NoThread, t},
         \A u \in Threads \ {t} : held'[u] = held[u]
  PROVE  Waits' /\ WaitsAgree' /\ pc'[t] = "run"
         /\ \A u \in Threads : pc'[u] = "run" => pc[u] = "run"
  <1>1. signalled' \in [Events -> BOOLEAN]
    BY DEF WakeAll
  <1>2. pc' \in [Threads -> {"run", "before", "gap", "asleep", "relock"}]
        /\ event' \in [Threads -> Events \cup {"none"}]
    BY DEF Waits, WakeAll
  <1>3. missed' \in BOOLEAN
    BY DEF WakeAll
  <1>4. \A u \in Threads : (pc'[u] = "run") = (pc[u] = "run")
    BY DEF Waits, WakeAll, At
  <1>5. WaitsAgree'
    BY <1>4, RWMutexAssumption DEF Waits, WaitsAgree, WakeAll, Reads
  <1>6. QED
    BY <1>1, <1>2, <1>3, <1>4, <1>5 DEF Waits

\* What the actions do for other threads' locks.
LEMMA OthersKept ==
  ASSUME IInv, NEW t \in Threads, NEW x, held' = [held EXCEPT ![t] = x]
  PROVE  \A u \in Threads \ {t} : held'[u] = held[u]
  BY InvStack DEF StackTypes

LEMMA WaitsAttempt ==
  ASSUME IInv, NEW t \in Threads, Len(held[t]) < MaxDepth, writeThread # t,
         Attempt(t) \/ RelockReaders(t)
  PROVE  Waits' /\ WaitsAgree'
  <1>1. Waits /\ WaitsAgree
    BY WaitsOfInv
  <1>2. ASSUME NEW b, Granted(t, b) PROVE Waits' /\ WaitsAgree'
    BY <1>1, <1>2, OthersKept, WaitsReturn DEF Granted
  <1>3. ASSUME NEW e \in {"writers", "readers"}, WaitFor(t, e), UNCHANGED <<writer, held>>
        PROVE  Waits' /\ WaitsAgree'
    BY <1>1, <1>3, WaitsWaitFor DEF Events, writer
  <1>4. QED
    BY <1>2, <1>3 DEF Attempt, WaitForWriters, Claim, RelockReaders

LEMMA WaitsReadAttempt ==
  ASSUME IInv, NEW t \in Threads, Len(held[t]) < MaxDepth, ReadAttempt(t)
  PROVE  Waits' /\ WaitsAgree'
  <1>1. Waits /\ WaitsAgree
    BY WaitsOfInv
  <1>2. CASE ReadGranted(t)
    BY <1>1, <1>2, OthersKept, WaitsReturn DEF ReadGranted, writer
  <1>3. CASE IsNew(t) /\ WaitFor(t, "prewriters") /\ UNCHANGED <<writer, held>>
    BY <1>1, <1>3, SumsAreSumsIn, WaitsWaitFor DEF IsNew, Events, writer
  <1>4. QED
    BY <1>2, <1>3 DEF ReadAttempt

LEMMA WaitsStep ==
  ASSUME IInv, [Next]_vars PROVE Waits' /\ WaitsAgree'
  <1>1. Waits /\ WaitsAgree
    BY WaitsOfInv
  <1>2. ASSUME NEW t \in Threads, LockWrite(t) \/ LockRead(t) PROVE Waits' /\ WaitsAgree'
    BY <1>2, WaitsAttempt, WaitsReadAttempt DEF LockWrite, LockRead, CanLock
  <1>3. ASSUME NEW t \in Threads, LockWriteNested(t) PROVE Waits' /\ WaitsAgree'
    <2>1. /\ \A u \in Threads \ {t} : held'[u] = held[u]
          /\ pc[t] = "run" /\ event[t] = "none"
          /\ UNCHANGED <<signalled, pc, event, missed, writeThread>>
      BY <1>1, <1>3, OthersKept DEF LockWriteNested, CanLock, waits, WaitsAgree
    <2>2. QED
      BY <1>1, <2>1 DEF Waits, WaitsAgree, Reads
  <1>4. ASSUME NEW t \in Threads, Inside(t) PROVE Waits' /\ WaitsAgree'
    <2>1. CASE WaitTest(t) \/ WaitSleep(t)
      BY <1>1, <2>1, WaitsGoto DEF WaitTest, WaitSleep, writer
    <2>2. CASE RelockWriters(t) \/ RelockReaders(t) \/ RelockPrewriters(t)
      <3>1. Len(held[t]) < MaxDepth /\ writeThread # t
        BY <1>1, <2>2 DEF RelockWriters, RelockReaders, RelockPrewriters, WaitsAgree
      <3>2. QED
        BY <2>2, <3>1, WaitsAttempt, WaitsReadAttempt DEF RelockWriters, RelockPrewriters
    <2>3. QED
      BY <1>4, <2>1, <2>2 DEF Inside
  <1>5. ASSUME NEW t \in Threads, Unlock(t) PROVE Waits' /\ WaitsAgree'
    <2>1. pc[t] = "run" /\ writeThread' \in {writeThread, NoThread, t}
          /\ \A u \in Threads \ {t} : held'[u] = held[u]
      BY <1>5, OthersKept DEF Unlock, UnlockWrite, UnlockRead, Holds, writer
    <2>2. QED
      BY <1>1, <1>5, <2>1, WaitsWakeAll DEF Unlock, UnlockWrite, UnlockRead
  <1>6. CASE UNCHANGED vars
    BY <1>1, <1>6 DEF vars, waits, writer, Waits, WaitsAgree, Reads
  <1>7. QED
    BY <1>2, <1>3, <1>4, <1>5, <1>6 DEF Next

\* The fields that tell of the writer, and the count of prewriters.
Fields == /\ prewriteCount \in Nat /\ writeCount <= MaxWrites
          /\ readLockLost \in BOOLEAN /\ lockedstate \in States
          /\ stale \in [Threads -> BOOLEAN]

LEMMA FieldsGranted ==
  ASSUME IInv, NEW t \in Threads, NEW b \in BOOLEAN, Granted(t, b)
  PROVE  /\ writeCount' <= MaxWrites /\ lockedstate' \in States
         /\ readLockLost' \in BOOLEAN /\ stale' \in [Threads -> BOOLEAN]
  <1>1. readLockLost \in BOOLEAN /\ stale \in [Threads -> BOOLEAN]
    BY DEF IInv, ThreadsAgree, TypeOK
  <1>2. writeCount' <= MaxWrites /\ lockedstate' \in States
    BY RWMutexAssumption DEF Granted, States
  <1>3. readLockLost' \in BOOLEAN
    BY <1>1 DEF Granted, LostFlag
  <1>4. stale' \in [Threads -> BOOLEAN]
    <2> DEFINE told == ReadCnt(t) > 0 /\ readLockLost
               now(u) == IF u = t THEN stale[t] /\ ~told ELSE ReadCnt(u) > 0
    <2>1. stale' = [u \in Threads |-> now(u)]
      BY DEF Granted
    <2>2. ASSUME NEW u \in Threads PROVE now(u) \in BOOLEAN
      <3>1. (stale[t] /\ ~told) \in BOOLEAN /\ (ReadCnt(u) > 0) \in BOOLEAN
        OBVIOUS
      <3> HIDE DEF told
      <3>2. CASE u = t
        BY <3>1, <3>2, Zenon
      <3>3. CASE u # t
        BY <3>1, <3>3, Zenon
      <3>4. QED
        BY <3>2, <3>3
    <2> HIDE DEF now
    <2>3. QED
      BY <2>1, <2>2
  <1>5. QED
    BY <1>2, <1>3, <1>4

LEMMA FieldsAttempt ==
  ASSUME IInv, NEW t \in Threads, Attempt(t) \/ RelockReaders(t)
  PROVE  /\ writeCount' <= MaxWrites /\ lockedstate' \in States
         /\ readLockLost' \in BOOLEAN /\ stale' \in [Threads -> BOOLEAN]
  <1>1. ASSUME UNCHANGED <<writer, lockedstate, stale>>
        PROVE  /\ writeCount' <= MaxWrites /\ lockedstate' \in States
               /\ readLockLost' \in BOOLEAN /\ stale' \in [Threads -> BOOLEAN]
    BY <1>1 DEF IInv, ThreadsAgree, TypeOK, writer
  <1>2. (rws # 0) \in BOOLEAN /\ (rws' # 0) \in BOOLEAN
    OBVIOUS
  <1>3. QED
    BY <1>1, <1>2, FieldsGranted DEF Attempt, WaitForWriters, Claim, RelockReaders

LEMMA FieldsStep ==
  ASSUME IInv, [Next]_vars PROVE Fields'
  <1>1. /\ prewriteCount \in Nat /\ writeCount \in Nat /\ writeCount <= MaxWrites
        /\ readLockLost \in BOOLEAN /\ lockedstate \in States
        /\ stale \in [Threads -> BOOLEAN]
    BY DEF IInv, ThreadsAgree, TypeOK
  <1>2. ASSUME NEW t \in Threads, LockWrite(t) PROVE Fields'
    BY <1>1, <1>2, FieldsAttempt DEF LockWrite, Fields
  <1>3. ASSUME NEW t \in Threads, LockWriteNested(t) PROVE Fields'
    <2>1. writeCount = Locks(t, "write") /\ writeCount < MaxWrites
      BY <1>3 DEF LockWriteNested, IInv, WriterInv, WriterAgrees
    <2>2. QED
      BY <1>1, <1>3, <2>1, RWMutexAssumption DEF LockWriteNested, Fields, counts
  <1>4. ASSUME NEW t \in Threads, LockRead(t) \/ RelockPrewriters(t) PROVE Fields'
    BY <1>1, <1>4
    DEF LockRead, RelockPrewriters, ReadAttempt, ReadGranted, Fields, counts, writer, States
  <1>5. ASSUME NEW t \in Threads, RelockWriters(t) \/ RelockReaders(t) PROVE Fields'
    BY <1>1, <1>5, FieldsAttempt DEF RelockWriters, RelockReaders, Fields
  <1>6. ASSUME NEW t \in Threads, UnlockWrite(t) PROVE Fields'
    BY <1>1, <1>6, RWMutexAssumption DEF UnlockWrite, CountedDown, Fields, States
  <1>7. ASSUME NEW t \in Threads, UnlockRead(t) PROVE Fields'
    <2>1. stale' \in [Threads -> BOOLEAN]
      BY <1>1, <1>7 DEF UnlockRead
    <2>2. QED
      BY <1>1, <1>7, <2>1 DEF UnlockRead, StateWithoutReaders, Fields, States, writer
  <1>8. ASSUME UNCHANGED <<counts, writer, lockedstate, stale>> PROVE Fields'
    BY <1>1, <1>8 DEF counts, writer, Fields
  <1>9. QED
    BY <1>2, <1>3, <1>4, <1>5, <1>6, <1>7, <1>8
    DEF Next, Inside, Unlock, WaitTest, WaitSleep, vars

LEMMA ThreadsStep ==
  ASSUME IInv, [Next]_vars PROVE ThreadsAgree' /\ StackTypes(held')
  <1>1. StackTypes(held')
    <2>1. CASE UNCHANGED vars
      BY <2>1, InvStack DEF vars
    <2>2. QED
      BY <2>1, StacksKept
  <1>2. /\ readCount' \in Nat /\ rws' \in Nat
    <2>1. ReadersShared'
      BY SharedStep
    <2>2. rws' = SumIn(held', Upgrading') /\ readCount' = SumIn(held', Threads \ Upgrading')
      BY <2>1 DEF ReadersShared, SumOfReads, ReadLocks, SumIn, ReadsIn
    <2>3. Upgrading' \subseteq Threads
      BY DEF Upgrading
    <2>4. QED
      BY <2>2, <2>3, ReadsFinite
  <1>3. WriterInv'
    BY StepWriterInv DEF IInv
  <1>4. held' \in [Threads -> BoundedSeq({"read", "write"}, MaxDepth)]
    BY <1>1, BoundedIsSeq
  <1>5. writeThread' \in Threads \cup {NoThread} /\ writeCount' \in 0..MaxWrites
    BY <1>3, FieldsStep, RWMutexAssumption DEF WriterInv, WriterTypes, Fields
  <1>6. TypeOK'
    BY <1>2, <1>4, <1>5, FieldsStep, WaitsStep DEF TypeOK, Fields, Waits
  <1>7. QED
    BY <1>1, <1>6, WaitsStep, SumsAreSumsIn DEF ThreadsAgree, WaitsAgree
-----------------------------------------------------------------------------
\* When a thread gets write access, all other threads with read locks are waiting
\* for it too, and prewrite.rws says that there are some.
LEMMA OthersUpgrade ==
  ASSUME IInv, NEW t \in Threads,
         \/ event[t] # "readers" /\ readCount = ReadCnt(t)
         \/ event[t] = "readers" /\ readCount = 0
  PROVE  \A u \in Threads \ {t} : Reads(held, u) > 0 =>
           /\ event[u] = "readers"
           /\ rws - (IF event[t] = "readers" THEN ReadCnt(t) ELSE 0) > 0
  <1> SUFFICES ASSUME NEW u \in Threads \ {t}, Reads(held, u) > 0
               PROVE  /\ event[u] = "readers"
                      /\ rws - (IF event[t] = "readers" THEN ReadCnt(t) ELSE 0) > 0
    OBVIOUS
  <1>1. /\ StackTypes(held) /\ Upgrading \subseteq Threads
        /\ Threads \ Upgrading \subseteq Threads
        /\ rws = SumIn(held, Upgrading) /\ readCount = SumIn(held, Threads \ Upgrading)
        /\ ReadCnt(t) = Reads(held, t)
    BY InvStack, SumsAreSumsIn DEF IInv, ReadersShared, Upgrading
  <1>2. /\ Reads(held, t) \in Nat /\ Reads(held, u) \in Nat
        /\ readCount \in Nat /\ rws \in Nat
    BY Numbers
  <1>3. \A S \in SUBSET Threads, x \in Threads : x \in S => Reads(held, x) <= SumIn(held, S)
    <2> SUFFICES ASSUME NEW S \in SUBSET Threads, NEW x \in S
                 PROVE  Reads(held, x) <= SumIn(held, S)
      OBVIOUS
    <2>1. SumIn(held, S) = SumIn(held, S \ {x}) + Reads(held, x) /\ Reads(held, x) \in Nat
      BY <1>1, SumSplit
    <2>2. SumIn(held, S \ {x}) \in Nat
      BY ReadsFinite
    <2>3. QED
      BY <2>1, <2>2
  <1>4. \A S \in SUBSET Threads : t \in S /\ u \in S =>
          Reads(held, t) + Reads(held, u) <= SumIn(held, S)
    BY <1>1, SumBounds
  <1>5. u \in Upgrading
    <2>1. t \notin Upgrading \/ t \in Upgrading
      OBVIOUS
    <2>2. CASE u \in Threads \ Upgrading
      <3>1. Reads(held, u) <= readCount
        BY <1>1, <1>3, <2>2
      <3>2. event[t] # "readers" /\ t \in Threads \ Upgrading
        BY <1>2, <3>1 DEF Upgrading
      <3>3. Reads(held, t) + Reads(held, u) <= readCount
        BY <1>1, <1>4, <2>2, <3>2
      <3>4. QED
        BY <1>1, <1>2, <3>2, <3>3
    <2>3. QED
      BY <2>2
  <1>6. CASE event[t] = "readers"
    <2>1. t \in Upgrading
      BY <1>6 DEF Upgrading
    <2>2. Reads(held, t) + Reads(held, u) <= rws
      BY <1>1, <1>4, <1>5, <2>1
    <2>3. QED
      BY <1>1, <1>2, <1>5, <1>6, <2>2 DEF Upgrading
  <1>7. CASE event[t] # "readers"
    <2>1. Reads(held, u) <= rws
      BY <1>1, <1>3, <1>5
    <2>2. QED
      BY <1>2, <1>5, <1>7, <2>1 DEF Upgrading
  <1>8. QED
    BY <1>6, <1>7

\* What is stale, in terms of the stacks.
StaleIn(h) == /\ \A t \in Threads : stale[t] => Reads(h, t) > 0 /\ readLockLost
              /\ \A t \in Threads : writeThread = t => ~stale[t]

LEMMA StaleIsStaleIn == /\ StaleAgree <=> StaleIn(held)
                        /\ StaleAgree' <=> StaleIn(held)'
  BY SumsAreSumsIn DEF StaleAgree, StaleIn

\* The upgrading thread is told, all others become stale: readLockLost is set.
LEMMA StaleGranted ==
  ASSUME IInv, NEW t \in Threads, NEW b, Granted(t, b),
         \A u \in Threads \ {t} : Reads(held, u) > 0 => b
  PROVE  StaleAgree'
  <1>1. /\ StackTypes(held) /\ WriterTypes /\ StaleIn(held)
        /\ \A u \in Threads : ReadCnt(u) = Reads(held, u)
        /\ stale \in [Threads -> BOOLEAN]
    BY InvStack, StaleIsStaleIn, SumsAreSumsIn DEF IInv, ThreadsAgree, TypeOK
  <1>2. held' = [held EXCEPT ![t] = Append(@, "write")]
        /\ writeThread' = t
    BY DEF Granted
  <1>3. \A u \in Threads \ {t} : Reads(held', u) = Reads(held, u)
    BY <1>2, OthersKept DEF Reads
  <1>4. ~stale'[t]
    BY <1>1 DEF Granted, StaleIn
  <1>5. \A u \in Threads \ {t} : stale'[u] = (Reads(held, u) > 0)
    BY <1>1 DEF Granted
  <1>6. b => readLockLost'
    BY DEF Granted, LostFlag
  <1>7. StaleIn(held)'
    BY <1>2, <1>3, <1>4, <1>5, <1>6 DEF StaleIn
  <1>8. QED
    BY <1>7, StaleIsStaleIn

\* Steps after which nobody writes who did not, and no thread loses its reads.
LEMMA StaleSame ==
  ASSUME IInv, UNCHANGED <<stale, readLockLost>>,
         writeThread' \in {writeThread, NoThread},
         \A u \in Threads : Reads(held, u) > 0 => Reads(held', u) > 0
  PROVE  StaleAgree'
  <1>1. StaleIn(held)
    BY StaleIsStaleIn DEF IInv
  <1>2. StaleIn(held)'
    BY <1>1, RWMutexAssumption DEF StaleIn
  <1>3. QED
    BY <1>2, StaleIsStaleIn

LEMMA StaleAttempt ==
  ASSUME IInv, NEW t \in Threads,
         \/ event[t] # "readers" /\ Attempt(t)
         \/ RelockReaders(t)
  PROVE  StaleAgree'
  <1>1. ASSUME UNCHANGED <<writer, held, stale>> PROVE StaleAgree'
    BY <1>1 DEF IInv, StaleAgree, writer, ReadCnt, Locks
  <1>2. ASSUME event[t] # "readers", readCount = ReadCnt(t), Granted(t, rws # 0)
        PROVE  StaleAgree'
    <2>1. \A u \in Threads \ {t} : Reads(held, u) > 0 => rws # 0
      BY <1>2, OthersUpgrade, Numbers
    <2>2. QED
      BY <1>2, <2>1, StaleGranted
  <1>3. ASSUME event[t] = "readers", readCount = 0, rws' = RwsWithout(t),
               Granted(t, rws' # 0)
        PROVE  StaleAgree'
    <2>1. \A u \in Threads \ {t} : Reads(held, u) > 0 => rws' # 0
      BY <1>3, OthersUpgrade, Numbers DEF RwsWithout
    <2>2. QED
      BY <1>3, <2>1, StaleGranted
  <1>4. QED
    BY <1>1, <1>2, <1>3 DEF Attempt, WaitForWriters, Claim, RelockReaders

LEMMA StaleUnlockRead ==
  ASSUME IInv, NEW t \in Threads, UnlockRead(t)
  PROVE  StaleAgree'
  <1>1. /\ StaleIn(held) /\ ReadCnt(t) = Reads(held, t) /\ Reads(held, t) \in Nat
        /\ stale \in [Threads -> BOOLEAN]
    BY StaleIsStaleIn, Numbers DEF IInv, ThreadsAgree, TypeOK
  <1>2. /\ held[t] # <<>> /\ Last(held[t]) = "read"
        /\ held' = [held EXCEPT ![t] = Front(@)]
    BY DEF UnlockRead, Holds
  <1>3. Reads(held', t) = Reads(held, t) - 1
    BY <1>2, InvStack, ReadsFront
  <1>4. \A u \in Threads \ {t} : Reads(held', u) = Reads(held, u) /\ stale'[u] = stale[u]
    BY <1>1, <1>2, OthersKept DEF UnlockRead, Reads
  <1>5. stale'[t] => stale[t] /\ Reads(held, t) > 1
    BY <1>1 DEF UnlockRead
  <1>6. UNCHANGED <<writeThread, readLockLost>>
    BY DEF UnlockRead, writer
  <1>7. StaleIn(held)'
    BY <1>1, <1>3, <1>4, <1>5, <1>6 DEF StaleIn
  <1>8. QED
    BY <1>7, StaleIsStaleIn

\* Whoever writes has been told of every stale read lock.
LEMMA StaleStep ==
  ASSUME IInv, [Next]_vars PROVE StaleAgree'
  <1>1. \A u \in Threads : Reads(held, u) \in Nat
    BY Numbers
  <1>2. ASSUME UNCHANGED <<writer, held, stale>> PROVE StaleAgree'
    BY <1>2 DEF IInv, StaleAgree, writer, ReadCnt, Locks
  <1>3. ASSUME NEW t \in Threads, LockWrite(t) PROVE StaleAgree'
    BY <1>3, Numbers, StaleAttempt DEF LockWrite, CanLock
  <1>4. ASSUME NEW t \in Threads, NEW x \in Kinds,
               held' = [held EXCEPT ![t] = Append(@, x)],
               UNCHANGED <<stale, readLockLost, writeThread>>
        PROVE  StaleAgree'
    <2>1. Reads(held', t) = Reads(held, t) + (IF x = "read" THEN 1 ELSE 0)
      BY <1>4, InvStack, ReadsAppend
    <2>2. \A u \in Threads \ {t} : Reads(held', u) = Reads(held, u)
      BY <1>4, OthersKept DEF Reads
    <2>3. \A u \in Threads : Reads(held, u) > 0 => Reads(held', u) > 0
      BY <1>1, <2>1, <2>2
    <2>4. QED
      BY <1>4, <2>3, StaleSame
  <1>5. ASSUME NEW t \in Threads, LockWriteNested(t) PROVE StaleAgree'
    BY <1>4, <1>5 DEF LockWriteNested, Kinds
  <1>6. ASSUME NEW t \in Threads, LockRead(t) \/ RelockPrewriters(t) PROVE StaleAgree'
    BY <1>2, <1>4, <1>6
    DEF LockRead, RelockPrewriters, ReadAttempt, ReadGranted, Kinds, writer
  <1>7. ASSUME NEW t \in Threads, RelockWriters(t) \/ RelockReaders(t) PROVE StaleAgree'
    BY <1>7, StaleAttempt DEF RelockWriters
  <1>8. ASSUME NEW t \in Threads, UnlockWrite(t) PROVE StaleAgree'
    <2>1. /\ held[t] # <<>> /\ Last(held[t]) = "write"
          /\ held' = [held EXCEPT ![t] = Front(@)]
          /\ UNCHANGED <<stale, readLockLost>>
          /\ writeThread' \in {writeThread, NoThread, t}
      BY <1>8 DEF UnlockWrite, Holds
    <2>2. Reads(held', t) = Reads(held, t) - 0
      BY <2>1, InvStack, ReadsFront
    <2>3. \A u \in Threads \ {t} : Reads(held', u) = Reads(held, u)
      BY <2>1, OthersKept DEF Reads
    <2>4. writeThread = t
      <3>1. Locks(t, "write") > 0
        BY <2>1, LocksFront, InvStack DEF Kinds
      <3>2. QED
        BY <3>1 DEF IInv, WriterInv, WriterAgrees
    <2>5. \A u \in Threads : Reads(held, u) > 0 => Reads(held', u) > 0
      BY <1>1, <2>2, <2>3
    <2>6. QED
      BY <2>1, <2>4, <2>5, StaleSame
  <1>9. QED
    BY <1>2, <1>3, <1>5, <1>6, <1>7, <1>8, StaleUnlockRead
    DEF Next, Inside, Unlock, WaitTest, WaitSleep, vars
-----------------------------------------------------------------------------
\* Who has write access (w) or waits for it, for PrewritersAgree.
PreSet(w, ev) == {t \in Threads : w = t \/ ev[t] \in {"writers", "readers"}}

LEMMA PrewritersAre ==
  ASSUME WriterInv PROVE Prewriters = PreSet(writeThread, event)
  <1>1. \A t \in Threads : Locks(t, "write") > 0 <=> writeThread = t
    BY RWMutexAssumption DEF WriterInv, WriterAgrees, WriterTypes
  <1>2. QED
    BY <1>1 DEF Prewriters, PreSet, WantsWrite

LEMMA PrewritersAreNext ==
  ASSUME WriterInv' PROVE Prewriters' = PreSet(writeThread', event')
  <1>1. \A t \in Threads : Locks(t, "write")' > 0 <=> writeThread' = t
    BY RWMutexAssumption DEF WriterInv, WriterAgrees, WriterTypes
  <1>2. QED
    BY <1>1 DEF Prewriters, PreSet, WantsWrite

LEMMA PreSetFinite ==
  ASSUME NEW w, NEW ev
  PROVE  /\ IsFiniteSet(PreSet(w, ev)) /\ Cardinality(PreSet(w, ev)) \in Nat
         /\ \A t \in PreSet(w, ev) : Cardinality(PreSet(w, ev)) > 0
  <1>1. PreSet(w, ev) \subseteq Threads
    BY DEF PreSet
  <1>2. IsFiniteSet(PreSet(w, ev)) /\ Cardinality(PreSet(w, ev)) \in Nat
    BY <1>1, RWMutexAssumption, FS_Subset, FS_CardinalityType
  <1>3. ASSUME NEW t \in PreSet(w, ev) PROVE Cardinality(PreSet(w, ev)) > 0
    <2>1. Cardinality(PreSet(w, ev)) # 0
      BY <1>2, <1>3, FS_EmptySet
    <2>2. QED
      BY <1>2, <2>1
  <1>4. QED
    BY <1>2, <1>3

Claimants == Cardinality(PreSet(writeThread, event))

\* A step leaves the prewriters and their count alone, adds one to both, takes one
\* off both, or gives back a nested write lock, which counts down for nothing.
Stays == Claimants' = Claimants /\ prewriteCount' = prewriteCount
Enters == Claimants' = Claimants + 1 /\ prewriteCount' = prewriteCount + 1
Leaves == /\ Claimants' = Claimants - 1 /\ Claimants > 0
          /\ prewriteCount' = CountedDown(prewriteCount)
          /\ writeThread' = NoThread
Miscounts == /\ Claimants' = Claimants /\ Claimants > 0
             /\ prewriteCount' = CountedDown(prewriteCount)
             /\ writeCount' # 0 /\ writeCount' < writeCount

LEMMA AttemptEnters ==
  ASSUME IInv, NEW t \in Threads, Attempt(t) \/ RelockReaders(t)
  PROVE  PreSet(writeThread', event') = PreSet(writeThread, event) \cup {t}
  <1>1. event \in [Threads -> Events \cup {"none"}]
        /\ (writeCount = 0 => writeThread = NoThread) /\ t # NoThread
    BY Numbers, RWMutexAssumption DEF IInv, WriterInv, WriterAgrees
  <1>2. ASSUME NEW b, writeCount = 0, Granted(t, b)
        PROVE  PreSet(writeThread', event') = PreSet(writeThread, event) \cup {t}
    BY <1>1, <1>2, RWMutexAssumption DEF Granted, Return, PreSet
  <1>3. ASSUME NEW e \in {"writers", "readers"}, WaitFor(t, e), UNCHANGED writer
        PROVE  PreSet(writeThread', event') = PreSet(writeThread, event) \cup {t}
    BY <1>1, <1>3 DEF WaitFor, PreSet, writer
  <1>4. QED
    BY <1>2, <1>3 DEF Attempt, WaitForWriters, Claim, RelockReaders

LEMMA PrewritersMove ==
  ASSUME IInv, [Next]_vars PROVE Stays \/ Enters \/ Leaves \/ Miscounts
  <1>1. /\ event \in [Threads -> Events \cup {"none"}]
        /\ \A u \in Threads : event[u] = "none" <=> pc[u] = "run"
        /\ writeCount \in Nat
    BY Numbers
  <1>2. ASSUME UNCHANGED <<prewriteCount, writeThread, event>> PROVE Stays
    BY <1>2 DEF Stays, Claimants
  <1>3. ASSUME NEW t \in Threads, LockWrite(t) PROVE Enters
    <2>1. PreSet(writeThread', event') = PreSet(writeThread, event) \cup {t}
      BY <1>3, AttemptEnters DEF LockWrite
    <2>2. t \notin PreSet(writeThread, event)
      BY <1>1, <1>3 DEF LockWrite, CanLock, PreSet
    <2>3. Claimants' = Claimants + 1
      BY <2>1, <2>2, PreSetFinite, FS_AddElement DEF Claimants
    <2>4. QED
      BY <1>3, <2>3 DEF Enters, LockWrite
  <1>4. ASSUME NEW t \in Threads, LockWriteNested(t) PROVE Stays
    BY <1>2, <1>4 DEF LockWriteNested, counts, waits
  <1>5. ASSUME NEW t \in Threads, LockRead(t) \/ RelockPrewriters(t) PROVE Stays
    <2>1. event[t] \notin {"writers", "readers"}
      BY <1>1, <1>5 DEF LockRead, RelockPrewriters, CanLock
    <2>2. /\ UNCHANGED <<prewriteCount, writeThread>>
          /\ \E e \in {"none", "prewriters"} : event' = [event EXCEPT ![t] = e]
      BY <1>5 DEF LockRead, RelockPrewriters, ReadAttempt, ReadGranted, Return, WaitFor,
                  counts, writer
    <2>3. PreSet(writeThread', event') = PreSet(writeThread, event)
      BY <1>1, <2>1, <2>2 DEF PreSet
    <2>4. QED
      BY <2>2, <2>3 DEF Stays, Claimants
  <1>6. ASSUME NEW t \in Threads, RelockWriters(t) \/ RelockReaders(t) PROVE Stays
    <2>1. PreSet(writeThread', event') = PreSet(writeThread, event) \cup {t}
      BY <1>6, AttemptEnters DEF RelockWriters
    <2>2. t \in PreSet(writeThread, event)
      BY <1>6 DEF RelockWriters, RelockReaders, PreSet
    <2>3. PreSet(writeThread', event') = PreSet(writeThread, event)
      BY <2>1, <2>2
    <2>4. QED
      BY <1>6, <2>3 DEF Stays, Claimants, RelockWriters, RelockReaders
  <1>7. ASSUME NEW t \in Threads, UnlockWrite(t) PROVE Leaves \/ Miscounts
    <2>1. writeThread = t /\ writeCount > 0 /\ event[t] = "none" /\ t # NoThread
      <3>1. Locks(t, "write") > 0
        BY <1>7, LocksFront, InvStack DEF UnlockWrite, Holds, Kinds
      <3>2. QED
        BY <1>1, <1>7, <3>1, RWMutexAssumption
        DEF IInv, WriterInv, WriterAgrees, UnlockWrite, Holds
    <2>2. /\ prewriteCount' = CountedDown(prewriteCount) /\ event' = event
          /\ writeThread' = IF writeCount = 1 THEN NoThread ELSE t
          /\ writeCount' = writeCount - 1
      BY <1>7 DEF UnlockWrite, WakeAll
    <2>3. t \in PreSet(writeThread, event)
      BY <2>1 DEF PreSet
    <2>4. Claimants > 0
      BY <2>3, PreSetFinite DEF Claimants
    <2>5. CASE writeCount = 1
      <3>1. PreSet(writeThread', event') = PreSet(writeThread, event) \ {t}
        BY <2>1, <2>2, <2>5, RWMutexAssumption DEF PreSet
      <3>2. Claimants' = Claimants - 1
        BY <2>3, <3>1, PreSetFinite, FS_RemoveElement DEF Claimants
      <3>3. QED
        BY <2>2, <2>4, <2>5, <3>2 DEF Leaves
    <2>6. CASE writeCount # 1
      <3>1. Claimants' = Claimants
        BY <2>1, <2>2, <2>6 DEF Claimants
      <3>2. QED
        BY <1>1, <2>1, <2>2, <2>4, <2>6, <3>1 DEF Miscounts
    <2>7. QED
      BY <2>5, <2>6
  <1>8. ASSUME NEW t \in Threads, UnlockRead(t) PROVE Stays
    BY <1>2, <1>8 DEF UnlockRead, WakeAll, writer
  <1>9. ASSUME NEW t \in Threads, WaitTest(t) \/ WaitSleep(t) PROVE Stays
    BY <1>2, <1>9 DEF WaitTest, WaitSleep, Goto, counts, writer
  <1>10. QED
    BY <1>2, <1>3, <1>4, <1>5, <1>6, <1>7, <1>8, <1>9
    DEF Next, Inside, Unlock, vars, counts, writer, waits

\* The claimants of the two states are what prewrite.count is compared with.
LEMMA ClaimantsCounted ==
  ASSUME IInv, [Next]_vars
  PROVE  /\ PrewritersCounted <=> prewriteCount = Claimants
         /\ PrewritersCounted' <=> prewriteCount' = Claimants'
         /\ Cardinality(Prewriters) = Claimants /\ Cardinality(Prewriters)' = Claimants'
         /\ Claimants \in Nat /\ Claimants' \in Nat
         /\ prewriteCount \in Nat /\ prewriteCount <= Claimants
  <1>1. WriterInv /\ WriterInv'
    BY StepWriterInv DEF IInv
  <1>2. Prewriters = PreSet(writeThread, event) /\ Prewriters' = PreSet(writeThread', event')
    BY <1>1, PrewritersAre, PrewritersAreNext
  <1>3. Cardinality(Prewriters) = Claimants /\ Cardinality(Prewriters)' = Claimants'
    BY <1>2 DEF Claimants
  <1>4. /\ PrewritersCounted <=> prewriteCount = Cardinality(Prewriters)
        /\ PrewritersCounted' <=> prewriteCount' = Cardinality(Prewriters)'
    BY DEF PrewritersCounted, Prewriters
  <1>5. Claimants \in Nat /\ Claimants' \in Nat
    BY PreSetFinite DEF Claimants
  <1>6. QED
    BY <1>3, <1>4, <1>5, Numbers DEF IInv, PrewritersAgree
-----------------------------------------------------------------------------
\* A thread holds something when it has a lock of one kind or the other.
LEMMA HoldsSomething ==
  ASSUME NEW s \in Seq(Kinds)
  PROVE  s # <<>> <=> Cardinality(Of(s, "read")) > 0 \/ Cardinality(Of(s, "write")) > 0
  <1>1. \A k : IsFiniteSet(Of(s, k)) /\ Cardinality(Of(s, k)) \in Nat
    BY OfIsFinite
  <1>2. \A k : Cardinality(Of(s, k)) > 0 <=> Of(s, k) # {}
    BY <1>1, FS_EmptySet
  <1>3. DOMAIN s = 1..Len(s) /\ Len(s) \in Nat /\ (s # <<>> => Len(s) > 0)
    BY LenProperties, EmptySeq
  <1>4. ASSUME s # <<>> PROVE Of(s, "read") # {} \/ Of(s, "write") # {}
    BY <1>3, <1>4 DEF Of, Kinds
  <1>5. ASSUME s = <<>> PROVE Of(s, "read") = {} /\ Of(s, "write") = {}
    BY <1>5 DEF Of
  <1>6. QED
    BY <1>2, <1>4, <1>5

\* Nobody runs with a lock beside the thread w that has write access.
Runs(p, h, u) == p[u] = "run" /\ h[u] # <<>>
AloneIn(w, p, h) == \A u \in Threads : Runs(p, h, u) /\ w # NoThread => u = w

LEMMA AloneIsAloneIn ==
  ASSUME IInv
  PROVE  /\ WriterIsAlone => AloneIn(writeThread, pc, held)
         /\ \A u \in Threads : Runs(pc, held, u) <=> Running(u)
         /\ \A u \in Threads : writeThread = u => Runs(pc, held, u)
         /\ \A u \in Threads : held[u] # <<>> => writeThread = u \/ Reads(held, u) > 0
         /\ \A u \in Threads : Reads(held, u) > 0 => held[u] # <<>>
  <1>1. \A u \in Threads : Locks(u, "write") > 0 <=> writeThread = u
    BY RWMutexAssumption DEF IInv, WriterInv, WriterAgrees, WriterTypes
  <1>2. \A u \in Threads : held[u] # <<>> <=> Locks(u, "write") > 0 \/ Reads(held, u) > 0
    BY InvStack, HoldsSomething DEF StackTypes, Locks, Reads, Of
  <1>3. \A u \in Threads : writeThread = u => Runs(pc, held, u)
    BY <1>1, <1>2, WaitsOfInv DEF WaitsAgree, Runs
  <1>4. \A u \in Threads : Runs(pc, held, u) <=> Running(u)
    BY DEF Runs, Running
  <1>5. ASSUME WriterIsAlone PROVE AloneIn(writeThread, pc, held)
    <2>1. writeThread \in Threads \cup {NoThread}
      BY DEF IInv, WriterInv, WriterTypes
    <2>2. QED
      BY <1>1, <1>3, <1>4, <1>5, <2>1 DEF WriterIsAlone, AloneIn
  <1>6. QED
    BY <1>1, <1>2, <1>3, <1>4, <1>5

LEMMA AloneInIsAlone ==
  ASSUME WriterInv', AloneIn(writeThread', pc', held') PROVE WriterIsAlone'
  <1>1. \A u \in Threads : Locks(u, "write")' > 0 <=> writeThread' = u
    BY RWMutexAssumption DEF WriterInv, WriterAgrees, WriterTypes
  <1>2. QED
    BY <1>1, RWMutexAssumption DEF AloneIn, WriterIsAlone, Running, Runs

\* Write access is granted to a thread that has the mutex for itself.
LEMMA AloneGranted ==
  ASSUME IInv, NEW t \in Threads, NEW b, writeCount = 0, Granted(t, b),
         \/ event[t] # "readers" /\ readCount = ReadCnt(t)
         \/ event[t] = "readers" /\ readCount = 0
  PROVE  AloneIn(writeThread', pc', held')
  <1>1. writeThread = NoThread
    BY DEF IInv, WriterInv, WriterAgrees
  <1>2. /\ writeThread' = t /\ pc' = [pc EXCEPT ![t] = "run"]
        /\ \A u \in Threads \ {t} : held'[u] = held[u]
    BY OthersKept DEF Granted, Return
  <1>3. \A u \in Threads \ {t} : pc'[u] = pc[u]
    BY <1>2, WaitsOfInv DEF Waits
  <1>4. \A u \in Threads \ {t} : Reads(held, u) > 0 => pc[u] # "run"
    BY OthersUpgrade, Numbers
  <1>5. QED
    BY <1>1, <1>2, <1>3, <1>4, AloneIsAloneIn, RWMutexAssumption DEF AloneIn, Runs

\* No other thread comes to run with a lock.
NoneStarts == \A u \in Threads : Runs(pc', held', u) => Runs(pc, held, u)

LEMMA AloneSame ==
  ASSUME AloneIn(writeThread, pc, held), writeThread' \in {writeThread, NoThread}, NoneStarts
  PROVE  AloneIn(writeThread', pc', held')
  BY DEF AloneIn, NoneStarts

LEMMA NoneStartsWait ==
  ASSUME IInv, NEW t \in Threads, NEW e, WaitFor(t, e), UNCHANGED held
  PROVE  NoneStarts
  BY WaitsOfInv DEF Waits, WaitFor, NoneStarts, Runs

LEMMA NoneStartsUnlock ==
  ASSUME IInv, NEW t \in Threads, Unlock(t) PROVE NoneStarts /\ Runs(pc, held, t)
  <1>1. /\ pc[t] = "run" /\ held[t] # <<>> /\ held' = [held EXCEPT ![t] = Front(@)]
        /\ writeThread' \in {writeThread, NoThread, t}
        /\ \E es : WakeAll(es)
    BY DEF Unlock, UnlockWrite, UnlockRead, Holds, writer
  <1>2. \A u \in Threads : pc'[u] = "run" => pc[u] = "run"
    BY <1>1, OthersKept, WaitsOfInv, WaitsWakeAll
  <1>3. QED
    BY <1>1, <1>2, OthersKept DEF NoneStarts, Runs

LEMMA NoneStartsSame ==
  ASSUME UNCHANGED <<pc, held>> PROVE NoneStarts
  BY DEF NoneStarts

LEMMA NoneStartsGoto ==
  ASSUME IInv, NEW t \in Threads, WaitTest(t) \/ WaitSleep(t)
  PROVE  NoneStarts
  <1>1. \E l \in {"relock", "gap", "asleep"} : pc' = [pc EXCEPT ![t] = l]
    BY DEF WaitTest, WaitSleep, Goto
  <1>2. UNCHANGED held
    BY DEF WaitTest, WaitSleep
  <1>3. QED
    BY <1>1, <1>2, WaitsOfInv DEF Waits, NoneStarts, Runs

LEMMA NoneStartsNested ==
  ASSUME IInv, NEW t \in Threads, LockWriteNested(t)
  PROVE  NoneStarts /\ Runs(pc, held, t)
  <1>1. writeThread = t /\ UNCHANGED pc /\ \A u \in Threads \ {t} : held'[u] = held[u]
    BY OthersKept DEF LockWriteNested, waits
  <1>2. QED
    BY <1>1, AloneIsAloneIn DEF NoneStarts, Runs

\* A reader that is let in beside nobody who writes, while prewrite.count is right.
LEMMA ReadGrantedCounted ==
  ASSUME IInv, NEW t \in Threads, pc[t] = "run" \/ event[t] = "prewriters",
         prewriteCount = Claimants, ReadAttempt(t), ReadGranted(t)
  PROVE  /\ writeThread' = writeThread /\ writeCount' = writeCount
         /\ \A u \in Threads \ {t} : Runs(pc', held', u) => Runs(pc, held, u)
         /\ IsNew(t) => writeThread = NoThread /\ writeCount = 0
         /\ ~IsNew(t) => Runs(pc, held, t)
  <1>1. /\ writeThread' = writeThread /\ writeCount' = writeCount
        /\ pc' = [pc EXCEPT ![t] = "run"]
        /\ \A u \in Threads \ {t} : held'[u] = held[u]
    BY OthersKept DEF ReadGranted, Return, writer
  <1>2. \A u \in Threads \ {t} : Runs(pc', held', u) => Runs(pc, held, u)
    BY <1>1, WaitsOfInv DEF Waits, Runs
  <1>3. ASSUME IsNew(t) PROVE writeThread = NoThread /\ writeCount = 0
    <2>1. prewriteCount = 0
      <3>1. pc'[t] = "run" /\ readCount' = readCount + 1 /\ readCount \in Nat
        BY <1>1, Numbers, WaitsOfInv DEF Waits, ReadGranted
      <3>2. ~(IsNew(t) /\ ReadBlocked(t))
        BY <3>1 DEF ReadAttempt, counts
      <3>3. QED
        BY <1>3, <3>2 DEF ReadBlocked
    <2>2. ASSUME writeThread \in Threads PROVE FALSE
      <3>1. writeThread \in PreSet(writeThread, event)
        BY <2>2 DEF PreSet
      <3>2. Claimants > 0
        BY <3>1, PreSetFinite DEF Claimants
      <3>3. QED
        BY <2>1, <3>2
    <2>3. QED
      BY <2>2 DEF IInv, WriterInv, WriterTypes, WriterAgrees
  <1>4. ASSUME ~IsNew(t) PROVE Runs(pc, held, t)
    <2>1. CASE writeThread = t
      BY <2>1, AloneIsAloneIn
    <2>2. CASE ReadCnt(t) # 0
      <3>1. Reads(held, t) > 0
        BY <2>2, Numbers
      <3>2. pc[t] = "run"
        BY <3>1, WaitsOfInv DEF WaitsAgree
      <3>3. QED
        BY <3>1, <3>2, AloneIsAloneIn DEF Runs
    <2>3. QED
      BY <1>4, <2>1, <2>2 DEF IsNew
  <1>5. QED
    BY <1>1, <1>2, <1>3, <1>4
-----------------------------------------------------------------------------
\* While prewrite.count is right the writer has the mutex for itself.
LEMMA AloneStep ==
  ASSUME IInv, [Next]_vars, AloneIn(writeThread, pc, held), prewriteCount = Claimants
  PROVE  AloneIn(writeThread', pc', held')
  <1>1. ASSUME NoneStarts, UNCHANGED writeThread
        PROVE  AloneIn(writeThread', pc', held')
    BY <1>1, AloneSame
  <1>2. ASSUME NEW t \in Threads, Attempt(t), event[t] # "readers"
        PROVE  AloneIn(writeThread', pc', held')
    BY <1>1, <1>2, NoneStartsWait, AloneGranted DEF Attempt, WaitForWriters, Claim, writer
  <1>3. ASSUME NEW t \in Threads, RelockReaders(t)
        PROVE  AloneIn(writeThread', pc', held')
    BY <1>1, <1>3, NoneStartsWait, AloneGranted DEF RelockReaders, writer
  <1>4. ASSUME NEW t \in Threads, ReadAttempt(t), pc[t] = "run" \/ event[t] = "prewriters"
        PROVE  AloneIn(writeThread', pc', held')
    <2>1. CASE WaitFor(t, "prewriters") /\ UNCHANGED <<writer, held>>
      BY <1>1, <2>1, NoneStartsWait DEF writer
    <2>2. CASE ReadGranted(t)
      <3>1. /\ writeThread' = writeThread
            /\ \A u \in Threads \ {t} : Runs(pc', held', u) => Runs(pc, held, u)
            /\ IsNew(t) => writeThread = NoThread
            /\ ~IsNew(t) => Runs(pc, held, t)
        BY <1>4, <2>2, ReadGrantedCounted
      <3>2. QED
        BY <3>1 DEF AloneIn
    <2>3. QED
      BY <1>4, <2>1, <2>2 DEF ReadAttempt
  <1>5. ASSUME NEW t \in Threads, Unlock(t)
        PROVE  AloneIn(writeThread', pc', held')
    <2>1. /\ writeThread' \in {writeThread, NoThread, t} /\ NoneStarts
          /\ Runs(pc, held, t)
      BY <1>5, NoneStartsUnlock DEF Unlock, UnlockWrite, UnlockRead, writer
    <2>2. UnlockWrite(t) => writeThread = t
      <3>1. UnlockWrite(t) => Locks(t, "write") > 0
        BY LocksFront, InvStack DEF UnlockWrite, Holds, Kinds
      <3>2. QED
        BY <3>1 DEF IInv, WriterInv, WriterAgrees
    <2>3. UnlockRead(t) => writeThread' = writeThread
      BY DEF UnlockRead, writer
    <2>4. QED
      BY <1>5, <2>1, <2>2, <2>3, AloneSame DEF Unlock
  <1>6. ASSUME NEW t \in Threads, LockWriteNested(t) PROVE AloneIn(writeThread', pc', held')
    BY <1>1, <1>6, NoneStartsNested DEF LockWriteNested
  <1>7. ASSUME NEW t \in Threads, WaitTest(t) \/ WaitSleep(t)
        PROVE  AloneIn(writeThread', pc', held')
    BY <1>1, <1>7, NoneStartsGoto DEF WaitTest, WaitSleep, writer
  <1>8. CASE UNCHANGED vars
    BY <1>1, <1>8, NoneStartsSame DEF vars, waits, writer
  <1>9. QED
    BY <1>2, <1>3, <1>4, <1>5, <1>6, <1>7, <1>8, Numbers
    DEF Next, LockWrite, LockRead, CanLock, Inside, RelockWriters, RelockPrewriters

LEMMA PrewritersStep ==
  ASSUME IInv, [Next]_vars PROVE PrewritersAgree'
  <1>1. /\ Stays \/ Enters \/ Leaves \/ Miscounts
        /\ PrewritersCounted <=> prewriteCount = Claimants
        /\ PrewritersCounted' <=> prewriteCount' = Claimants'
        /\ Cardinality(Prewriters)' = Claimants'
        /\ Claimants \in Nat /\ Claimants' \in Nat
        /\ prewriteCount \in Nat /\ prewriteCount <= Claimants
    BY PrewritersMove, ClaimantsCounted
  <1>2. prewriteCount' <= Claimants'
    BY <1>1 DEF Stays, Enters, Leaves, Miscounts, CountedDown
  <1>3. ASSUME PrewritersCounted' PROVE WriterIsAlone'
    <2>1. CASE Leaves
      <3>1. AloneIn(writeThread', pc', held')
        BY <2>1 DEF Leaves, AloneIn
      <3>2. QED
        BY <3>1, StepWriterInv, AloneInIsAlone DEF IInv
    <2>2. CASE Stays \/ Enters
      <3>1. prewriteCount = Claimants
        BY <1>1, <1>3, <2>2 DEF Stays, Enters
      <3>2. AloneIn(writeThread, pc, held)
        BY <1>1, <3>1, AloneIsAloneIn DEF IInv, PrewritersAgree, AloneWhileCounted
      <3>3. AloneIn(writeThread', pc', held')
        BY <3>1, <3>2, AloneStep
      <3>4. QED
        BY <3>3, StepWriterInv, AloneInIsAlone DEF IInv
    <2>3. CASE Miscounts
      BY <1>1, <1>3, <2>3 DEF Miscounts, CountedDown
    <2>4. QED
      BY <1>1, <2>1, <2>2, <2>3
  <1>4. QED
    BY <1>1, <1>2, <1>3 DEF PrewritersAgree, AloneWhileCounted
-----------------------------------------------------------------------------
\* The mutex is new: nobody has a lock and nobody waits.
LEMMA InitIInv == Init => IInv
  <1> SUFFICES ASSUME Init PROVE IInv
    OBVIOUS
  <1>1. WriterInv
    BY InitWriterInv
  <1>2. /\ held = [t \in Threads |-> <<>>] /\ Len(<<>>) = 0 /\ <<>> \in Seq(Kinds)
        /\ StackTypes(held)
    BY EmptySeq, RWMutexAssumption DEF Init, StackTypes
  <1>3. \A t \in Threads : Locks(t, "write") = 0 /\ Reads(held, t) = 0
    <2>1. \A t \in Threads : Of(held[t], "read") = {} /\ Of(held[t], "write") = {}
      BY <1>2 DEF Of
    <2>2. QED
      BY <2>1, FS_EmptySet DEF Locks, Reads, Of
  <1>4. ThreadsAgree
    <2>1. held \in [Threads -> BoundedSeq({"read", "write"}, MaxDepth)]
      BY <1>2, BoundedIsSeq
    <2>2. /\ lockedstate \in States /\ readLockLost \in BOOLEAN /\ missed \in BOOLEAN
          /\ writeCount \in 0..MaxWrites /\ stale \in [Threads -> BOOLEAN]
          /\ signalled \in [Events -> BOOLEAN]
      <3>1. lockedstate \in States /\ writeCount \in 0..MaxWrites
        BY RWMutexAssumption DEF Init
      <3>2. readLockLost \in BOOLEAN /\ missed \in BOOLEAN
        BY DEF Init
      <3>3. stale \in [Threads -> BOOLEAN]
        BY DEF Init
      <3>4. signalled \in [Events -> BOOLEAN]
        BY DEF Init
      <3>5. QED
        BY <3>1, <3>2, <3>3, <3>4
    <2>3. TypeOK
      BY <2>1, <2>2 DEF Init, TypeOK
    <2>4. QED
      BY <1>2, <2>3, RWMutexAssumption DEF Init, ThreadsAgree
  <1>5. ReadersShared
    <2>1. \A S \in SUBSET Threads : SumIn(held, S) = 0
      <3>1. \A S \in SUBSET Threads : ReadsIn(held, S) = {}
        BY <1>2 DEF ReadsIn
      <3>2. QED
        BY <3>1, FS_EmptySet DEF SumIn
    <2>2. Upgrading \in SUBSET Threads /\ Threads \ Upgrading \in SUBSET Threads
      BY DEF Upgrading
    <2>3. SumIn(held, Upgrading) = 0 /\ SumIn(held, Threads \ Upgrading) = 0
      BY <2>1, <2>2
    <2>4. QED
      BY <2>3, SumsAreSumsIn DEF Init, ReadersShared
  <1>6. PrewritersAgree
    <2>1. Prewriters = {}
      BY <1>3 DEF Init, Prewriters, WantsWrite
    <2>2. WriterIsAlone
      BY <1>3 DEF WriterIsAlone
    <2>3. QED
      BY <2>1, <2>2, FS_EmptySet DEF Init, PrewritersAgree, AloneWhileCounted
  <1>7. StaleAgree
    BY DEF Init, StaleAgree
  <1>8. QED
    BY <1>1, <1>4, <1>5, <1>6, <1>7 DEF IInv

LEMMA StepIInv == IInv /\ [Next]_vars => IInv'
  <1> SUFFICES ASSUME IInv, [Next]_vars PROVE IInv'
    OBVIOUS
  <1>1. WriterInv' /\ ThreadsAgree' /\ ReadersShared' /\ PrewritersAgree' /\ StaleAgree'
    BY StepWriterInv, ThreadsStep, SharedStep, PrewritersStep, StaleStep DEF IInv
  <1>2. QED
    BY <1>1 DEF IInv

\* Everything above holds in every reachable state.
THEOREM Invariance == Spec => []IInv
  <1>1. QED
    BY InitIInv, StepIInv, PTL DEF Spec

\* Every counter and field stays in its domain; none goes below zero.
THEOREM TypeCorrect == Spec => []TypeOK
  <1>1. IInv => TypeOK
    BY DEF IInv, ThreadsAgree
  <1>2. QED
    BY <1>1, Invariance, PTL

\* read.count and prewrite.rws share out the read locks of all threads, however
\* many upgrades are under way.
THEOREM ReadersAreShared == Spec => []ReadersShared
  <1>1. IInv => ReadersShared
    BY DEF IInv
  <1>2. QED
    BY <1>1, Invariance, PTL

\* The writer has the mutex for itself as long as prewrite.count is right.
THEOREM WriterIsAloneWhileCounted == Spec => []AloneWhileCounted
  <1>1. IInv => AloneWhileCounted
    BY DEF IInv, PrewritersAgree
  <1>2. QED
    BY <1>1, Invariance, PTL

\* lock(true) never fails to tell that another thread wrote in between.
THEOREM LostLocksAreTold == Spec => []LockLostIsTold
  <1>1. IInv => LockLostIsTold
    BY DEF IInv, StaleAgree, LockLostIsTold
  <1>2. QED
    BY <1>1, Invariance, PTL

\* Nothing but giving back a nested write lock puts prewrite.count wrong.
THEOREM OnlyNestingMiscounts == Spec => CountLostByNestingOnly
  <1>1. ASSUME IInv, [Next]_vars
        PROVE  [PrewritersCounted =>
                  PrewritersCounted' \/ (writeCount' # 0 /\ writeCount' < writeCount)]_vars
    <2>1. /\ Stays \/ Enters \/ Leaves \/ Miscounts
          /\ PrewritersCounted <=> prewriteCount = Claimants
          /\ PrewritersCounted' <=> prewriteCount' = Claimants'
          /\ Claimants \in Nat
      BY <1>1, PrewritersMove, ClaimantsCounted
    <2>2. QED
      BY <2>1 DEF Stays, Enters, Leaves, Miscounts, CountedDown
  <1>2. QED
    BY <1>1, Invariance, PTL DEF Spec, CountLostByNestingOnly
-----------------------------------------------------------------------------
\* What isLocked() returns to threads that run with a lock.
Shown == IF writeCount > 0 THEN "ReadWrite" ELSE "ReadOnly"
StateIn == \A u \in Threads : Runs(pc, held, u) => lockedstate = Shown

\* Once the last read lock counted in read.count is gone, whoever runs writes.
LEMMA NoReadersLeft ==
  IInv /\ readCount = 0 =>
    \A u \in Threads : Runs(pc, held, u) => writeCount > 0
  <1> SUFFICES ASSUME IInv, readCount = 0, NEW u \in Threads, Runs(pc, held, u)
               PROVE  writeCount > 0
    OBVIOUS
  <1>1. /\ StackTypes(held) /\ Threads \ Upgrading \subseteq Threads
        /\ readCount = SumIn(held, Threads \ Upgrading)
    BY InvStack, SumsAreSumsIn DEF IInv, ReadersShared
  <1>2. event[u] = "none" /\ writeCount \in Nat
    BY Numbers DEF Runs
  <1>3. u \in Threads \ Upgrading
    BY <1>2 DEF Upgrading
  <1>4. /\ SumIn(held, Threads \ Upgrading)
             = SumIn(held, (Threads \ Upgrading) \ {u}) + Reads(held, u)
        /\ Reads(held, u) \in Nat /\ SumIn(held, (Threads \ Upgrading) \ {u}) \in Nat
    BY <1>1, <1>3, SumSplit, ReadsFinite
  <1>5. Reads(held, u) = 0
    BY <1>1, <1>4
  <1>6. writeThread = u
    BY <1>5, AloneIsAloneIn DEF Runs
  <1>7. QED
    BY <1>2, <1>6, RWMutexAssumption DEF IInv, WriterInv, WriterAgrees

LEMMA StateSame ==
  ASSUME StateIn, NoneStarts, UNCHANGED <<lockedstate, writeCount>>
  PROVE  StateIn'
  BY DEF StateIn, NoneStarts, Shown

LEMMA StateGranted ==
  ASSUME NEW t \in Threads, NEW b, Granted(t, b) PROVE StateIn'
  BY DEF Granted, StateIn, Shown

\* A nested write lock, taken or given back by a writer that runs.
LEMMA StateNested ==
  ASSUME IInv, StateIn, NEW t \in Threads, NoneStarts, Runs(pc, held, t),
         writeCount > 0, writeCount' > 0, UNCHANGED lockedstate
  PROVE  StateIn'
  BY DEF StateIn, Shown

LEMMA StateUnlockWrite ==
  ASSUME IInv, StateIn, AloneIn(writeThread, pc, held), NEW t \in Threads, UnlockWrite(t)
  PROVE  StateIn'
  <1>1. NoneStarts /\ Runs(pc, held, t) /\ writeCount \in Nat
    BY NoneStartsUnlock, Numbers DEF Unlock
  <1>2. /\ held[t] # <<>> /\ Last(held[t]) = "write"
        /\ held' = [held EXCEPT ![t] = Front(@)]
        /\ writeCount' = writeCount - 1
        /\ writeThread' = IF writeCount = 1 THEN NoThread ELSE t
    BY DEF UnlockWrite, Holds
  <1>3. writeThread = t /\ writeCount > 0 /\ t # NoThread
    <2>1. Locks(t, "write") > 0
      BY <1>2, LocksFront, InvStack DEF Kinds
    <2>2. QED
      BY <1>1, <2>1, RWMutexAssumption DEF IInv, WriterInv, WriterAgrees
  <1>4. CASE writeCount # 1
    <2>1. writeCount' > 0 /\ UNCHANGED lockedstate
      BY <1>1, <1>2, <1>3, <1>4 DEF UnlockWrite
    <2>2. QED
      BY <1>1, <1>3, <2>1, StateNested
  <1>5. CASE writeCount = 1
    <2>1. \A u \in Threads : Runs(pc', held', u) => u = t
      BY <1>1, <1>3 DEF NoneStarts, AloneIn
    <2>2. Reads(held', t) = Reads(held, t) /\ Reads(held, t) \in Nat
          /\ ReadCnt(t) = Reads(held, t)
      <3>1. Reads(held', t) = Reads(held, t) - 0
        BY <1>2, InvStack, ReadsFront
      <3>2. QED
        BY <3>1, Numbers
    <2>3. writeThread' = NoThread /\ writeCount' = 0
      BY <1>2, <1>5
    <2>4. Runs(pc', held', t) => Reads(held', t) > 0
      <3>1. \A k \in Kinds : Locks(t, k)' = Cardinality(Of(held'[t], k))
        BY DEF Locks, Of
      <3>2. held'[t] \in Seq(Kinds)
        BY <1>2, InvStack, StackFront DEF StackTypes
      <3>3. Locks(t, "write")' = 0
        BY <2>3, StepWriterInv, RWMutexAssumption
        DEF IInv, WriterInv, WriterAgrees, Next, Unlock
      <3>4. QED
        BY <3>1, <3>2, <3>3, HoldsSomething DEF Runs, Reads, Kinds
    <2>5. lockedstate' = IF ReadCnt(t) > 0 THEN "ReadOnly" ELSE "Unlocked"
      BY <1>5 DEF UnlockWrite
    <2>6. QED
      BY <2>1, <2>2, <2>3, <2>4, <2>5 DEF StateIn, Shown
  <1>6. QED
    BY <1>4, <1>5

LEMMA StateUnlockRead ==
  ASSUME IInv, IInv', StateIn, NEW t \in Threads, UnlockRead(t)
  PROVE  StateIn'
  <1>1. NoneStarts
    BY NoneStartsUnlock DEF Unlock
  <1>2. /\ readCount' = readCount - 1 /\ writeCount' = writeCount
        /\ lockedstate' = IF readCount = 1 THEN StateWithoutReaders ELSE lockedstate
    BY DEF UnlockRead, writer
  <1>3. CASE readCount # 1
    BY <1>1, <1>2, <1>3, StateSame
  <1>4. CASE readCount = 1
    <2>1. readCount' = 0
      BY <1>2, <1>4
    <2>2. \A u \in Threads : Runs(pc', held', u) => writeCount' > 0
      <3>1. (IInv /\ readCount = 0 =>
               \A u \in Threads : Runs(pc, held, u) => writeCount > 0)'
        BY NoReadersLeft, PTL
      <3>2. QED
        BY <2>1, <3>1
    <2>3. QED
      BY <1>2, <1>4, <2>2 DEF StateIn, Shown, StateWithoutReaders
  <1>5. QED
    BY <1>3, <1>4

LEMMA StateReadAttempt ==
  ASSUME IInv, StateIn, NEW t \in Threads, pc[t] = "run" \/ event[t] = "prewriters",
         prewriteCount = Claimants, ReadAttempt(t)
  PROVE  StateIn'
  <1>1. CASE WaitFor(t, "prewriters") /\ UNCHANGED <<writer, lockedstate, held>>
    BY <1>1, NoneStartsWait, StateSame DEF writer
  <1>2. CASE ReadGranted(t)
    <2>1. /\ writeCount' = writeCount
          /\ \A u \in Threads \ {t} : Runs(pc', held', u) => Runs(pc, held, u)
          /\ IsNew(t) => writeCount = 0
          /\ ~IsNew(t) => Runs(pc, held, t)
      BY <1>2, ReadGrantedCounted
    <2>2. lockedstate' = IF IsNew(t) THEN "ReadOnly" ELSE lockedstate
      BY <1>2 DEF ReadGranted
    <2>3. QED
      BY <2>1, <2>2 DEF StateIn, Shown
  <1>3. QED
    BY <1>1, <1>2 DEF ReadAttempt

LEMMA StateStep ==
  ASSUME IInv, IInv', [Next]_vars, PrewritersCounted, StateIn PROVE StateIn'
  <1>1. prewriteCount = Claimants /\ AloneIn(writeThread, pc, held)
    BY ClaimantsCounted, AloneIsAloneIn DEF IInv, PrewritersAgree, AloneWhileCounted
  <1>2. ASSUME NEW t \in Threads, Attempt(t) \/ RelockReaders(t) PROVE StateIn'
    BY <1>2, NoneStartsWait, StateSame, StateGranted
    DEF Attempt, WaitForWriters, Claim, RelockReaders, writer
  <1>3. ASSUME NEW t \in Threads, LockRead(t) \/ RelockPrewriters(t) PROVE StateIn'
    BY <1>1, <1>3, StateReadAttempt DEF LockRead, RelockPrewriters, CanLock
  <1>4. ASSUME NEW t \in Threads, LockWriteNested(t) PROVE StateIn'
    <2>1. NoneStarts /\ Runs(pc, held, t)
      BY <1>4, NoneStartsNested
    <2>2. /\ writeThread = t /\ writeCount' = writeCount + 1 /\ UNCHANGED lockedstate
          /\ writeCount \in Nat
      BY <1>4, Numbers DEF LockWriteNested
    <2>3. writeCount > 0
      BY <2>2, RWMutexAssumption DEF IInv, WriterInv, WriterAgrees
    <2>4. QED
      BY <2>1, <2>2, <2>3, StateNested
  <1>5. ASSUME NEW t \in Threads, WaitTest(t) \/ WaitSleep(t) PROVE StateIn'
    BY <1>5, NoneStartsGoto, StateSame DEF WaitTest, WaitSleep, writer
  <1>6. CASE UNCHANGED vars
    BY <1>6, NoneStartsSame, StateSame DEF vars, waits, writer
  <1>7. QED
    BY <1>1, <1>2, <1>3, <1>4, <1>5, <1>6, StateUnlockWrite, StateUnlockRead
    DEF Next, LockWrite, Inside, RelockWriters, Unlock

\* isLocked() stays right for whoever runs with a lock, in every behaviour in which
\* prewrite.count is always right.
THEOREM LockedStateStaysRight == Spec => LockedStateKept
  <1>1. Init => StateIn
    BY DEF Init, StateIn, Runs
  <1>2. IInv /\ IInv' /\ [Next]_vars /\ PrewritersCounted /\ StateIn => StateIn'
    BY StateStep
  <1>3. StateIn => LockedStateAgrees
    BY DEF StateIn, Shown, Runs, Running, LockedStateAgrees
  <1>4. QED
    BY <1>1, <1>2, <1>3, Invariance, PTL DEF Spec, LockedStateKept
=============================================================================
