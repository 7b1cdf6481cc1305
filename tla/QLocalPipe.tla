----------------------------- MODULE QLocalPipe -----------------------------
(***************************************************************************)
(* One direction of a QLocalPipe (src/QLocalPipe.cxx): threads that write, *)
(* flush and close one end, and threads that read the other, through a     *)
(* list of chunks.  The pipe's mutex makes each action one step; a reader  *)
(* gives it up to wait for data, and flush() does not take it, except in   *)
(* raw mode, where writeBlock() flushes while it holds it.                 *)
(***************************************************************************)
EXTENDS Integers, Sequences, FiniteSets, FiniteSetsExt

CONSTANTS Writers, Readers,
          Granularity,  \* the size of a chunk
          MaxLen,       \* the longest block read or written
          MaxBytes,     \* a bound: how many bytes are written in all
          Null          \* nobody

ASSUME QLocalPipeAssumption ==
  /\ Writers \cap Readers = {} /\ Null \notin Writers
  /\ IsFiniteSet(Readers) /\ Granularity \in Nat \ {0}
  /\ MaxLen \in Nat \ {0} /\ MaxBytes \in Nat

VARIABLES
  data,           \* the content of the chunks, up to where writing goes on
  rptr, wptr, datachunks, newdatawaiters,  \* of the Buffer
  newdata,        \* whether this event, with autoreset, is signalled
  empty,          \* whether this event, without, is
  clients,        \* how many ends are open
  raw,            \* whether the writing end is in raw mode
  p,              \* who keeps the mutex: a writer that flushes in raw mode
  at,             \* where each thread is
  want, waiting,  \* maxlen and `waiting` of a reader's readBlock()
  sent, got,      \* bytes written, which are numbered, and the last one read
  mark,           \* how much had been written when each flush began, or -1
  missed,         \* a wake met a thread between its test and its sleep (observer)
  broken,         \* memory that is not the pipe's has been read
  rough           \* it has been used as the code does not bear (observer)

buffer == <<data, rptr, wptr, datachunks>>
events == <<newdatawaiters, newdata, empty>>
ends == <<clients, raw>>
counts == <<sent, got, mark>>
vars == <<buffer, events, ends, p, at, want, waiting, counts, missed, broken, rough>>

Goto(t, l) == at' = [at EXCEPT ![t] = l]
Min2(a, b) == IF a < b THEN a ELSE b
Held == p # Null

Init == /\ data = <<>> /\ rptr = 0 /\ wptr = 0 /\ datachunks = 1
        /\ newdatawaiters = 0 /\ newdata = FALSE /\ empty = FALSE
        /\ clients = 2 /\ raw \in BOOLEAN
        /\ p = Null
        /\ at = [t \in Writers \cup Readers |-> "idle"]
        /\ want = [r \in Readers |-> 0] /\ waiting = [r \in Readers |-> 0]
        /\ sent = 0 /\ got = 0 /\ mark = [w \in Writers |-> -1]
        /\ missed = FALSE /\ broken = FALSE /\ rough = FALSE
-----------------------------------------------------------------------------
\* The loop of writeBlock(): how many bytes it copies for a block of len from place w
\* in a chunk of g.  Each round is limited by len and not by what is left of it, so
\* the last one may go on past the caller's data.
Copied(len, w, g) ==
  LET first == Min2(len, g - w)  \* the first round; the others begin a chunk
      round == Min2(len, g)
  IN  first + round * ((len - first + round - 1) \div round)

\* A block that ends in its chunk, or with one, is copied as it is.
Fits(len, w, g) == w + len <= g \/ (w + len) % g = 0

\* wakeAll() of newdata: those asleep go on, and maybe one that polls.  newdata stays
\* signalled if nobody is in its wait(), as one that polls or was woken may still be.
Wanted_drained == newdatawaiters > 0 /\ empty
Wanted == newdatawaiters > 0
ReadersAt(L) == {r \in Readers : at[r] \in L}
WakeReaders ==
  /\ newdata' \in IF ReadersAt({"gap", "asleep"}) # {} THEN {newdata}
                  ELSE IF ReadersAt({"polled", "woken"}) # {} THEN {newdata, TRUE}
                  ELSE {TRUE}
  /\ missed' = (missed \/ ReadersAt({"gap"}) # {})

\* writeBlock() of `len` bytes.  In raw mode it goes on to flush(), with the mutex.
Write(w, len) ==
  /\ ~Held /\ at[w] = "idle" /\ clients = 2 /\ sent + len <= MaxBytes
  /\ LET n == Copied(len, wptr, Granularity)
     IN  /\ data' = data \o [i \in 1..n |-> IF i <= len THEN sent + i ELSE 0]
         /\ wptr' = (wptr + n) % Granularity
         /\ datachunks' = datachunks + ((wptr + n) \div Granularity)
  /\ sent' = sent + len
  /\ empty' = FALSE
  /\ p' = IF raw THEN w ELSE Null
  /\ \/ Wanted /\ WakeReaders
     \/ ~Wanted /\ UNCHANGED <<newdata, missed>>
  /\ \E polls \in SUBSET ReadersAt({"polled"}) :
       at' = [t \in DOMAIN at |->
                IF Wanted /\ t \in ReadersAt({"asleep"}) \cup polls THEN "woken"
                ELSE IF t = w /\ raw THEN "rawflush" ELSE at[t]]
  /\ rough' = (rough \/ ~Fits(len, wptr, Granularity))
  /\ UNCHANGED <<rptr, newdatawaiters, ends, want, waiting, got, mark, broken>>

\* flush(): empty.wait(), without taking the mutex.
Flush(w) ==
  /\ (at[w] = "idle" /\ clients = 2) \/ at[w] = "rawflush"
  /\ mark' = [mark EXCEPT ![w] = sent]
  /\ Goto(w, "flushtest")
  /\ UNCHANGED <<buffer, events, ends, p, want, waiting, sent, got, missed, broken,
                 rough>>

FlushTest(w) ==
  /\ at[w] = "flushtest"
  /\ Goto(w, IF empty THEN "flushed" ELSE "flushgap")
  /\ UNCHANGED <<buffer, events, ends, p, want, waiting, counts, missed, broken,
                 rough>>

FlushSleep(w) ==
  /\ at[w] = "flushgap"
  /\ Goto(w, "flushasleep")
  /\ UNCHANGED <<buffer, events, ends, p, want, waiting, counts, missed, broken,
                 rough>>

FlushEnd(w) ==
  /\ at[w] = "flushed"
  /\ mark' = [mark EXCEPT ![w] = -1]
  /\ p' = IF p = w THEN Null ELSE p
  /\ Goto(w, "idle")
  /\ UNCHANGED <<buffer, events, ends, want, waiting, sent, got, missed, broken, rough>>

\* close() of the writing end: the chunks go, their count stays, nobody is woken.  A
\* reader inside readBlock() goes on by the count.
InCall == {r \in Readers : at[r] # "idle"}
Close(w) ==
  /\ ~Held /\ at[w] = "idle" /\ clients = 2
  /\ clients' = 1
  /\ data' = <<>> /\ rptr' = 0 /\ wptr' = 0
  /\ rough' = (rough \/ InCall # {})
  /\ UNCHANGED <<datachunks, events, raw, p, at, want, waiting, counts, missed,
                 broken>>
-----------------------------------------------------------------------------
\* The list s without its first k elements, and the bytes that are still to be read.
Drop(s, k) == SubSeq(s, k + 1, Len(s))
Unread == Drop(data, rptr)

\* Nothing is there any more once len bytes have been read.
Drained_anyChunk(len) == ((rptr + len) % Granularity) = wptr
Drained(len) == /\ datachunks = 1 + ((rptr + len) \div Granularity)
                /\ ((rptr + len) % Granularity) = wptr

\* The end of readBlock(): `len` bytes are copied, chunks that have been read are
\* deleted, and a buffer that is empty then says so.
KeptFrom_first(n) == n
KeptFrom(n) == n % Granularity
Take(r, len) ==
  LET end == rptr + len  \* in all the chunks
      drained == Drained(len)
      own == {i \in (rptr + 1)..end : data[i] # 0}
  IN  \/ /\ end <= Len(data)
         /\ got' = IF own = {} THEN got ELSE data[Max(own)]
         /\ datachunks' = datachunks - (end \div Granularity)
         /\ data' = IF drained THEN <<>>
                    ELSE Drop(data, end - (end % Granularity))
         /\ rptr' = IF drained THEN 0 ELSE KeptFrom(end)
         /\ wptr' = IF drained THEN 0 ELSE wptr
         /\ empty' = (empty \/ drained)
         /\ missed' = \/ missed
                      \/ drained /\ ~empty /\ \E w \in Writers : at[w] = "flushgap"
         /\ at' = [t \in DOMAIN at |->
                     IF t = r THEN "idle"
                     ELSE IF drained /\ ~empty /\ at[t] = "flushasleep" THEN "flushed"
                     ELSE at[t]]
         /\ want' = [want EXCEPT ![r] = 0] /\ waiting' = [waiting EXCEPT ![r] = 0]
         /\ UNCHANGED broken
      \/ /\ end > Len(data)
         /\ broken' = TRUE
         /\ UNCHANGED <<buffer, empty, got, missed, at, want, waiting>>

\* A round of readBlock()'s loop: with less there than wanted it gives the mutex up
\* and waits, for ever if there is nothing, otherwise not at all.
There == (datachunks - 1) * Granularity + wptr - rptr
Counted_not == newdatawaiters
Counted == newdatawaiters + 1
Round(r, len, counted) ==
  \/ /\ There >= len
     /\ newdatawaiters' = counted - 1
     /\ Take(r, len)
     /\ UNCHANGED newdata
  \/ /\ There < len
     /\ newdata' = FALSE
     /\ newdatawaiters' = counted
     /\ want' = [want EXCEPT ![r] = len]
     /\ waiting' = [waiting EXCEPT ![r] = There]
     /\ Goto(r, "unlocked")
     /\ UNCHANGED <<buffer, empty, got, missed, broken>>

Read(r, len) ==
  /\ ~Held /\ at[r] = "idle" /\ clients = 2
  /\ Round(r, len, Counted)
  /\ rough' = (rough \/ InCall # {})
  /\ UNCHANGED <<ends, p, sent, mark>>

\* newdata.wait(): with autoreset it takes the signal.
WaitTest(r) ==
  /\ at[r] = "unlocked"
  /\ newdata' = FALSE
  /\ Goto(r, IF newdata THEN "woken" ELSE IF waiting[r] = 0 THEN "gap" ELSE "polled")
  /\ UNCHANGED <<buffer, newdatawaiters, empty, ends, p, want, waiting, counts,
                 missed, broken, rough>>

WaitSleep(r) ==
  /\ at[r] = "gap"
  /\ Goto(r, "asleep")
  /\ UNCHANGED <<buffer, events, ends, p, want, waiting, counts, missed, broken,
                 rough>>

ReadAgain(r) ==
  /\ ~Held /\ at[r] = "woken"
  /\ Round(r, want[r], newdatawaiters)
  /\ UNCHANGED <<ends, p, sent, mark, rough>>

\* The poll found no more: what was there before it is taken.
ReadPolled(r) ==
  /\ ~Held /\ at[r] = "polled"
  /\ newdatawaiters' = newdatawaiters - 1
  /\ Take(r, waiting[r])
  /\ UNCHANGED <<newdata, ends, p, sent, mark, rough>>
-----------------------------------------------------------------------------
Flushing(w) == \/ at[w] = "rawflush" /\ Flush(w)
               \/ FlushTest(w) \/ FlushSleep(w) \/ FlushEnd(w)
Reading(r) == WaitTest(r) \/ WaitSleep(r) \/ ReadAgain(r) \/ ReadPolled(r)

Next == /\ ~broken
        /\ \/ \E w \in Writers : \/ \E len \in 1..MaxLen : Write(w, len)
                                 \/ Flush(w) \/ Flushing(w) \/ Close(w)
           \/ \E r \in Readers : \/ \E len \in 1..MaxLen : Read(r, len)
                                 \/ Reading(r)

Spec == Init /\ [][Next]_vars

\* Threads inside a call run on.
FairSpec == /\ Spec
            /\ \A w \in Writers : WF_vars(~broken /\ Flushing(w))
            /\ \A r \in Readers : WF_vars(~broken /\ Reading(r))
-----------------------------------------------------------------------------
\* Every variable stays in its domain.
TypeOK ==
  /\ data \in Seq(0..MaxBytes)
  /\ rptr \in 0..(Granularity - 1) /\ wptr \in 0..(Granularity - 1)
  /\ datachunks \in Nat \ {0} /\ newdatawaiters \in 0..Cardinality(Readers)
  /\ newdata \in BOOLEAN /\ empty \in BOOLEAN /\ raw \in BOOLEAN
  /\ missed \in BOOLEAN /\ broken \in BOOLEAN /\ rough \in BOOLEAN
  /\ clients \in {1, 2} /\ p \in Writers \cup {Null}
  /\ at \in [Writers \cup Readers -> {"idle", "rawflush", "flushtest",
               "flushgap", "flushasleep", "flushed", "unlocked", "gap", "asleep", "woken", "polled"}]
  /\ want \in [Readers -> 0..MaxLen] /\ waiting \in [Readers -> 0..MaxLen]
  /\ sent \in 0..MaxBytes /\ got \in 0..MaxBytes
  /\ mark \in [Writers -> -1..MaxBytes]

\* The numbers in list q, which are not rubbish, are a + 1 to b, in order.
Numbers(q, a, b) ==
  /\ \A i, j \in 1..Len(q) : q[i] # 0 /\ q[j] # 0 /\ i < j => q[i] < q[j]
  /\ \A i \in 1..Len(q) : q[i] # 0 => q[i] \in (a + 1)..b
  /\ \A n \in (a + 1)..b : \E i \in 1..Len(q) : q[i] = n

\* However blocks lie on the chunks and whatever writeBlock() copies after them, for
\* any readers: what has been sent and nobody got is there, once and in order, and a
\* flush ends when all that was there before it has been read.
BytesInOrder == /\ clients = 2 => Numbers(Unread, got, sent)
                /\ \A w \in Writers : at[w] = "flushed" => mark[w] \in 0..got

\* It is the pipe that is promised, nothing is read but what was sent, as long as each
\* block fits (of one that does not writeBlock() copies more than its maxlen bytes),
\* one thread at a time is in readBlock() and none is when the end is closed (a second
\* one, or one after close(), reads what is gone).
Pipe == INSTANCE BytePipe WITH
          MaxWrite <- MaxLen,
          queue <- Unread,
          flush <- mark,
          lost <- clients < 2
ImplementsPipe ==
  Pipe!Init /\ [][~rough' => ~broken' /\ [Pipe!Next]_(Pipe!vars)]_vars

\* A reader for whom there is data returns, or another takes it, if readers wait one
\* at a time: the wake must neither come before it counts itself nor be undone by its
\* own reset().  (One that is counted and not asleep is missed, as in QWaitCondition;
\* two that wait may use up each other's wake; in raw mode the writer keeps the mutex
\* for ever.)
TakeTurns == Cardinality(InCall) <= 1
ReadersReturn == [](~missed /\ ~broken /\ ~Held /\ TakeTurns) => \A r \in Readers :
  (at[r] # "idle" /\ Len(data) > rptr) ~> (at[r] = "idle" \/ Len(data) = rptr)
=============================================================================
