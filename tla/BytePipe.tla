------------------------------ MODULE BytePipe ------------------------------
(***************************************************************************)
(* What a QLocalPipe promises in one direction: bytes are read once each   *)
(* and in the order they were written, a flush ends when what had been     *)
(* written before it has been read, and a close loses what has not been.   *)
(***************************************************************************)
EXTENDS Integers, Sequences

CONSTANTS Writers,
          MaxWrite   \* the length of the longest write

VARIABLES sent,   \* how many bytes have been written; they are numbered
          queue,  \* the bytes on the way
          got,    \* the number of the last byte read
          flush,  \* how much had been written when each flush began, or -1
          lost    \* the pipe is closed

vars == <<sent, queue, got, flush, lost>>

Init == /\ sent = 0 /\ queue = <<>> /\ got = 0
        /\ flush = [w \in Writers |-> -1]
        /\ lost = FALSE

Write(len) == /\ ~lost
              /\ queue' = queue \o [i \in 1..len |-> sent + i]
              /\ sent' = sent + len
              /\ UNCHANGED <<got, flush, lost>>

\* The bytes taken are numbered on from the last one read.
Read(len) == /\ \A i \in 1..len : queue[i] = got + i
             /\ queue' = SubSeq(queue, len + 1, Len(queue))
             /\ got' = got + len
             /\ UNCHANGED <<sent, flush, lost>>

FlushBegin(w) == /\ flush[w] = -1
                 /\ flush' = [flush EXCEPT ![w] = sent]
                 /\ UNCHANGED <<sent, queue, got, lost>>

FlushEnd(w) == /\ flush[w] # -1 /\ flush[w] <= got
               /\ flush' = [flush EXCEPT ![w] = -1]
               /\ UNCHANGED <<sent, queue, got, lost>>

Close == /\ lost' = TRUE /\ queue' = <<>>
         /\ UNCHANGED <<sent, got, flush>>

Next == \/ \E len \in 1..MaxWrite : Write(len)
        \/ \E len \in 1..Len(queue) : Read(len)
        \/ \E w \in Writers : FlushBegin(w) \/ FlushEnd(w)
        \/ Close
=============================================================================
