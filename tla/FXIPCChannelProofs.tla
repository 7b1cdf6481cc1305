------------------------- MODULE FXIPCChannelProofs -------------------------
(***************************************************************************)
(* For any number of callers, ids and messages: as long as no limited wait *)
(* was refused, every call whose message was sent ends with the peer's     *)
(* answer to that very call, or as lost once the channel is closing; and,  *)
(* whatever was refused, the table has one entry for each call under way.  *)
(***************************************************************************)
EXTENDS FXIPCChannel, FiniteSetTheorems, SequenceTheorems, WellFoundedInduction, TLAPS

Waiting(c) == at[c] \in {"pending", "gap", "asleep"}
Reply(c) == [kind |-> answer[c], caller |-> c, number |-> sends[c]]

Answers == [kind : Kinds, id : Ids, caller : Callers, number : 1..MaxSends]
Goodbye == [kind |-> "disconnect", id |-> 0]

\* What TypeOK leaves open: the shape of what the peer sends.
Shapes == TypeOK /\ toUs \in Seq(Answers \cup {Goodbye})

\* The table has one entry for each call under way, at the id of its message.
EntriesAgree ==
  /\ \A c \in Callers : Open(c) =>
       /\ id[c] \in Ids /\ msgs[id[c]] # Null /\ msgs[id[c]].caller = c
       /\ sends[c] > 0
  /\ \A i \in Ids : msgs[i] # Null =>
       Open(msgs[i].caller) /\ id[msgs[i].caller] = i

\* A wait condition to be used again is not signalled.
FreshConditions == \A j \in DOMAIN wcsFree : ~wcsFree[j]

\* Nobody looks at the wire once the monitor has stopped reading.
WireCut == monitor # "reading" => atPeer = {} /\ toUs = <<>>

\* m is about the present call of its caller, which nobody has woken yet.
Expected(m) ==
  /\ Waiting(m.caller) /\ m.id = id[m.caller] /\ m.number = sends[m.caller]
  /\ ~msgs[m.id].signalled

\* What is on the wire is wanted, and there is one message or answer to a call.
IsAnswer(j) == toUs[j].kind \in Kinds
WireAgrees ==
  /\ \A m \in atPeer : Expected(m) /\ answer[m.caller] = "none"
  /\ \A j \in DOMAIN toUs : IsAnswer(j) =>
       Expected(toUs[j]) /\ answer[toUs[j].caller] = toUs[j].kind
  /\ \A j, k \in DOMAIN toUs :
       IsAnswer(j) /\ IsAnswer(k) /\ toUs[j].caller = toUs[k].caller => j = k

\* What each caller may go on to find.
EndsAgree ==
  /\ \A c \in Callers : at[c] = "writing" =>
       answer[c] = "none" /\ (monitor = "reading" => ~msgs[id[c]].signalled)
  /\ \A c \in Callers : at[c] = "lost" => ~up
  /\ \A c \in Callers : at[c] = "woken" => msgs[id[c]].signalled

\* What a signalled entry's caller is to be told.
TellsOf(e) ==
  \/ e.error = Nothing /\ ack[e.caller] = Reply(e.caller) /\ answer[e.caller] = "ack"
  \/ /\ e.error = Reply(e.caller)
     /\ answer[e.caller] = "unhandled" \/ (answer[e.caller] = "error" /\ ErrorTrans)
  \/ /\ e.error = Nothing /\ ack[e.caller] = Nothing
     /\ answer[e.caller] = "error" /\ ~ErrorTrans
  \/ e.error = Lost /\ monitor = "ended"
EntriesTell ==
  \A i \in Ids : msgs[i] # Null =>
    IF msgs[i].signalled THEN TellsOf(msgs[i])
    ELSE msgs[i].error = Nothing /\ ack[msgs[i].caller] = Nothing

\* The inductive invariant.  A refused wait takes its entry away while the message
\* is still with the peer: what the wire and the entries say then holds no more.
IInv ==
  /\ Shapes /\ EntriesAgree /\ FreshConditions /\ WireCut
  /\ ~refused => WireAgrees /\ EndsAgree /\ EntriesTell
-----------------------------------------------------------------------------
\* TypeOK in two parts, so that the Booleans do not get in the way.
Domains ==
  /\ quit \in BOOLEAN /\ msgidcount \in 0..IdMax
  /\ msgs \in [Ids -> AckEntry \cup {Null}]
  /\ wcsFree \in Seq(BOOLEAN)
  /\ at \in [Callers -> Labels] /\ id \in [Callers -> 0..IdMax]
  /\ limited \in [Callers -> BOOLEAN] /\ sends \in [Callers -> 0..MaxSends]
  /\ ack \in [Callers -> Said \cup {Nothing}]
  /\ result \in [Callers -> Said \cup {Nothing, Lost, Failed}]
  /\ monitor \in {"reading", "cleanup", "closing", "ended"}
  /\ atPeer \subseteq [id : Ids, caller : Callers, number : 1..MaxSends]
  /\ toUs \in Seq(Answers \cup {Goodbye})
  /\ answer \in [Callers -> Kinds \cup {"none"}]
Flags ==
  up \in BOOLEAN /\ missed \in BOOLEAN /\ refused \in BOOLEAN /\ torn \in BOOLEAN

LEMMA SplitShapes == Shapes <=> Domains /\ Flags
  <1>1. {up, missed, refused, torn} \subseteq BOOLEAN <=> Flags
    BY Zenon DEF Flags
  <1>2. toUs \in Seq(Answers \cup {Goodbye}) => \A j \in DOMAIN toUs : toUs[j].id \in 0..IdMax
    <2> SUFFICES ASSUME toUs \in Seq(Answers \cup {Goodbye}), NEW j \in DOMAIN toUs
                 PROVE  toUs[j].id \in 0..IdMax
      OBVIOUS
    <2>1. toUs[j] \in Answers \cup {Goodbye}
      BY ElementOfSeq, LenProperties
    <2>2. QED
      BY <2>1, ChannelAssumption DEF Answers, Goodbye, Ids
  <1>3. QED
    BY <1>1, <1>2 DEF Shapes, TypeOK, Domains

\* The smallest element of a set of naturals.
LEMMA Smallest ==
  ASSUME NEW S, S \subseteq Nat, S # {}
  PROVE  \E x \in S : \A y \in S : x <= y
  <1>1. \E x \in S : \A y \in S : <<y, x>> \notin OpToRel(<, Nat)
    BY NatLessThanWellFounded, WFMin
  <1>2. \A x, y \in Nat : <<y, x>> \notin OpToRel(<, Nat) => x <= y
    BY DEF OpToRel
  <1>3. QED
    BY <1>1, <1>2

\* As long as a caller is idle there is an id that is not in use.
LEMMA SomeIdIsFree ==
  ASSUME Domains, EntriesAgree, NEW c \in Callers, at[c] = "idle"
  PROVE  \E i \in Ids : msgs[i] = Null
  <1> SUFFICES ASSUME \A i \in Ids : msgs[i] # Null PROVE FALSE
    OBVIOUS
  <1> DEFINE f == [i \in Ids |-> msgs[i].caller]
             others == Callers \ {c}
  <1>1. \A i \in Ids : msgs[i] \in AckEntry /\ f[i] = msgs[i].caller /\ f[i] \in Callers
    BY DEF Domains, AckEntry
  <1>2. \A i \in Ids : f[i] \in others /\ id[f[i]] = i
    BY <1>1 DEF EntriesAgree, Open
  <1>3. f \in [Ids -> others]
    BY <1>2
  <1>4. f \in Injection(Ids, others)
    BY <1>2, <1>3 DEF Injection, IsInjective
  <1>5. IsFiniteSet(others) /\ Cardinality(others) = Cardinality(Callers) - 1
        /\ Cardinality(Callers) \in Nat
    BY ChannelAssumption, FS_RemoveElement, FS_CardinalityType
  <1>6. Cardinality(Ids) <= Cardinality(others)
    BY <1>4, <1>5, FS_Injection
  <1>7. Cardinality(Ids) = IdMax
    BY ChannelAssumption, FS_Interval DEF Ids
  <1>8. QED
    BY <1>5, <1>6, <1>7, ChannelAssumption

\* int_makeUniqueMsgId() finds it.
LEMMA NextIdIsFree ==
  ASSUME Domains, EntriesAgree, NEW c \in Callers, at[c] = "idle"
  PROVE  NextId \in Ids /\ msgs[NextId] = Null
  <1> DEFINE free == {k \in 1..(IdMax + 1) : Unused(Ahead(k))}
  <1>1. msgidcount \in 0..IdMax /\ IdMax \in Nat
    BY ChannelAssumption DEF Domains
  <1>2. free # {}
    <2>1. PICK i \in Ids : msgs[i] = Null
      BY SomeIdIsFree
    <2>2. i \in 1..IdMax
      BY DEF Ids
    <2> DEFINE k == IF i > msgidcount THEN i - msgidcount ELSE i + (IdMax + 1) - msgidcount
    <2>3. k \in 1..(IdMax + 1) /\ (msgidcount + k = i \/ msgidcount + k = i + (IdMax + 1))
      BY <1>1, <2>2
    <2>4. i % (IdMax + 1) = i /\ (i + (IdMax + 1)) % (IdMax + 1) = i
      BY <1>1, <2>2
    <2>5. Ahead(k) = i
      BY <2>3, <2>4 DEF Ahead
    <2>6. QED
      BY <2>1, <2>2, <2>3, <2>5 DEF Unused
  <1>3. PICK k \in free : \A l \in free : k <= l
    <2>1. free \subseteq Nat
      BY <1>1
    <2>2. QED
      BY <1>2, <2>1, Smallest
  <1>4. \A l \in 1..(k - 1) : ~Unused(Ahead(l))
    BY <1>1, <1>3
  <1>5. \E l \in 1..(IdMax + 1) : Unused(Ahead(l)) /\ \A j \in 1..(l - 1) : ~Unused(Ahead(j))
    BY <1>3, <1>4
  <1>6. \E l \in 1..(IdMax + 1) : NextId = Ahead(l) /\ Unused(Ahead(l))
    BY <1>5 DEF NextId
  <1>7. NextId \in 0..IdMax /\ Unused(NextId)
    <2>1. \A l \in 1..(IdMax + 1) : Ahead(l) \in 0..IdMax
      BY <1>1 DEF Ahead
    <2>2. QED
      BY <1>6, <2>1
  <1>8. QED
    BY <1>1, <1>7 DEF Unused, Ids

\* The bound on the messages sent in all is one on the messages of each caller.
LEMMA SentBounds ==
  ASSUME Domains, NEW c \in Callers, Cardinality(Sent) < MaxSends
  PROVE  sends[c] < MaxSends
  <1> SUFFICES ASSUME sends[c] = MaxSends PROVE FALSE
    BY ChannelAssumption DEF Domains
  <1> DEFINE own == {c} \X (1..MaxSends)
  <1>1. own \subseteq Sent
    BY ChannelAssumption DEF Sent
  <1>2. IsFiniteSet({c}) /\ Cardinality({c}) = 1
    BY FS_Singleton
  <1>3. IsFiniteSet(1..MaxSends) /\ Cardinality(1..MaxSends) = MaxSends
    BY ChannelAssumption, FS_Interval
  <1>4. Cardinality(own) = MaxSends
    BY <1>2, <1>3, FS_Product, ChannelAssumption
  <1>5. IsFiniteSet(Callers \X (1..MaxSends))
    BY <1>3, FS_Product, ChannelAssumption
  <1>6. IsFiniteSet(Sent) /\ Cardinality(Sent) \in Nat
    BY <1>5, FS_Subset, FS_CardinalityType DEF Sent
  <1>7. Cardinality(own) <= Cardinality(Sent)
    BY <1>1, <1>6, FS_Subset
  <1>8. QED
    BY <1>4, <1>6, <1>7, ChannelAssumption
-----------------------------------------------------------------------------
\* The parts that hold whatever was refused, and the others.
Base == Domains /\ EntriesAgree /\ FreshConditions /\ WireCut
Rest == WireAgrees /\ EndsAgree /\ EntriesTell
IInvD == Flags /\ Base /\ (~refused => Rest)

LEMMA StepFlags == Flags /\ Next => Flags'
  <1> SUFFICES ASSUME Flags, Next PROVE Flags'
    OBVIOUS
  <1>1. Removing \in BOOLEAN /\ Locked \in BOOLEAN
    BY DEF Removing, Locked
  <1>2. ASSUME NEW c \in Callers, Send(c) \/ SendTooBig(c) PROVE Flags'
    BY <1>1, <1>2 DEF Send, SendTooBig, Number, Flags
  <1>3. ASSUME NEW c \in Callers, Call(c) PROVE Flags'
    <2>1. CASE Write(c) \/ WriteThrows(c) \/ Unwound(c) \/ WaitSleep(c) \/ Timeout(c)
      BY <2>1 DEF Write, WriteThrows, Unwound, WaitSleep, Timeout, wire, Flags
    <2>2. CASE GetMsgAck(c) \/ TakeAck(c)
      BY <1>1, <2>2 DEF GetMsgAck, TakeAck, wire, Flags
    <2>3. CASE Unwind(c)
      BY <1>1, <2>3 DEF Unwind, wire, Flags
    <2>4. CASE WaitRefused(c)
      BY <2>4 DEF WaitRefused, wire, Flags
    <2>5. QED
      BY <1>3, <2>1, <2>2, <2>3, <2>4 DEF Call
  <1>4. ASSUME NEW I, Wake(I) PROVE missed' \in BOOLEAN
    BY <1>4 DEF Wake
  <1>5. CASE Receive
    BY <1>1, <1>4, <1>5 DEF Receive, Deliver, Flags
  <1>6. CASE CleanupTell
    BY <1>4, <1>6 DEF CleanupTell, wire, Flags
  <1>7. CASE CleanupLock
    BY <1>1, <1>7 DEF CleanupLock, wire, Flags
  <1>8. CASE ReceiveDisconnect \/ ReceiveQuit \/ ReadLost \/ Leave \/ RequestClose \/ Peer
    BY <1>8 DEF ReceiveDisconnect, ReceiveQuit, ReadLost, Leave, RequestClose, Peer,
                PeerAnswer, PeerDisconnect, Break, wire, Flags
  <1>9. QED
    BY <1>2, <1>3, <1>5, <1>6, <1>7, <1>8 DEF Next, Monitor

\* The table as long as nobody begins or ends a call.
LEMMA TableStays ==
  ASSUME Domains, EntriesAgree, msgs' \in [Ids -> AckEntry \cup {Null}],
         \A i \in Ids : /\ msgs'[i] = Null <=> msgs[i] = Null
                        /\ msgs[i] # Null => msgs'[i].caller = msgs[i].caller,
         \A c \in Callers : at'[c] = "idle" <=> at[c] = "idle",
         UNCHANGED <<id, sends>>
  PROVE  EntriesAgree'
  <1>1. \A i \in Ids : msgs[i] # Null => msgs[i].caller \in Callers
    BY DEF Domains, AckEntry
  <1>2. QED
    BY <1>1 DEF EntriesAgree, Open

LEMMA WireCallers ==
  ASSUME Domains
  PROVE  /\ \A m \in atPeer : m.caller \in Callers /\ m.id \in Ids
         /\ \A j \in DOMAIN toUs : IsAnswer(j) => toUs[j] \in Answers
         /\ \A j \in DOMAIN toUs : IsAnswer(j) => toUs[j].caller \in Callers
  <1>1. \A j \in DOMAIN toUs : toUs[j] \in Answers \cup {Goodbye}
    BY ElementOfSeq, LenProperties DEF Domains
  <1>2. QED
    BY <1>1 DEF Domains, Answers, Goodbye, IsAnswer, Kinds

LEMMA FreshTail ==
  ASSUME NEW s \in Seq(BOOLEAN), s # <<>>, \A j \in DOMAIN s : ~s[j]
  PROVE  /\ ~Head(s) /\ Tail(s) \in Seq(BOOLEAN)
         /\ \A j \in DOMAIN Tail(s) : ~Tail(s)[j]
  <1>1. DOMAIN s = 1..Len(s) /\ Len(s) \in Nat /\ Len(s) > 0
    BY LenProperties, EmptySeq
  <1>2. /\ Head(s) = s[1] /\ Tail(s) \in Seq(BOOLEAN) /\ Len(Tail(s)) = Len(s) - 1
        /\ \A j \in 1..Len(Tail(s)) : Tail(s)[j] = s[j + 1]
    BY HeadTailProperties
  <1>3. DOMAIN Tail(s) = 1..(Len(s) - 1)
    BY <1>1, <1>2, LenProperties
  <1>4. \A j \in 1..(Len(s) - 1) : ~s[j + 1]
    BY <1>1
  <1>5. ~s[1]
    BY <1>1
  <1>6. QED
    BY <1>1, <1>2, <1>3, <1>4, <1>5

LEMMA FreshAppend ==
  ASSUME NEW s \in Seq(BOOLEAN), \A j \in DOMAIN s : ~s[j]
  PROVE  Append(s, FALSE) \in Seq(BOOLEAN)
         /\ \A j \in DOMAIN Append(s, FALSE) : ~Append(s, FALSE)[j]
  <1>1. FALSE \in BOOLEAN
    OBVIOUS
  <1>2. /\ Append(s, FALSE) \in Seq(BOOLEAN) /\ Len(Append(s, FALSE)) = Len(s) + 1
        /\ \A j \in 1..Len(s) : Append(s, FALSE)[j] = s[j]
        /\ Append(s, FALSE)[Len(s) + 1] = FALSE
    BY <1>1, AppendProperties
  <1>3. DOMAIN s = 1..Len(s) /\ Len(s) \in Nat /\ DOMAIN Append(s, FALSE) = 1..(Len(s) + 1)
    BY <1>2, LenProperties
  <1>4. ~Append(s, FALSE)[Len(s) + 1]
    BY <1>2
  <1>5. \A j \in 1..Len(s) : ~Append(s, FALSE)[j]
    BY <1>2, <1>3
  <1>6. \A j \in 1..(Len(s) + 1) : j \in 1..Len(s) \/ j = Len(s) + 1
    BY <1>3
  <1>7. QED
    BY <1>2, <1>3, <1>4, <1>5, <1>6

\* The wait conditions that are left when one has been taken.
LEMMA FreshRest ==
  ASSUME Domains, FreshConditions
  PROVE  /\ RestOf(wcsFree) \in Seq(BOOLEAN)
         /\ \A j \in DOMAIN RestOf(wcsFree) : ~RestOf(wcsFree)[j]
         /\ (wcsFree # <<>> /\ Head(wcsFree)) = FALSE
  <1>1. wcsFree \in Seq(BOOLEAN) /\ \A j \in DOMAIN wcsFree : ~wcsFree[j]
    BY DEF Domains, FreshConditions
  <1>2. CASE wcsFree = <<>>
    BY <1>1, <1>2 DEF RestOf
  <1>3. CASE wcsFree # <<>>
    <2>1. /\ ~Head(wcsFree) /\ Tail(wcsFree) \in Seq(BOOLEAN)
          /\ \A j \in DOMAIN Tail(wcsFree) : ~Tail(wcsFree)[j]
      BY <1>1, <1>3, FreshTail
    <2>2. QED
      BY <1>3, <2>1 DEF RestOf
  <1>4. QED
    BY <1>2, <1>3

\* What Send() and SendTooBig() share.
LEMMA NumberFacts ==
  ASSUME Domains, EntriesAgree, NEW c \in Callers, Number(c)
  PROVE  /\ at[c] = "idle" /\ NextId \in Ids /\ NextId \in 0..IdMax /\ msgs[NextId] = Null
         /\ msgidcount' = NextId /\ id' = [id EXCEPT ![c] = NextId]
         /\ sends[c] < MaxSends /\ sends[c] \in Nat
         /\ sends' = [sends EXCEPT ![c] = @ + 1]
         /\ answer' = [answer EXCEPT ![c] = "none"]
         /\ ack' = [ack EXCEPT ![c] = Nothing]
         /\ UNCHANGED <<quit, limited, monitor, up, atPeer, toUs, missed, refused>>
  <1>1. /\ at[c] = "idle" /\ Cardinality(Sent) < MaxSends
        /\ msgidcount' = NextId /\ id' = [id EXCEPT ![c] = NextId]
        /\ sends' = [sends EXCEPT ![c] = @ + 1]
        /\ answer' = [answer EXCEPT ![c] = "none"]
        /\ ack' = [ack EXCEPT ![c] = Nothing]
        /\ UNCHANGED <<quit, limited, monitor, up, atPeer, toUs, missed, refused>>
    BY DEF Number
  <1>2. NextId \in Ids /\ msgs[NextId] = Null
    BY <1>1, NextIdIsFree
  <1>3. Ids \subseteq 0..IdMax
    BY ChannelAssumption DEF Ids
  <1>4. sends[c] < MaxSends /\ sends[c] \in Nat
    BY <1>1, SentBounds DEF Domains
  <1>5. QED
    BY <1>1, <1>2, <1>3, <1>4

\* The new entry of Send().
LEMMA SendFacts ==
  ASSUME Domains, FreshConditions, NEW c \in Callers, Send(c)
  PROVE  \E e \in AckEntry :
           /\ e = [caller |-> c, error |-> Nothing, signalled |-> FALSE] /\ e # Null
           /\ msgs' = [msgs EXCEPT ![NextId] = e]
           /\ at' = [at EXCEPT ![c] = "writing"]
           /\ result' = [result EXCEPT ![c] = Nothing]
           /\ wcsFree' = RestOf(wcsFree)
  <1>1. PICK e : e = [caller |-> c, error |-> Nothing, signalled |-> FALSE]
    OBVIOUS
  <1>2. e \in AckEntry /\ e # Null
    <2>1. FALSE \in BOOLEAN /\ Nothing \in Said \cup {Nothing, Lost}
      OBVIOUS
    <2>2. e \in AckEntry
      BY <1>1, <2>1, Zenon DEF AckEntry
    <2>3. QED
      BY <2>2, NullAssumption
  <1>3. (wcsFree # <<>> /\ Head(wcsFree)) = FALSE
    BY FreshRest
  <1>4. QED
    BY <1>1, <1>2, <1>3 DEF Send, Goto

LEMMA SendBase ==
  ASSUME Base, NEW c \in Callers, Send(c) \/ SendTooBig(c)
  PROVE  Base'
  <1>1. Domains /\ EntriesAgree /\ FreshConditions /\ WireCut /\ Number(c)
    BY DEF Base, Send, SendTooBig
  <1>2. PICK n \in Ids : n = NextId /\ n \in 0..IdMax /\ msgs[n] = Null
    BY <1>1, NumberFacts
  <1>3. /\ at[c] = "idle" /\ msgidcount' = n /\ id' = [id EXCEPT ![c] = n]
        /\ sends[c] < MaxSends /\ sends[c] \in Nat
        /\ sends' = [sends EXCEPT ![c] = @ + 1]
        /\ answer' = [answer EXCEPT ![c] = "none"]
        /\ ack' = [ack EXCEPT ![c] = Nothing]
        /\ UNCHANGED <<quit, limited, monitor, up, atPeer, toUs, missed, refused>>
    BY <1>1, <1>2, NumberFacts
  <1>4. CASE Send(c)
    <2>1. PICK e \in AckEntry :
            /\ e = [caller |-> c, error |-> Nothing, signalled |-> FALSE] /\ e # Null
            /\ msgs' = [msgs EXCEPT ![n] = e]
            /\ at' = [at EXCEPT ![c] = "writing"]
            /\ result' = [result EXCEPT ![c] = Nothing]
            /\ wcsFree' = RestOf(wcsFree)
      BY <1>1, <1>2, <1>4, SendFacts
    <2>2. wcsFree' \in Seq(BOOLEAN) /\ FreshConditions'
      BY <1>1, <2>1, FreshRest DEF FreshConditions
    <2>3. Domains'
      BY <1>1, <1>2, <1>3, <2>1, <2>2, ChannelAssumption DEF Domains, Labels
    <2>4. EntriesAgree'
      BY <1>1, <1>2, <1>3, <2>1 DEF Domains, EntriesAgree, Open
    <2>5. WireCut'
      BY <1>1, <1>3 DEF WireCut
    <2>6. QED
      BY <2>2, <2>3, <2>4, <2>5 DEF Base
  <1>5. CASE SendTooBig(c)
    <2>1. /\ wcsFree' = Append(RestOf(wcsFree), FALSE)
          /\ result' = [result EXCEPT ![c] = Failed]
          /\ UNCHANGED <<msgs, at>>
      BY <1>5 DEF SendTooBig
    <2>2. wcsFree' \in Seq(BOOLEAN) /\ FreshConditions'
      BY <1>1, <2>1, FreshRest, FreshAppend DEF FreshConditions
    <2>3. Domains'
      BY <1>1, <1>2, <1>3, <2>1, <2>2, ChannelAssumption DEF Domains, Labels
    <2>4. EntriesAgree'
      BY <1>1, <1>2, <1>3, <2>1 DEF Domains, EntriesAgree, Open
    <2>5. WireCut'
      BY <1>1, <1>3 DEF WireCut
    <2>6. QED
      BY <2>2, <2>3, <2>4, <2>5 DEF Base
  <1>6. QED
    BY <1>4, <1>5

LEMMA SendRest ==
  ASSUME Base, Rest, NEW c \in Callers, Send(c) \/ SendTooBig(c)
  PROVE  Rest'
  <1>1. /\ Domains /\ EntriesAgree /\ FreshConditions /\ Number(c)
        /\ WireAgrees /\ EndsAgree /\ EntriesTell
    BY DEF Base, Rest, Send, SendTooBig
  <1>2. PICK n \in Ids : n = NextId /\ msgs[n] = Null
    BY <1>1, NumberFacts
  <1>3. /\ at[c] = "idle" /\ id' = [id EXCEPT ![c] = n]
        /\ sends' = [sends EXCEPT ![c] = @ + 1]
        /\ answer' = [answer EXCEPT ![c] = "none"]
        /\ ack' = [ack EXCEPT ![c] = Nothing]
        /\ UNCHANGED <<monitor, up, atPeer, toUs>>
    BY <1>1, <1>2, NumberFacts
  <1>4. CASE Send(c)
    <2>1. PICK e \in AckEntry :
            /\ e = [caller |-> c, error |-> Nothing, signalled |-> FALSE] /\ e # Null
            /\ msgs' = [msgs EXCEPT ![n] = e]
            /\ at' = [at EXCEPT ![c] = "writing"]
      BY <1>1, <1>2, <1>4, SendFacts
    <2>2. WireAgrees'
      <3>1. \A m : Expected(m) /\ m.caller \in Callers => m.caller # c /\ m.id # n /\ Expected(m)'
        BY <1>1, <1>2, <1>3, <2>1 DEF Domains, EntriesAgree, Open, Expected, Waiting
      <3>2. QED
        BY <1>1, <1>3, <3>1, WireCallers DEF WireAgrees, IsAnswer
    <2>3. EndsAgree'
      BY <1>1, <1>2, <1>3, <2>1 DEF Domains, EntriesAgree, EndsAgree, Open
    <2>4. EntriesTell'
      <3>1. \A i \in Ids : i # n /\ msgs[i] # Null => msgs[i].caller \in Callers /\ msgs[i].caller # c
        BY <1>1, <1>3 DEF Domains, EntriesAgree, Open, AckEntry
      <3>2. QED
        BY <1>1, <1>2, <1>3, <2>1, <3>1 DEF Domains, EntriesTell, TellsOf, Reply
    <2>5. QED
      BY <2>2, <2>3, <2>4 DEF Rest
  <1>5. CASE SendTooBig(c)
    <2>1. UNCHANGED <<msgs, at>>
      BY <1>5 DEF SendTooBig
    <2>2. WireAgrees'
      <3>1. \A m : Expected(m) /\ m.caller \in Callers => m.caller # c /\ Expected(m)'
        BY <1>1, <1>3, <2>1 DEF Domains, Expected, Waiting
      <3>2. QED
        BY <1>1, <1>3, <3>1, WireCallers DEF WireAgrees, IsAnswer
    <2>3. EndsAgree'
      BY <1>1, <1>3, <2>1 DEF Domains, EndsAgree
    <2>4. EntriesTell'
      <3>1. \A i \in Ids : msgs[i] # Null => msgs[i].caller \in Callers /\ msgs[i].caller # c
        BY <1>1, <1>3 DEF Domains, EntriesAgree, Open, AckEntry
      <3>2. QED
        BY <1>1, <1>3, <2>1, <3>1 DEF Domains, EntriesTell, TellsOf, Reply
    <2>5. QED
      BY <2>2, <2>3, <2>4 DEF Rest
  <1>6. QED
    BY <1>4, <1>5
-----------------------------------------------------------------------------
\* A step of caller c that leaves the table alone.
LEMMA AtBase ==
  ASSUME Base, NEW c \in Callers, NEW l \in Labels \ {"idle"}, at[c] # "idle",
         at' = [at EXCEPT ![c] = l], quit' \in BOOLEAN, limited' \in [Callers -> BOOLEAN],
         result' \in [Callers -> Said \cup {Nothing, Lost, Failed}],
         atPeer' \subseteq [id : Ids, caller : Callers, number : 1..MaxSends],
         monitor # "reading" => atPeer' = {},
         UNCHANGED <<msgidcount, msgs, wcsFree, id, ack, sends, toUs, answer, monitor>>
  PROVE  Base'
  <1>1. Domains /\ EntriesAgree /\ FreshConditions /\ WireCut
    BY DEF Base
  <1>2. Domains'
    BY <1>1 DEF Domains
  <1>3. EntriesAgree'
    <2>1. \A d \in Callers : at'[d] = "idle" <=> at[d] = "idle"
      BY <1>1 DEF Domains
    <2>2. msgs' \in [Ids -> AckEntry \cup {Null}]
      BY <1>1 DEF Domains
    <2>3. QED
      BY <1>1, <2>1, <2>2, TableStays
  <1>4. FreshConditions' /\ WireCut'
    BY <1>1 DEF FreshConditions, WireCut
  <1>5. QED
    BY <1>2, <1>3, <1>4 DEF Base

LEMMA AtRest ==
  ASSUME Base, Rest, NEW c \in Callers, NEW l \in Labels \ {"idle", "writing"},
         at' = [at EXCEPT ![c] = l],
         UNCHANGED <<msgs, id, ack, sends, up, atPeer, toUs, answer, monitor>>,
         Waiting(c) => \/ l \in {"pending", "gap", "asleep"}
                       \/ l = "woken" /\ msgs[id[c]].signalled,
         ~Waiting(c) => l \in {"failed", "removing"} \/ (l = "lost" /\ ~up)
  PROVE  Rest'
  <1>1. Domains /\ WireAgrees /\ EndsAgree /\ EntriesTell
    BY DEF Base, Rest
  <1>2. WireAgrees'
    <2>1. \A m : m.caller \in Callers /\ Expected(m) => Expected(m)'
      BY <1>1 DEF Domains, Expected, Waiting
    <2>2. QED
      BY <1>1, <2>1, WireCallers DEF WireAgrees, IsAnswer
  <1>3. EndsAgree'
    BY <1>1 DEF Domains, EndsAgree, Waiting
  <1>4. EntriesTell'
    BY <1>1 DEF EntriesTell, TellsOf, Reply
  <1>5. QED
    BY <1>2, <1>3, <1>4 DEF Rest

\* The steps of a caller whose entry stays as it is.
LEMMA CallBase ==
  ASSUME Base, NEW c \in Callers,
         \/ Write(c) \/ WriteThrows(c) \/ Unwind(c) \/ GetMsgAck(c)
         \/ WaitSleep(c) \/ WaitRefused(c) \/ Timeout(c)
  PROVE  Base'
  <1>1. Domains /\ EntriesAgree /\ WireCut
    BY DEF Base
  <1>2. /\ at[c] # "idle" /\ quit' \in BOOLEAN
        /\ UNCHANGED <<msgidcount, msgs, wcsFree, id, ack, sends, toUs, answer, monitor>>
    BY <1>1 DEF Domains, Write, WriteThrows, Unwind, GetMsgAck, WaitSleep, WaitRefused, Timeout,
                channel, wire
  <1>3. limited' \in [Callers -> BOOLEAN]
    BY <1>1 DEF Domains, Write, WriteThrows, Unwind, GetMsgAck, WaitSleep, WaitRefused, Timeout
  <1>4. result' \in [Callers -> Said \cup {Nothing, Lost, Failed}]
    BY <1>1 DEF Domains, Write, WriteThrows, Unwind, GetMsgAck, WaitSleep, WaitRefused, Timeout
  <1>5. PICK l \in Labels \ {"idle"} : at' = [at EXCEPT ![c] = l]
    BY DEF Write, WriteThrows, Unwind, GetMsgAck, WaitSleep, WaitRefused, Timeout, Goto, Labels
  <1>6. /\ atPeer' \subseteq [id : Ids, caller : Callers, number : 1..MaxSends]
        /\ monitor # "reading" => atPeer' = {}
    <2>1. CASE Write(c)
      <3>1. id[c] \in Ids /\ sends[c] \in 1..MaxSends
        BY <1>1, <1>2, ChannelAssumption DEF Domains, EntriesAgree, Open
      <3>2. QED
        BY <1>1, <2>1, <3>1 DEF Domains, Write
    <2>2. CASE ~Write(c)
      <3>1. atPeer' = atPeer
        BY <2>2 DEF WriteThrows, Unwind, GetMsgAck, WaitSleep, WaitRefused, Timeout, wire
      <3>2. QED
        BY <1>1, <3>1 DEF Domains, WireCut
    <2>3. QED
      BY <2>1, <2>2
  <1>7. QED
    BY <1>2, <1>3, <1>4, <1>5, <1>6, AtBase

LEMMA WaitsRest ==
  ASSUME Base, Rest, NEW c \in Callers, ~refused',
         \/ WriteThrows(c) \/ Unwind(c) \/ GetMsgAck(c)
         \/ WaitSleep(c) \/ WaitRefused(c) \/ Timeout(c)
  PROVE  Rest'
  <1>1. UNCHANGED <<msgs, id, ack, sends, up, atPeer, toUs, answer, monitor>>
    BY DEF WriteThrows, Unwind, GetMsgAck, WaitSleep, WaitRefused, Timeout, channel, wire
  <1>2. CASE WriteThrows(c) \/ Unwind(c)
    <2>1. ~Waiting(c)
      BY <1>2 DEF WriteThrows, Unwind, Waiting
    <2>2. PICK l \in Labels \ {"idle", "writing"} :
            at' = [at EXCEPT ![c] = l] /\ (l \in {"failed", "removing"} \/ (l = "lost" /\ ~up))
      BY <1>2 DEF WriteThrows, Unwind, Goto, Labels
    <2>3. QED
      BY <1>1, <2>1, <2>2, AtRest
  <1>3. CASE GetMsgAck(c) \/ WaitSleep(c) \/ WaitRefused(c) \/ Timeout(c)
    <2>1. Waiting(c)
      BY <1>3 DEF GetMsgAck, WaitSleep, WaitRefused, Timeout, Waiting
    <2>2. WaitRefused(c) => msgs[id[c]].signalled
      BY DEF WaitRefused
    <2>3. PICK l \in Labels \ {"idle", "writing"} :
            /\ at' = [at EXCEPT ![c] = l]
            /\ l \in {"pending", "gap", "asleep"} \/ (l = "woken" /\ msgs[id[c]].signalled)
      BY <1>3, <2>2 DEF GetMsgAck, WaitSleep, WaitRefused, Timeout, Goto, Labels
    <2>4. QED
      BY <1>1, <2>1, <2>3, AtRest
  <1>4. QED
    BY <1>2, <1>3

LEMMA WriteRest ==
  ASSUME Base, Rest, NEW c \in Callers, Write(c)
  PROVE  Rest'
  <1>1. Domains /\ WireCut /\ WireAgrees /\ EndsAgree /\ EntriesTell
    BY DEF Base, Rest
  <1>2. PICK m : m = [id |-> id[c], caller |-> c, number |-> sends[c]]
    OBVIOUS
  <1>3. /\ at[c] = "writing" /\ at' = [at EXCEPT ![c] = "pending"]
        /\ atPeer' = IF monitor # "reading" THEN {} ELSE atPeer \cup {m}
        /\ UNCHANGED <<msgs, id, ack, sends, up, toUs, answer, monitor>>
    BY <1>2 DEF Write, Goto, channel
  <1>4. WireAgrees'
    <2>1. \A n : n.caller \in Callers /\ Expected(n) => Expected(n)'
      BY <1>1, <1>3 DEF Domains, Expected, Waiting
    <2>2. monitor = "reading" => Expected(m)' /\ answer[c] = "none"
      BY <1>1, <1>2, <1>3 DEF Domains, Expected, Waiting, EndsAgree
    <2>3. QED
      BY <1>1, <1>2, <1>3, <2>1, <2>2, WireCallers DEF WireAgrees, IsAnswer
  <1>5. EndsAgree'
    BY <1>1, <1>3 DEF Domains, EndsAgree
  <1>6. EntriesTell'
    BY <1>1, <1>3 DEF EntriesTell, TellsOf, Reply
  <1>7. QED
    BY <1>4, <1>5, <1>6 DEF Rest

\* The call ends: its entry is removed.
LEMMA RemoveBase ==
  ASSUME Base, NEW c \in Callers, at[c] \in {"removing", "woken"},
         RemoveAck(c), at' = [at EXCEPT ![c] = "idle"],
         result' \in [Callers -> Said \cup {Nothing, Lost, Failed}],
         limited' \in [Callers -> BOOLEAN],
         UNCHANGED <<quit, msgidcount, id, ack, sends, atPeer, toUs, answer, monitor>>
  PROVE  Base'
  <1>1. Domains /\ EntriesAgree /\ FreshConditions /\ WireCut
    BY DEF Base
  <1>2. /\ wcsFree' = Append(wcsFree, FALSE) /\ msgs' = [msgs EXCEPT ![id[c]] = Null]
    BY DEF RemoveAck, WcAfterUse
  <1>3. wcsFree' \in Seq(BOOLEAN) /\ FreshConditions'
    BY <1>1, <1>2, FreshAppend DEF Domains, FreshConditions
  <1>4. id[c] \in Ids
    BY <1>1 DEF Domains, EntriesAgree, Open
  <1>5. Domains'
    BY <1>1, <1>2, <1>3, <1>4 DEF Domains, Labels
  <1>6. \A i \in Ids : msgs[i] # Null => msgs[i].caller \in Callers
    BY <1>1 DEF Domains, AckEntry
  <1>7. \A i \in Ids : i # id[c] /\ msgs[i] # Null => msgs[i].caller # c
    BY <1>1 DEF EntriesAgree
  <1>8. \A d \in Callers : d # c /\ Open(d) => id[d] # id[c]
    BY <1>1 DEF EntriesAgree, Open
  <1>9. EntriesAgree'
    BY <1>1, <1>2, <1>4, <1>6, <1>7, <1>8 DEF Domains, EntriesAgree, Open
  <1>10. WireCut'
    BY <1>1 DEF WireCut
  <1>11. QED
    BY <1>3, <1>5, <1>9, <1>10 DEF Base

LEMMA RemoveRest ==
  ASSUME Base, Rest, NEW c \in Callers, at[c] \in {"removing", "woken"},
         RemoveAck(c), at' = [at EXCEPT ![c] = "idle"],
         UNCHANGED <<id, ack, sends, up, atPeer, toUs, answer, monitor>>
  PROVE  Rest'
  <1>1. Domains /\ EntriesAgree /\ WireAgrees /\ EndsAgree /\ EntriesTell
    BY DEF Base, Rest
  <1>2. msgs' = [msgs EXCEPT ![id[c]] = Null] /\ id[c] \in Ids
    BY <1>1 DEF RemoveAck, EntriesAgree, Open
  <1>3. \A d \in Callers : d # c /\ Open(d) => id[d] # id[c]
    BY <1>1 DEF EntriesAgree, Open
  <1>4. WireAgrees'
    <2>1. \A m : m.caller \in Callers /\ Expected(m) => Expected(m)'
      BY <1>1, <1>2, <1>3 DEF Domains, EntriesAgree, Expected, Waiting, Open
    <2>2. QED
      BY <1>1, <1>2, <2>1, WireCallers DEF WireAgrees, IsAnswer
  <1>5. EndsAgree'
    BY <1>1, <1>2, <1>3 DEF Domains, EntriesAgree, EndsAgree, Open
  <1>6. EntriesTell'
    BY <1>1, <1>2 DEF Domains, EntriesTell, TellsOf, Reply
  <1>7. QED
    BY <1>4, <1>5, <1>6 DEF Rest

LEMMA EndsBase ==
  ASSUME Base, NEW c \in Callers, Unwound(c) \/ TakeAck(c)
  PROVE  Base'
  <1>1. Domains /\ EntriesAgree
    BY DEF Base
  <1>2. /\ at[c] \in {"removing", "woken"} /\ RemoveAck(c) /\ at' = [at EXCEPT ![c] = "idle"]
        /\ UNCHANGED <<quit, msgidcount, id, ack, sends, atPeer, toUs, answer, monitor>>
    BY DEF Unwound, TakeAck, Goto, wire
  <1>3. limited' \in [Callers -> BOOLEAN]
    BY <1>1 DEF Unwound, TakeAck, Domains
  <1>4. result' \in [Callers -> Said \cup {Nothing, Lost, Failed}]
    <2>1. id[c] \in Ids /\ msgs[id[c]] \in AckEntry
      BY <1>1, <1>2 DEF Domains, EntriesAgree, Open
    <2>2. ResultOf(c) \in Said \cup {Nothing, Lost, Failed}
      BY <1>1, <2>1 DEF Domains, ResultOf, AckEntry
    <2>3. QED
      BY <1>1, <2>2 DEF Unwound, TakeAck, Domains
  <1>5. QED
    BY <1>2, <1>3, <1>4, RemoveBase

LEMMA EndsRest ==
  ASSUME Base, Rest, NEW c \in Callers, Unwound(c) \/ TakeAck(c)
  PROVE  Rest'
  <1>1. /\ at[c] \in {"removing", "woken"} /\ RemoveAck(c) /\ at' = [at EXCEPT ![c] = "idle"]
        /\ UNCHANGED <<id, ack, sends, up, atPeer, toUs, answer, monitor>>
    BY DEF Unwound, TakeAck, Goto, wire
  <1>2. QED
    BY <1>1, RemoveRest
-----------------------------------------------------------------------------
\* Steps of the monitor that tell entries something.
LEMMA ToldIsEntry ==
  ASSUME NEW e \in AckEntry, NEW x \in Said \cup {Nothing, Lost}
  PROVE  /\ Told(e, x) \in AckEntry /\ Told(e, x) # Null
         /\ Told(e, x).caller = e.caller /\ e.caller \in Callers
         /\ Told(e, x).signalled /\ Told(e, x).error = x
  <1>1. TRUE \in BOOLEAN /\ e.caller \in Callers
    BY DEF AckEntry
  <1>2. Told(e, x) \in AckEntry
    BY <1>1, Zenon DEF AckEntry, Told
  <1>3. QED
    BY <1>1, <1>2, NullAssumption DEF Told

\* The answer at the head of the wire.
LEMMA HeadFacts ==
  ASSUME Domains, toUs # <<>>, Head(toUs).kind \in Kinds
  PROVE  /\ Head(toUs) = toUs[1] /\ Head(toUs) \in Answers
         /\ DOMAIN toUs = 1..Len(toUs) /\ Len(toUs) \in Nat /\ Len(toUs) > 0
         /\ Tail(toUs) \in Seq(Answers \cup {Goodbye})
         /\ DOMAIN Tail(toUs) = 1..(Len(toUs) - 1)
         /\ \A j \in 1..(Len(toUs) - 1) : Tail(toUs)[j] = toUs[j + 1]
  <1>1. toUs \in Seq(Answers \cup {Goodbye})
    BY DEF Domains
  <1>2. /\ DOMAIN toUs = 1..Len(toUs) /\ Len(toUs) \in Nat /\ Len(toUs) > 0
        /\ Head(toUs) = toUs[1]
    BY <1>1, LenProperties, EmptySeq
  <1>3. /\ Tail(toUs) \in Seq(Answers \cup {Goodbye}) /\ Len(Tail(toUs)) = Len(toUs) - 1
        /\ \A j \in 1..(Len(toUs) - 1) : Tail(toUs)[j] = toUs[j + 1]
    BY <1>1, HeadTailProperties
  <1>4. DOMAIN Tail(toUs) = 1..(Len(toUs) - 1)
    BY <1>2, <1>3, LenProperties
  <1>5. Head(toUs) \in Answers
    <2>1. 1 \in DOMAIN toUs /\ IsAnswer(1)
      BY <1>2 DEF IsAnswer
    <2>2. QED
      BY <1>2, <2>1, WireCallers
  <1>6. QED
    BY <1>2, <1>3, <1>4, <1>5

\* What Deliver() does to the table, its acks and its callers.
LEMMA DeliverFacts ==
  ASSUME Domains, NEW m \in Answers, msgs[m.id] # Null, Deliver(m), NEW c, NEW said,
         c = msgs[m.id].caller,
         said = [kind |-> m.kind, caller |-> m.caller, number |-> m.number]
  PROVE  /\ said \in Said /\ m.id \in Ids /\ c \in Callers /\ msgs[m.id] \in AckEntry
         /\ Noted(msgs[m.id], said) \in Said \cup {Nothing, Lost}
         /\ msgs' = [msgs EXCEPT ![m.id] = Told(msgs[m.id], Noted(msgs[m.id], said))]
         /\ ack' = IF m.kind = "ack" THEN [ack EXCEPT ![c] = said] ELSE ack
         /\ at' = [at EXCEPT ![c] = IF @ = "asleep" THEN "woken" ELSE @]
  <1>1. said \in Said /\ m.id \in Ids
    BY DEF Said, Answers
  <1>2. msgs[m.id] \in AckEntry /\ c \in Callers
    BY <1>1 DEF Domains, AckEntry
  <1>3. Noted(msgs[m.id], said) \in Said \cup {Nothing, Lost}
    BY <1>1, <1>2 DEF Noted, AckEntry
  <1>4. /\ msgs' = [msgs EXCEPT ![m.id] = Told(msgs[m.id], Noted(msgs[m.id], said))]
        /\ ack' = IF m.kind = "ack" THEN [ack EXCEPT ![c] = said] ELSE ack
        /\ Wake({m.id})
    BY DEF Deliver
  <1>5. at' = [at EXCEPT ![c] = IF @ = "asleep" THEN "woken" ELSE @]
    BY <1>2, <1>4 DEF Wake, Owners, Domains
  <1>6. QED
    BY <1>1, <1>2, <1>3, <1>4, <1>5

LEMMA ReceiveBase ==
  ASSUME Base, Receive
  PROVE  Base'
  <1>1. Domains /\ EntriesAgree /\ FreshConditions /\ WireCut
    BY DEF Base
  <1>2. PICK m : m = Head(toUs)
    OBVIOUS
  <1>3. /\ monitor = "reading" /\ toUs # <<>> /\ m.kind \in Kinds /\ toUs' = Tail(toUs)
        /\ \/ msgs[m.id] # Null /\ Deliver(m)
           \/ msgs[m.id] = Null /\ UNCHANGED <<msgs, ack, at, missed>>
        /\ UNCHANGED <<quit, msgidcount, wcsFree, id, limited, result,
                       sends, up, atPeer, answer, monitor>>
    BY <1>2 DEF Receive
  <1>4. m \in Answers /\ toUs' \in Seq(Answers \cup {Goodbye})
    BY <1>1, <1>2, <1>3, HeadFacts
  <1>5. /\ msgs' \in [Ids -> AckEntry \cup {Null}] /\ ack' \in [Callers -> Said \cup {Nothing}]
        /\ at' \in [Callers -> Labels]
        /\ \A i \in Ids : /\ msgs'[i] = Null <=> msgs[i] = Null
                          /\ msgs[i] # Null => msgs'[i].caller = msgs[i].caller
        /\ \A c \in Callers : at'[c] = "idle" <=> at[c] = "idle"
    <2>1. CASE msgs[m.id] = Null
      BY <1>1, <1>3, <2>1 DEF Domains
    <2>2. CASE msgs[m.id] # Null
      <3> DEFINE c == msgs[m.id].caller
                 said == [kind |-> m.kind, caller |-> m.caller, number |-> m.number]
                 x == Noted(msgs[m.id], said)
      <3>1. /\ x \in Said \cup {Nothing, Lost} /\ said \in Said /\ c \in Callers
            /\ m.id \in Ids /\ msgs[m.id] \in AckEntry
            /\ msgs' = [msgs EXCEPT ![m.id] = Told(msgs[m.id], x)]
            /\ ack' = IF m.kind = "ack" THEN [ack EXCEPT ![c] = said] ELSE ack
            /\ at' = [at EXCEPT ![c] = IF @ = "asleep" THEN "woken" ELSE @]
        BY <1>1, <1>3, <1>4, <2>2, DeliverFacts
      <3>2. /\ Told(msgs[m.id], x) \in AckEntry /\ Told(msgs[m.id], x) # Null
            /\ Told(msgs[m.id], x).caller = msgs[m.id].caller
        BY <3>1, ToldIsEntry
      <3> HIDE DEF c, said, x
      <3>3. QED
        BY <1>1, <2>2, <3>1, <3>2 DEF Domains, Labels
    <2>3. QED
      BY <2>1, <2>2
  <1>6. Domains'
    BY <1>1, <1>3, <1>4, <1>5 DEF Domains
  <1>7. EntriesAgree'
    BY <1>1, <1>3, <1>5, TableStays
  <1>8. FreshConditions' /\ WireCut'
    BY <1>1, <1>3 DEF FreshConditions, WireCut
  <1>9. QED
    BY <1>6, <1>7, <1>8 DEF Base

\* The caller of an answer is asleep, about to sleep, or about to look.
LEMMA ReceiveRest ==
  ASSUME Base, Rest, Receive
  PROVE  Rest'
  <1>1. /\ Domains /\ EntriesAgree /\ WireAgrees /\ EndsAgree /\ EntriesTell
    BY DEF Base, Rest
  <1>2. PICK m : m = Head(toUs)
    OBVIOUS
  <1>3. /\ monitor = "reading" /\ toUs # <<>> /\ m.kind \in Kinds /\ toUs' = Tail(toUs)
        /\ msgs[m.id] # Null => Deliver(m)
        /\ UNCHANGED <<id, sends, up, atPeer, answer, monitor>>
    BY <1>2 DEF Receive
  <1>4. /\ DOMAIN toUs = 1..Len(toUs) /\ Len(toUs) \in Nat /\ Len(toUs) > 0 /\ m = toUs[1]
        /\ DOMAIN toUs' = 1..(Len(toUs) - 1) /\ m \in Answers
        /\ \A j \in 1..(Len(toUs) - 1) : toUs'[j] = toUs[j + 1]
    BY <1>1, <1>2, <1>3, HeadFacts
  <1>5. IsAnswer(1) /\ 1 \in DOMAIN toUs
    BY <1>3, <1>4 DEF IsAnswer
  <1>6. Expected(m) /\ answer[m.caller] = m.kind
    BY <1>1, <1>4, <1>5 DEF WireAgrees
  <1>7. PICK c \in Callers : c = m.caller
    BY <1>4 DEF Answers
  <1>8. PICK i \in Ids : i = m.id
    BY <1>4 DEF Answers
  <1>9. /\ Waiting(c) /\ i = id[c] /\ m.number = sends[c] /\ ~msgs[i].signalled
        /\ msgs[i] # Null /\ msgs[i] \in AckEntry /\ msgs[i].caller = c
        /\ msgs[i].error = Nothing /\ ack[c] = Nothing
        /\ answer[c] = m.kind
    BY <1>1, <1>6, <1>7, <1>8
    DEF Expected, Waiting, Open, Domains, EntriesAgree, EntriesTell
  <1>10. PICK said \in Said : /\ said = [kind |-> m.kind, caller |-> m.caller, number |-> m.number]
                              /\ said = Reply(c) /\ said.kind = m.kind
    <2> DEFINE x == [kind |-> m.kind, caller |-> m.caller, number |-> m.number]
    <2>1. x \in Said
      BY <1>4 DEF Said, Answers
    <2>2. x = Reply(c)
      BY <1>7, <1>9 DEF Reply
    <2>3. QED
      BY <2>1, <2>2
  <1>11. PICK e : /\ e = Told(msgs[i], Noted(msgs[i], said))
                  /\ e # Null /\ e.caller = c /\ e.signalled
                  /\ e.error = Noted(msgs[i], said)
                  /\ msgs' = [msgs EXCEPT ![i] = e]
                  /\ ack' = IF m.kind = "ack" THEN [ack EXCEPT ![c] = said] ELSE ack
                  /\ at' = [at EXCEPT ![c] = IF @ = "asleep" THEN "woken" ELSE @]
    <2>1. Deliver(m)
      BY <1>3, <1>8, <1>9
    <2>2. c = msgs[m.id].caller /\ msgs[m.id] # Null
      BY <1>8, <1>9
    <2>3. said = [kind |-> m.kind, caller |-> m.caller, number |-> m.number]
      BY <1>10
    <2>4. /\ Noted(msgs[m.id], said) \in Said \cup {Nothing, Lost}
          /\ msgs' = [msgs EXCEPT ![m.id] = Told(msgs[m.id], Noted(msgs[m.id], said))]
          /\ ack' = IF m.kind = "ack" THEN [ack EXCEPT ![c] = said] ELSE ack
          /\ at' = [at EXCEPT ![c] = IF @ = "asleep" THEN "woken" ELSE @]
      BY <1>1, <1>4, <2>1, <2>2, <2>3, DeliverFacts
    <2>5. PICK x \in Said \cup {Nothing, Lost} : x = Noted(msgs[i], said)
      BY <1>8, <2>4
    <2>6. Told(msgs[i], x) # Null /\ Told(msgs[i], x).caller = msgs[i].caller
          /\ Told(msgs[i], x).signalled /\ Told(msgs[i], x).error = x
      BY <1>9, ToldIsEntry
    <2>7. QED
      BY <1>8, <1>9, <2>4, <2>5, <2>6
  <1>12. WireAgrees'
    <2>1. \A d \in Callers : d # c /\ Open(d) => id[d] # i
      BY <1>1, <1>9 DEF EntriesAgree
    <2>2. \A n : n.caller \in Callers /\ n.caller # c /\ Expected(n) => Expected(n)'
      BY <1>1, <1>3, <1>11, <2>1 DEF Domains, Expected, Waiting, Open
    <2>3. \A n \in atPeer : n.caller # c
      BY <1>1, <1>3, <1>9 DEF WireAgrees, Kinds
    <2>4. \A j \in DOMAIN toUs : IsAnswer(j) /\ j # 1 => toUs[j].caller # c
      BY <1>1, <1>4, <1>5, <1>7 DEF WireAgrees
    <2>5. \A j \in DOMAIN toUs' : toUs'[j] = toUs[j + 1] /\ j + 1 \in DOMAIN toUs /\ j + 1 # 1
      BY <1>4
    <2>6. \A j \in DOMAIN toUs' : IsAnswer(j)' <=> IsAnswer(j + 1)
      BY <2>5 DEF IsAnswer
    <2>7. \A j, k \in DOMAIN toUs' : j + 1 = k + 1 => j = k
      BY <1>4
    <2>8. QED
      BY <1>1, <1>3, <2>2, <2>3, <2>4, <2>5, <2>6, <2>7, WireCallers DEF WireAgrees
  <1>13. EndsAgree'
    BY <1>1, <1>3, <1>9, <1>11 DEF Domains, EndsAgree, Waiting, EntriesAgree, Open
  <1>14. EntriesTell'
    <2>1. \A k \in Ids : k # i /\ msgs[k] # Null => msgs[k].caller \in Callers /\ msgs[k].caller # c
      BY <1>1, <1>9 DEF EntriesAgree, Domains, AckEntry
    <2>2. TellsOf(e)'
      <3>1. ack'[c] = IF m.kind = "ack" THEN said ELSE Nothing
        BY <1>1, <1>9, <1>11 DEF Domains
      <3>2. Reply(c)' = said
        BY <1>3, <1>10 DEF Reply
      <3>3. e.error = IF m.kind = "unhandled" \/ (m.kind = "error" /\ ErrorTrans)
                      THEN said ELSE Nothing
        BY <1>9, <1>10, <1>11 DEF Noted
      <3>4. answer'[c] = m.kind /\ m.kind \in {"ack", "unhandled", "error"} /\ e.caller = c
        BY <1>3, <1>9, <1>11 DEF Kinds
      <3>5. QED
        BY <3>1, <3>2, <3>3, <3>4 DEF TellsOf
    <2>3. \A k \in Ids : k # i => msgs'[k] = msgs[k]
      BY <1>1, <1>11 DEF Domains
    <2>4. msgs'[i] = e
      BY <1>1, <1>11 DEF Domains
    <2>5. \A d \in Callers : d # c => ack'[d] = ack[d]
      BY <1>1, <1>11 DEF Domains
    <2>6. \A k \in Ids : k # i /\ msgs[k] # Null /\ TellsOf(msgs[k]) => TellsOf(msgs[k])'
      BY <1>3, <2>1, <2>3, <2>5 DEF TellsOf, Reply
    <2>7. QED
      BY <1>1, <1>11, <2>1, <2>2, <2>3, <2>4, <2>5, <2>6 DEF EntriesTell
  <1>15. QED
    BY <1>12, <1>13, <1>14 DEF Rest

\* Each entry is told that the connection is lost, and its caller woken.
LEMMA TellFacts ==
  ASSUME Base, CleanupTell
  PROVE  /\ \A i \in Ids : /\ msgs'[i] = Null <=> msgs[i] = Null
                           /\ msgs'[i] # Null => /\ msgs'[i].caller = msgs[i].caller
                                                 /\ msgs'[i].signalled /\ msgs'[i].error = Lost
                                                 /\ msgs[i].caller \in Callers
         /\ msgs' \in [Ids -> AckEntry \cup {Null}]
         /\ \A c \in Callers : at'[c] = at[c] \/ (at[c] = "asleep" /\ at'[c] = "woken")
         /\ at' \in [Callers -> Labels]
         /\ monitor = "closing" /\ monitor' = "ended"
         /\ UNCHANGED <<quit, msgidcount, wcsFree, id, limited, ack, result, sends,
                        up, atPeer, toUs, answer>>
  <1>1. Domains
    BY DEF Base
  <1> DEFINE told == {i \in Ids : msgs[i] # Null}
  <1>2. /\ msgs' = [i \in Ids |-> IF msgs[i] # Null THEN Told(msgs[i], Lost) ELSE Null]
        /\ monitor = "closing" /\ monitor' = "ended"
        /\ UNCHANGED <<quit, msgidcount, wcsFree, id, limited, ack, result, sends,
                       up, atPeer, toUs, answer>>
    BY DEF CleanupTell, wire
  <1>3. at' = [c \in Callers |-> IF c \in Owners(told) /\ at[c] = "asleep"
                                 THEN "woken" ELSE at[c]]
    BY DEF CleanupTell, Wake
  <1>4. \A i \in Ids : msgs[i] # Null => msgs[i] \in AckEntry
    BY <1>1 DEF Domains
  <1>5. \A i \in Ids : /\ msgs'[i] = Null <=> msgs[i] = Null
                       /\ msgs'[i] # Null => /\ msgs'[i].caller = msgs[i].caller
                                             /\ msgs'[i].signalled /\ msgs'[i].error = Lost
                                             /\ msgs[i].caller \in Callers
    BY <1>2, <1>4, ToldIsEntry
  <1>6. msgs' \in [Ids -> AckEntry \cup {Null}]
    BY <1>2, <1>4, ToldIsEntry
  <1>7. at' \in [Callers -> Labels]
    BY <1>1, <1>3 DEF Domains, Labels
  <1>8. \A c \in Callers : at'[c] = at[c] \/ (at[c] = "asleep" /\ at'[c] = "woken")
    BY <1>3
  <1>9. QED
    BY <1>2, <1>5, <1>6, <1>7, <1>8

LEMMA TellBase ==
  ASSUME Base, CleanupTell
  PROVE  Base'
  <1>1. Domains /\ EntriesAgree /\ FreshConditions /\ WireCut
    BY DEF Base
  <1>2. Domains'
    BY <1>1, TellFacts DEF Domains
  <1>3. EntriesAgree'
    <2>1. \A c \in Callers : at'[c] = "idle" <=> at[c] = "idle"
      BY TellFacts
    <2>2. QED
      BY <1>1, <2>1, TellFacts, TableStays
  <1>4. FreshConditions' /\ WireCut'
    BY <1>1, TellFacts DEF FreshConditions, WireCut
  <1>5. QED
    BY <1>2, <1>3, <1>4 DEF Base

LEMMA TellRest ==
  ASSUME Base, Rest, CleanupTell
  PROVE  Rest'
  <1>1. Domains /\ EntriesAgree /\ WireCut /\ EndsAgree
    BY DEF Base, Rest
  <1>2. WireAgrees'
    <2>1. atPeer' = {} /\ toUs' = <<>>
      BY <1>1, TellFacts DEF WireCut
    <2>2. QED
      BY <2>1 DEF WireAgrees
  <1>3. EndsAgree'
    BY <1>1, TellFacts DEF EndsAgree, EntriesAgree, Open
  <1>4. EntriesTell'
    BY TellFacts DEF EntriesTell, TellsOf
  <1>5. QED
    BY <1>2, <1>3, <1>4 DEF Rest
-----------------------------------------------------------------------------
\* Steps that leave the table and the callers alone.
LEMMA WireBase ==
  ASSUME Base, UNCHANGED <<msgidcount, msgs, wcsFree, callers>>, quit' \in BOOLEAN,
         monitor' \in {"reading", "cleanup", "closing", "ended"},
         atPeer' \subseteq [id : Ids, caller : Callers, number : 1..MaxSends],
         toUs' \in Seq(Answers \cup {Goodbye}),
         answer' \in [Callers -> Kinds \cup {"none"}],
         WireCut'
  PROVE  Base'
  <1>1. Domains /\ EntriesAgree /\ FreshConditions
    BY DEF Base
  <1>2. UNCHANGED <<at, id, limited, ack, result, sends>>
    BY DEF callers
  <1>3. Domains'
    BY <1>1, <1>2 DEF Domains
  <1>4. EntriesAgree' /\ FreshConditions'
    BY <1>1, <1>2 DEF EntriesAgree, FreshConditions, Open
  <1>5. QED
    BY <1>3, <1>4 DEF Base

\* Those after which nothing is on the wire, or nothing new but a goodbye.
Quiet ==
  /\ UNCHANGED <<msgidcount, msgs, wcsFree, callers, answer>>
  /\ quit' \in BOOLEAN /\ (up' => up)
  /\ monitor' \in {"reading", "cleanup", "closing", "ended"}
  /\ (monitor' = "reading" => monitor = "reading")
  /\ (monitor = "ended" => monitor' = "ended")
  /\ atPeer' \in {atPeer, {}} /\ toUs' \in {toUs, <<>>, Append(toUs, Goodbye)}
  /\ WireCut'

LEMMA QuietRest ==
  ASSUME Base, Rest, Quiet
  PROVE  Rest'
  <1>1. Domains /\ WireAgrees /\ EndsAgree /\ EntriesTell
    BY DEF Base, Rest
  <1>2. /\ UNCHANGED <<at, id, limited, ack, result, sends, msgs, answer>>
        /\ atPeer' \in {atPeer, {}} /\ toUs' \in {toUs, <<>>, Append(toUs, Goodbye)}
        /\ (up' => up) /\ (monitor' = "reading" => monitor = "reading")
        /\ (monitor = "ended" => monitor' = "ended")
    BY DEF Quiet, callers
  <1>3. WireAgrees'
    <2>1. \A m : Expected(m)' <=> Expected(m)
      BY <1>2 DEF Expected, Waiting
    <2>2. \A j \in DOMAIN toUs' : IsAnswer(j)' => j \in DOMAIN toUs /\ toUs'[j] = toUs[j]
      <3>1. CASE toUs' = Append(toUs, Goodbye)
        <4>1. /\ DOMAIN toUs = 1..Len(toUs) /\ DOMAIN toUs' = 1..(Len(toUs) + 1)
              /\ Len(toUs) \in Nat /\ toUs'[Len(toUs) + 1] = Goodbye
              /\ \A j \in 1..Len(toUs) : toUs'[j] = toUs[j]
          BY <1>1, <3>1, AppendProperties, LenProperties DEF Domains
        <4>2. Goodbye.kind \notin Kinds
          BY DEF Goodbye, Kinds
        <4>3. \A j \in DOMAIN toUs' : j \in 1..Len(toUs) \/ j = Len(toUs) + 1
          BY <4>1
        <4>4. QED
          BY <4>1, <4>2, <4>3 DEF IsAnswer
      <3>2. QED
        BY <1>2, <3>1
    <2>3. QED
      BY <1>1, <1>2, <2>1, <2>2 DEF WireAgrees, IsAnswer
  <1>4. EndsAgree'
    BY <1>1, <1>2 DEF EndsAgree
  <1>5. EntriesTell'
    BY <1>1, <1>2 DEF EntriesTell, TellsOf, Reply
  <1>6. QED
    BY <1>3, <1>4, <1>5 DEF Rest

LEMMA QuietSteps ==
  ASSUME Base,
         \/ ReceiveDisconnect \/ ReceiveQuit \/ ReadLost \/ Leave \/ CleanupLock
         \/ RequestClose \/ PeerDisconnect \/ Break
  PROVE  Quiet /\ Base'
  <1>1. Domains /\ WireCut
    BY DEF Base
  <1>2. Quiet
    <2>1. CASE ReceiveDisconnect \/ ReceiveQuit \/ ReadLost \/ Leave
      <3>1. /\ UNCHANGED <<msgidcount, msgs, wcsFree, callers, answer, up>>
            /\ monitor = "reading" /\ monitor' = "cleanup" /\ atPeer' = {} /\ toUs' = <<>>
        BY <2>1 DEF ReceiveDisconnect, ReceiveQuit, ReadLost, Leave, StopReading, channel
      <3>2. quit' \in BOOLEAN
        BY <1>1, <2>1 DEF ReceiveDisconnect, ReceiveQuit, ReadLost, Leave, channel, Domains
      <3>3. QED
        BY <3>1, <3>2 DEF Quiet, WireCut
    <2>2. CASE CleanupLock \/ RequestClose
      <3>1. /\ UNCHANGED <<msgidcount, msgs, wcsFree, callers, answer, up, atPeer, toUs>>
            /\ \/ monitor = "cleanup" /\ monitor' = "closing"
               \/ monitor = "reading" /\ monitor' = "reading"
        BY <2>2 DEF CleanupLock, RequestClose, channel, wire
      <3>2. quit' \in BOOLEAN
        BY <1>1, <2>2 DEF CleanupLock, RequestClose, channel, Domains
      <3>3. QED
        BY <1>1, <3>1, <3>2 DEF Quiet, WireCut
    <2>3. CASE PeerDisconnect
      BY <1>1, <2>3 DEF PeerDisconnect, channel, Goodbye, Domains, Quiet, WireCut
    <2>4. CASE Break
      BY <1>1, <2>4 DEF Break, channel, Domains, Quiet, WireCut
    <2>5. QED
      BY <2>1, <2>2, <2>3, <2>4
  <1>3. toUs' \in Seq(Answers \cup {Goodbye})
    <2>1. toUs \in Seq(Answers \cup {Goodbye}) /\ <<>> \in Seq(Answers \cup {Goodbye})
      BY <1>1 DEF Domains
    <2>2. Append(toUs, Goodbye) \in Seq(Answers \cup {Goodbye})
      BY <2>1, AppendProperties
    <2>3. QED
      BY <1>2, <2>1, <2>2 DEF Quiet
  <1>4. Base'
    <2>1. /\ UNCHANGED <<msgidcount, msgs, wcsFree, callers, answer>> /\ quit' \in BOOLEAN
          /\ monitor' \in {"reading", "cleanup", "closing", "ended"}
          /\ atPeer' \in {atPeer, {}} /\ WireCut'
      BY <1>2 DEF Quiet
    <2>2. /\ atPeer' \subseteq [id : Ids, caller : Callers, number : 1..MaxSends]
          /\ answer' \in [Callers -> Kinds \cup {"none"}]
      BY <1>1, <2>1 DEF Domains
    <2>3. QED
      BY <1>3, <2>1, <2>2, WireBase
  <1>5. QED
    BY <1>2, <1>4

\* The peer answers a message: its answer takes the message's place.
LEMMA AnswerFacts ==
  ASSUME Base, NEW m \in atPeer, NEW k \in Kinds, PeerAnswer(m, k)
  PROVE  \E a \in Answers :
           /\ a = [kind |-> k, id |-> m.id, caller |-> m.caller, number |-> m.number]
           /\ m.caller \in Callers /\ m.id \in Ids
           /\ monitor = "reading"
           /\ atPeer' = atPeer \ {m} /\ toUs' = Append(toUs, a)
           /\ DOMAIN toUs = 1..Len(toUs) /\ DOMAIN toUs' = 1..(Len(toUs) + 1)
           /\ Len(toUs) \in Nat /\ toUs'[Len(toUs) + 1] = a
           /\ \A j \in 1..Len(toUs) : toUs'[j] = toUs[j]
           /\ toUs' \in Seq(Answers \cup {Goodbye})
           /\ answer' = IF m.number = sends[m.caller]
                        THEN [answer EXCEPT ![m.caller] = k] ELSE answer
           /\ UNCHANGED <<channel, callers, up, monitor>>
  <1>1. Domains /\ WireCut
    BY DEF Base
  <1>2. m \in [id : Ids, caller : Callers, number : 1..MaxSends] /\ monitor = "reading"
    BY <1>1 DEF Domains, WireCut
  <1>3. PICK a : a = [kind |-> k, id |-> m.id, caller |-> m.caller, number |-> m.number]
    OBVIOUS
  <1>4. a \in Answers /\ m.caller \in Callers /\ m.id \in Ids
    BY <1>2, <1>3 DEF Answers
  <1>5. /\ atPeer' = atPeer \ {m} /\ toUs' = Append(toUs, a)
        /\ answer' = IF m.number = sends[m.caller]
                     THEN [answer EXCEPT ![m.caller] = k] ELSE answer
        /\ UNCHANGED <<channel, callers, up, monitor>>
    BY <1>3 DEF PeerAnswer
  <1>6. /\ DOMAIN toUs = 1..Len(toUs) /\ DOMAIN toUs' = 1..(Len(toUs) + 1)
        /\ Len(toUs) \in Nat /\ toUs'[Len(toUs) + 1] = a
        /\ \A j \in 1..Len(toUs) : toUs'[j] = toUs[j]
        /\ toUs' \in Seq(Answers \cup {Goodbye})
    BY <1>1, <1>4, <1>5, AppendProperties, LenProperties DEF Domains
  <1>7. QED
    BY <1>2, <1>3, <1>4, <1>5, <1>6

LEMMA AnswerBase ==
  ASSUME Base, NEW m \in atPeer, NEW k \in Kinds, PeerAnswer(m, k)
  PROVE  Base'
  <1>1. Domains /\ WireCut
    BY DEF Base
  <1>2. /\ m.caller \in Callers /\ monitor = "reading"
        /\ atPeer' = atPeer \ {m} /\ toUs' \in Seq(Answers \cup {Goodbye})
        /\ answer' = IF m.number = sends[m.caller]
                     THEN [answer EXCEPT ![m.caller] = k] ELSE answer
        /\ UNCHANGED <<channel, callers, up, monitor>>
    BY AnswerFacts
  <1>3. answer' \in [Callers -> Kinds \cup {"none"}]
    BY <1>1, <1>2 DEF Domains
  <1>4. QED
    BY <1>1, <1>2, <1>3, WireBase DEF Domains, WireCut, channel

LEMMA AnswerRest ==
  ASSUME Base, Rest, NEW m \in atPeer, NEW k \in Kinds, PeerAnswer(m, k)
  PROVE  Rest'
  <1>1. Domains /\ EntriesAgree /\ WireAgrees /\ EndsAgree /\ EntriesTell
    BY DEF Base, Rest
  <1>2. Expected(m) /\ answer[m.caller] = "none"
    BY <1>1 DEF WireAgrees
  <1>3. PICK a \in Answers :
           /\ a = [kind |-> k, id |-> m.id, caller |-> m.caller, number |-> m.number]
           /\ m.caller \in Callers /\ m.id \in Ids
           /\ monitor = "reading"
           /\ atPeer' = atPeer \ {m} /\ toUs' = Append(toUs, a)
           /\ DOMAIN toUs = 1..Len(toUs) /\ DOMAIN toUs' = 1..(Len(toUs) + 1)
           /\ Len(toUs) \in Nat /\ toUs'[Len(toUs) + 1] = a
           /\ \A j \in 1..Len(toUs) : toUs'[j] = toUs[j]
           /\ answer' = IF m.number = sends[m.caller]
                        THEN [answer EXCEPT ![m.caller] = k] ELSE answer
           /\ UNCHANGED <<channel, callers, up, monitor>>
    BY AnswerFacts
  <1>4. /\ answer' = [answer EXCEPT ![m.caller] = k]
        /\ UNCHANGED <<msgs, at, id, ack, sends, up, monitor>>
        /\ a.caller = m.caller /\ a.id = m.id /\ a.number = m.number /\ a.kind = k
    BY <1>2, <1>3 DEF Expected, channel, callers
  <1>5. WireAgrees'
    <2>1. \A n : Expected(n)' <=> Expected(n)
      BY <1>3, <1>4 DEF Expected, Waiting
    <2>2. Expected(a)'
      BY <1>3, <1>4, <1>2 DEF Expected, Waiting
    <2>3. \A n \in atPeer : n.caller = m.caller => n = m
      <3>1. \A n \in atPeer : n = [id |-> n.id, caller |-> n.caller, number |-> n.number]
        BY <1>1 DEF Domains
      <3>2. \A n \in atPeer : n.id = id[n.caller] /\ n.number = sends[n.caller]
        BY <1>1 DEF WireAgrees, Expected
      <3>3. QED
        BY <3>1, <3>2
    <2>4. \A j \in DOMAIN toUs : IsAnswer(j) => toUs[j].caller # m.caller
      BY <1>1, <1>2, <1>3 DEF WireAgrees, IsAnswer, Kinds
    <2>5. \A c \in Callers : c # m.caller => answer'[c] = answer[c]
      BY <1>1, <1>3, <1>4 DEF Domains
    <2>6. answer'[m.caller] = k
      BY <1>1, <1>3, <1>4 DEF Domains
    <2>7. \A j \in DOMAIN toUs' : IsAnswer(j)' =>
            \/ j = Len(toUs) + 1
            \/ j \in DOMAIN toUs /\ IsAnswer(j) /\ toUs'[j] = toUs[j]
      BY <1>3 DEF IsAnswer
    <2>8. \A n \in atPeer' : Expected(n)' /\ answer'[n.caller] = "none"
      BY <1>1, <1>3, <1>4, <2>1, <2>3, <2>5, WireCallers DEF WireAgrees
    <2>9. \A j \in DOMAIN toUs' : IsAnswer(j)' =>
            Expected(toUs[j])' /\ answer'[toUs'[j].caller] = toUs'[j].kind
      <3> SUFFICES ASSUME NEW j \in DOMAIN toUs', IsAnswer(j)'
                   PROVE  Expected(toUs[j])' /\ answer'[toUs'[j].caller] = toUs'[j].kind
        OBVIOUS
      <3>1. CASE j = Len(toUs) + 1
        BY <1>3, <1>4, <2>2, <2>6, <3>1
      <3>2. CASE j \in DOMAIN toUs /\ IsAnswer(j) /\ toUs'[j] = toUs[j]
        <4>1. /\ Expected(toUs[j]) /\ answer[toUs[j].caller] = toUs[j].kind
              /\ toUs[j].caller \in Callers /\ toUs[j].caller # m.caller
          BY <1>1, <2>4, <3>2, WireCallers DEF WireAgrees
        <4>2. QED
          BY <2>1, <2>5, <3>2, <4>1
      <3>3. QED
        BY <2>7, <3>1, <3>2
    <2>10. \A i, j \in DOMAIN toUs' :
             IsAnswer(i)' /\ IsAnswer(j)' /\ toUs'[i].caller = toUs'[j].caller => i = j
      <3> SUFFICES ASSUME NEW i \in DOMAIN toUs', NEW j \in DOMAIN toUs',
                          IsAnswer(i)', IsAnswer(j)', toUs'[i].caller = toUs'[j].caller
                   PROVE  i = j
        OBVIOUS
      <3>1. /\ \/ i = Len(toUs) + 1
               \/ i \in DOMAIN toUs /\ IsAnswer(i) /\ toUs'[i] = toUs[i]
            /\ \/ j = Len(toUs) + 1
               \/ j \in DOMAIN toUs /\ IsAnswer(j) /\ toUs'[j] = toUs[j]
        BY <2>7
      <3>2. toUs'[Len(toUs) + 1].caller = m.caller
        BY <1>3, <1>4
      <3>3. QED
        BY <1>1, <2>4, <3>1, <3>2 DEF WireAgrees
    <2>11. QED
      BY <1>3, <1>4, <1>2, <2>8, <2>9, <2>10 DEF WireAgrees
  <1>6. EndsAgree'
    BY <1>1, <1>3, <1>4, <1>2 DEF EndsAgree, Expected, Waiting, Domains
  <1>7. EntriesTell'
    <2>1. \A i \in Ids : msgs[i] # Null /\ msgs[i].signalled => msgs[i].caller # m.caller
      BY <1>1, <1>3, <1>4, <1>2 DEF EntriesAgree, Expected
    <2>2. \A i \in Ids : msgs[i] # Null => msgs[i].caller \in Callers
      BY <1>1 DEF Domains, AckEntry
    <2>3. \A c \in Callers : c # m.caller => answer'[c] = answer[c]
      BY <1>1, <1>3, <1>4 DEF Domains
    <2>4. QED
      BY <1>1, <1>3, <1>4, <2>1, <2>2, <2>3 DEF EntriesTell, TellsOf, Reply
  <1>8. QED
    BY <1>5, <1>6, <1>7 DEF Rest
-----------------------------------------------------------------------------
LEMMA InitIInv == Init => IInvD
  <1> SUFFICES ASSUME Init PROVE IInvD
    OBVIOUS
  <1>1. Domains
    <2>1. quit \in BOOLEAN
      BY DEF Init
    <2>2. msgidcount \in 0..IdMax
      BY ChannelAssumption DEF Init
    <2>3. msgs \in [Ids -> AckEntry \cup {Null}] /\ at \in [Callers -> Labels]
      BY DEF Init, Labels
    <2>4. wcsFree \in Seq(BOOLEAN) /\ toUs \in Seq(Answers \cup {Goodbye})
      BY DEF Init
    <2>5. limited \in [Callers -> BOOLEAN]
      BY Zenon DEF Init
    <2>6. id \in [Callers -> 0..IdMax] /\ sends \in [Callers -> 0..MaxSends]
      BY ChannelAssumption DEF Init
    <2>7. /\ ack \in [Callers -> Said \cup {Nothing}]
          /\ result \in [Callers -> Said \cup {Nothing, Lost, Failed}]
          /\ answer \in [Callers -> Kinds \cup {"none"}]
      BY DEF Init
    <2>8. /\ monitor \in {"reading", "cleanup", "closing", "ended"}
          /\ atPeer \subseteq [id : Ids, caller : Callers, number : 1..MaxSends]
      BY DEF Init
    <2>9. QED
      BY <2>1, <2>2, <2>3, <2>4, <2>5, <2>6, <2>7, <2>8 DEF Domains
  <1>2. Flags
    BY DEF Init, Flags
  <1>3. EntriesAgree /\ FreshConditions /\ WireCut
    BY DEF Init, EntriesAgree, FreshConditions, WireCut, Open
  <1>4. WireAgrees /\ EndsAgree /\ EntriesTell
    BY DEF Init, WireAgrees, EndsAgree, EntriesTell
  <1>5. QED
    BY <1>1, <1>2, <1>3, <1>4 DEF IInvD, Base, Rest

LEMMA StepBase ==
  ASSUME Base, Next
  PROVE  Base'
  <1>1. ASSUME NEW c \in Callers, Send(c) \/ SendTooBig(c) \/ Call(c) PROVE Base'
    BY <1>1, SendBase, CallBase, EndsBase DEF Call
  <1>2. ASSUME Monitor \/ Leave \/ RequestClose PROVE Base'
    BY <1>2, ReceiveBase, QuietSteps, TellBase DEF Monitor
  <1>3. ASSUME Peer PROVE Base'
    BY <1>3, AnswerBase, QuietSteps DEF Peer
  <1>4. QED
    BY <1>1, <1>2, <1>3 DEF Next

LEMMA StepRest ==
  ASSUME Base, Rest, Next, ~refused'
  PROVE  Rest'
  <1>1. ASSUME NEW c \in Callers, Send(c) \/ SendTooBig(c) \/ Call(c) PROVE Rest'
    BY <1>1, SendRest, WriteRest, WaitsRest, EndsRest DEF Call
  <1>2. ASSUME Monitor \/ Leave \/ RequestClose PROVE Rest'
    BY <1>2, ReceiveRest, QuietSteps, QuietRest, TellRest DEF Monitor
  <1>3. ASSUME Peer PROVE Rest'
    BY <1>3, AnswerRest, QuietSteps, QuietRest DEF Peer
  <1>4. QED
    BY <1>1, <1>2, <1>3 DEF Next

\* What was refused stays so.
LEMMA RefusedStays ==
  ASSUME [Next]_vars
  PROVE  refused => refused'
  <1>1. CASE UNCHANGED vars
    BY <1>1 DEF vars
  <1>2. ASSUME NEW c \in Callers, Send(c) \/ SendTooBig(c) \/ Call(c) PROVE refused => refused'
    BY <1>2 DEF Send, SendTooBig, Number, Call, Write, WriteThrows, Unwind, Unwound, GetMsgAck,
                WaitSleep, WaitRefused, Timeout, TakeAck
  <1>3. CASE Monitor \/ Leave \/ RequestClose \/ Peer
    BY <1>3 DEF Monitor, Receive, ReceiveDisconnect, ReceiveQuit, ReadLost, CleanupLock,
                CleanupTell, Leave, RequestClose, Peer, PeerAnswer, PeerDisconnect, Break
  <1>4. QED
    BY <1>1, <1>2, <1>3 DEF Next

LEMMA StepIInv == IInvD /\ [Next]_vars => IInvD'
  <1> SUFFICES ASSUME IInvD, [Next]_vars PROVE IInvD'
    OBVIOUS
  <1>1. CASE UNCHANGED vars
    BY <1>1 DEF vars, channel, callers, wire, IInvD, Base, Rest, Domains, Flags, EntriesAgree,
                FreshConditions, WireCut, WireAgrees, EndsAgree, EntriesTell, Open, Waiting,
                Expected, IsAnswer, TellsOf, Reply
  <1>2. CASE Next
    <2>1. Flags' /\ Base'
      BY <1>2, StepFlags, StepBase DEF IInvD
    <2>2. ~refused' => Rest'
      BY <1>2, RefusedStays, StepRest DEF IInvD
    <2>3. QED
      BY <2>1, <2>2 DEF IInvD
  <1>3. QED
    BY <1>1, <1>2

LEMMA PartsOfIInv == IInv <=> IInvD
  BY SplitShapes DEF IInv, IInvD, Base, Rest

\* In every reachable state the table has one entry for each call under way and a
\* kept wait condition is not signalled; and as long as no wait was refused, what is
\* on the wire is about calls that wait for it, and a signalled entry tells its
\* caller the peer's answer to that call, or that the channel has ended.
THEOREM Invariance == Spec => []IInv
  <1>1. QED
    BY InitIInv, StepIInv, PartsOfIInv, PTL DEF Spec

\* Ids stay within the width of an FXuint, and every field in its domain.
THEOREM TypeCorrect == Spec => []TypeOK
  <1>1. IInv => TypeOK
    BY DEF IInv, Shapes
  <1>2. QED
    BY <1>1, Invariance, PTL
-----------------------------------------------------------------------------
\* The refinement.  What the callers see of the channel:
phases == [c \in Callers |-> Phase(at[c])]

LEMMA PhaseStays ==
  ASSUME \A c \in Callers : Phase(at'[c]) = Phase(at[c])
  PROVE  phases' = phases
  BY DEF phases

LEMMA PhaseMoves ==
  ASSUME Domains, NEW c \in Callers, NEW l, at' = [at EXCEPT ![c] = l]
  PROVE  phases' = [phases EXCEPT ![c] = Phase(l)] /\ phases[c] = Phase(at[c])
  <1>1. \A d \in Callers : at'[d] = IF d = c THEN l ELSE at[d]
    BY DEF Domains
  <1>2. \A d \in Callers : phases'[d] = IF d = c THEN Phase(l) ELSE phases[d]
    BY <1>1 DEF phases
  <1>3. QED
    BY <1>2 DEF phases

LEMMA InitRefines == Init => Calls!Init
  <1> SUFFICES ASSUME Init PROVE Calls!Init
    OBVIOUS
  <1>1. phases = [c \in Callers |-> "idle"]
    BY DEF Init, phases, Phase
  <1>2. Closed = FALSE
    BY DEF Init, Closed
  <1>3. sends = [c \in Callers |-> 0] /\ answer = [c \in Callers |-> "none"]
        /\ result = [c \in Callers |-> Calls!Nothing]
    BY DEF Init, Nothing, Calls!Nothing
  <1>4. QED
    BY <1>1, <1>2, <1>3, Zenon DEF phases, Calls!Init

\* Once the channel is closing it stays so.
LEMMA CloseOnce ==
  ASSUME IInvD, [Next]_vars, Closed
  PROVE  Closed'
  <1>1. Domains
    BY DEF IInvD, Base
  <1>2. CASE UNCHANGED vars
    BY <1>2 DEF vars, channel, wire, Closed
  <1>3. CASE \E c \in Callers : Send(c) \/ SendTooBig(c) \/ Call(c)
    <2>1. PICK c \in Callers : Send(c) \/ SendTooBig(c) \/ Call(c)
      BY <1>3
    <2>2. UNCHANGED <<up, monitor, toUs>> /\ (quit' = quit \/ quit' = TRUE)
      BY <2>1 DEF Send, SendTooBig, Number, Call, Write, WriteThrows, Unwind, Unwound,
                  GetMsgAck, WaitSleep, WaitRefused, Timeout, TakeAck, wire, channel
    <2>3. QED
      BY <2>2 DEF Closed
  <1>4. CASE Receive
    <2>1. /\ monitor = "reading" /\ toUs' = Tail(toUs) /\ toUs # <<>>
          /\ Head(toUs).kind # "disconnect"
          /\ UNCHANGED <<up, quit, monitor>>
      BY <1>4 DEF Receive, Kinds
    <2>2. ASSUME NEW i \in DOMAIN toUs, toUs[i].kind = "disconnect"
          PROVE  \E j \in DOMAIN toUs' : toUs'[j].kind = "disconnect"
      <3>1. /\ toUs \in Seq(Answers \cup {Goodbye}) /\ DOMAIN toUs = 1..Len(toUs)
            /\ Len(toUs) \in Nat
        BY <1>1, LenProperties DEF Domains
      <3>2. /\ Head(toUs) = toUs[1] /\ Len(toUs') = Len(toUs) - 1
            /\ toUs' \in Seq(Answers \cup {Goodbye})
            /\ \A j \in 1..Len(toUs') : toUs'[j] = toUs[j + 1]
        BY <2>1, <3>1, HeadTailProperties
      <3>3. DOMAIN toUs' = 1..(Len(toUs) - 1)
        BY <3>1, <3>2, LenProperties
      <3>4. i - 1 \in 1..(Len(toUs) - 1) /\ (i - 1) + 1 = i
        BY <2>1, <2>2, <3>1, <3>2
      <3>5. QED
        BY <2>2, <3>2, <3>3, <3>4
    <2>3. QED
      BY <2>1, <2>2 DEF Closed
  <1>5. CASE ReceiveDisconnect \/ ReceiveQuit \/ ReadLost \/ Leave
    BY <1>5 DEF ReceiveDisconnect, ReceiveQuit, ReadLost, Leave, StopReading, Closed
  <1>6. CASE CleanupLock \/ CleanupTell
    BY <1>6 DEF CleanupLock, CleanupTell, Closed
  <1>7. CASE RequestClose \/ Break
    BY <1>7 DEF RequestClose, Break, Closed
  <1>8. ASSUME NEW m, NEW a, toUs' = Append(toUs, a), UNCHANGED <<up, quit, monitor>>
        PROVE  Closed'
    <2>1. toUs \in Seq(Answers \cup {Goodbye, a})
      BY <1>1 DEF Domains
    <2>2. /\ DOMAIN toUs \subseteq DOMAIN toUs'
          /\ \A j \in DOMAIN toUs : toUs'[j] = toUs[j]
      BY <1>8, <2>1, AppendProperties, LenProperties
    <2>3. QED
      BY <1>8, <2>2 DEF Closed
  <1>9. CASE (\E m \in atPeer, k \in Kinds : PeerAnswer(m, k)) \/ PeerDisconnect
    BY <1>8, <1>9 DEF PeerAnswer, PeerDisconnect, channel
  <1>10. QED
    BY <1>2, <1>3, <1>4, <1>5, <1>6, <1>7, <1>9 DEF Next, Monitor, Peer

\* A step that neither begins nor ends a call, nor answers one.
LEMMA StepCloses ==
  ASSUME IInvD, [Next]_vars, UNCHANGED <<phases, sends, answer, result>>
  PROVE  [Calls!Next]_(Calls!vars)
  <1>1. CASE Closed' = Closed
    <2>1. UNCHANGED Calls!vars
      BY <1>1, Zenon DEF phases, Calls!vars
    <2>2. QED
      BY <2>1
  <1>2. CASE Closed' # Closed
    <2>1. Closed' = TRUE
      BY <1>2, CloseOnce DEF Closed
    <2>2. Calls!Close
      BY <2>1, Zenon DEF phases, Calls!Close
    <2>3. QED
      BY <2>2 DEF Calls!Next
  <1>3. QED
    BY <1>1, <1>2

LEMMA SendBegins ==
  ASSUME IInvD, NEW c \in Callers, Send(c) \/ SendTooBig(c)
  PROVE  Calls!Begin(c)
  <1>1. Domains
    BY DEF IInvD, Base
  <1>2. /\ at[c] = "idle"
        /\ sends' = [sends EXCEPT ![c] = @ + 1]
        /\ answer' = [answer EXCEPT ![c] = "none"]
        /\ UNCHANGED <<up, quit, monitor, toUs>>
    BY DEF Send, SendTooBig, Number
  <1>3. phases[c] = "idle"
    BY <1>2 DEF phases, Phase
  <1>4. \/ /\ phases' = [phases EXCEPT ![c] = "sending"]
           /\ result' = [result EXCEPT ![c] = Calls!Nothing]
        \/ /\ result' = [result EXCEPT ![c] = Calls!Failed]
           /\ phases' = phases
    <2>1. CASE Send(c)
      <3>1. at' = [at EXCEPT ![c] = "writing"] /\ Phase("writing") = "sending"
            /\ result' = [result EXCEPT ![c] = Calls!Nothing]
        BY <2>1 DEF Send, Goto, Phase, Nothing, Calls!Nothing
      <3>2. QED
        BY <1>1, <3>1, PhaseMoves
    <2>2. CASE SendTooBig(c)
      BY <2>2 DEF SendTooBig, phases, Failed, Nothing, Calls!Failed, Calls!Nothing
    <2>3. QED
      BY <2>1, <2>2
  <1>5. UNCHANGED Closed
    BY <1>2 DEF Closed
  <1>6. QED
    BY <1>2, <1>3, <1>4, <1>5, Zenon DEF phases, Calls!Begin

LEMMA WriteLeaves ==
  ASSUME IInvD, NEW c \in Callers, Write(c)
  PROVE  Calls!Leave(c)
  <1>1. Domains
    BY DEF IInvD, Base
  <1>2. /\ at[c] = "writing" /\ at' = [at EXCEPT ![c] = "pending"]
        /\ UNCHANGED <<up, monitor, toUs, quit, sends, answer, result>>
    BY DEF Write, Goto, channel
  <1>3. phases[c] = "sending" /\ phases' = [phases EXCEPT ![c] = "sent"]
    <2>1. Phase("pending") = "sent" /\ Phase("writing") = "sending"
      BY DEF Phase
    <2>2. QED
      BY <1>1, <1>2, <2>1, PhaseMoves
  <1>4. UNCHANGED Closed
    BY <1>2 DEF Closed
  <1>5. QED
    BY <1>2, <1>3, <1>4, Zenon DEF phases, Calls!Leave

LEMMA UnwindFails ==
  ASSUME IInvD, ~refused, NEW c \in Callers, Unwind(c)
  PROVE  Calls!Fail(c)
  <1>1. Domains /\ EndsAgree
    BY DEF IInvD, Base, Rest
  <1>2. /\ at[c] \in {"lost", "failed"} /\ at' = [at EXCEPT ![c] = "removing"]
        /\ result' = [result EXCEPT ![c] = IF at[c] = "lost" THEN Lost ELSE Failed]
        /\ UNCHANGED <<up, monitor, toUs, quit, sends, answer>>
    BY DEF Unwind, Goto, channel, wire
  <1>3. phases[c] = "sending" /\ phases' = [phases EXCEPT ![c] = "idle"]
    <2>1. Phase("removing") = "idle" /\ Phase(at[c]) = "sending"
      BY <1>2 DEF Phase
    <2>2. QED
      BY <1>1, <1>2, <2>1, PhaseMoves
  <1>4. UNCHANGED Closed /\ (at[c] = "lost" => Closed)
    BY <1>1, <1>2 DEF Closed, EndsAgree
  <1>5. Lost = Calls!Lost /\ Failed = Calls!Failed
    BY DEF Lost, Failed, Nothing, Calls!Lost, Calls!Failed, Calls!Nothing
  <1>6. \/ result' = [result EXCEPT ![c] = Calls!Failed]
        \/ Closed /\ result' = [result EXCEPT ![c] = Calls!Lost]
    BY <1>2, <1>4, <1>5
  <1>7. QED
    BY <1>2, <1>3, <1>4, <1>6, Zenon DEF phases, Calls!Fail

LEMMA TakeReturns ==
  ASSUME IInvD, ~refused, NEW c \in Callers, TakeAck(c)
  PROVE  Calls!Return(c)
  <1>1. Domains /\ EntriesAgree /\ EndsAgree /\ EntriesTell
    BY DEF IInvD, Base, Rest
  <1>2. /\ at[c] = "woken" /\ at' = [at EXCEPT ![c] = "idle"]
        /\ result' = [result EXCEPT ![c] = ResultOf(c)]
        /\ UNCHANGED <<up, monitor, toUs, quit, sends, answer>>
    BY DEF TakeAck, Goto, wire
  <1>3. phases[c] = "sent" /\ phases' = [phases EXCEPT ![c] = "idle"]
    <2>1. Phase("woken") = "sent" /\ Phase("idle") = "idle"
      BY DEF Phase
    <2>2. QED
      BY <1>1, <1>2, <2>1, PhaseMoves
  <1>4. UNCHANGED Closed
    BY <1>2 DEF Closed
  <1>5. /\ id[c] \in Ids /\ msgs[id[c]] # Null /\ msgs[id[c]].caller = c
        /\ TellsOf(msgs[id[c]])
    BY <1>1, <1>2 DEF EntriesAgree, EndsAgree, EntriesTell, Open
  <1>6. \/ /\ ResultOf(c) = Reply(c) /\ answer[c] # "none"
           /\ answer[c] = "error" => ErrorTrans
        \/ ResultOf(c) = Nothing /\ answer[c] = "error" /\ ~ErrorTrans
        \/ ResultOf(c) = Lost /\ monitor = "ended"
    <2>1. Lost # Nothing /\ (answer[c] # "none" => Reply(c) # Nothing)
      BY DEF Lost, Nothing, Reply
    <2>2. QED
      BY <1>5, <2>1 DEF TellsOf, ResultOf
  <1>7. Reply(c) = Calls!Answered(c) /\ Lost = Calls!Lost /\ Nothing = Calls!Nothing
    BY DEF Reply, Calls!Answered, Lost, Nothing, Calls!Lost, Calls!Nothing
  <1>8. monitor = "ended" => Closed
    BY DEF Closed
  <1>9. \/ /\ answer[c] # "none" /\ (answer[c] = "error" => ErrorTrans)
           /\ result' = [result EXCEPT ![c] = Calls!Answered(c)]
        \/ /\ answer[c] = "error" /\ ~ErrorTrans
           /\ result' = [result EXCEPT ![c] = Calls!Nothing]
        \/ Closed /\ result' = [result EXCEPT ![c] = Calls!Lost]
    BY <1>2, <1>6, <1>7, <1>8
  <1>10. QED
    BY <1>2, <1>3, <1>4, <1>9, Zenon DEF phases, Calls!Return

LEMMA PeerAnswers ==
  ASSUME IInvD, ~refused, NEW m \in atPeer, NEW k \in Kinds, PeerAnswer(m, k)
  PROVE  \E c \in Callers : Calls!Answer(c, k)
  <1>1. Base /\ Domains /\ WireAgrees
    BY DEF IInvD, Base, Rest
  <1>2. m.caller \in Callers /\ Expected(m) /\ answer[m.caller] = "none"
    BY <1>1, WireCallers DEF WireAgrees
  <1>3. phases[m.caller] = "sent"
    BY <1>2 DEF phases, Phase, Expected, Waiting
  <1>4. PICK a \in Answers :
           /\ toUs' = Append(toUs, a) /\ a.kind = k
           /\ answer' = IF m.number = sends[m.caller]
                        THEN [answer EXCEPT ![m.caller] = k] ELSE answer
           /\ UNCHANGED <<channel, callers, up, monitor>>
    BY <1>1, AnswerFacts
  <1>5. /\ answer' = [answer EXCEPT ![m.caller] = k]
        /\ UNCHANGED <<at, sends, result, up, quit, monitor>>
    BY <1>2, <1>4 DEF Expected, callers, channel
  <1>6. UNCHANGED Closed
    <2>1. toUs \in Seq(Answers \cup {Goodbye, a}) /\ a.kind # "disconnect"
      BY <1>1, <1>4 DEF Domains, Kinds
    <2>2. /\ DOMAIN toUs' = DOMAIN toUs \cup {Len(toUs) + 1} /\ toUs'[Len(toUs) + 1] = a
          /\ \A j \in DOMAIN toUs : toUs'[j] = toUs[j]
      BY <1>4, <2>1, AppendProperties, LenProperties
    <2>3. (\E i \in DOMAIN toUs' : toUs'[i].kind = "disconnect")
            <=> (\E i \in DOMAIN toUs : toUs[i].kind = "disconnect")
      BY <2>1, <2>2
    <2>4. QED
      BY <1>5, <2>3 DEF Closed
  <1>7. phases' = phases
    BY <1>5 DEF phases
  <1>8. Calls!Answer(m.caller, k)
    BY <1>2, <1>3, <1>5, <1>6, <1>7, Zenon DEF phases, Calls!Answer
  <1>9. QED
    BY <1>2, <1>8

\* As long as no wait was refused, every step is a step of AckedCalls, or one its
\* users do not see.
LEMMA StepRefines ==
  ASSUME IInvD, [Next]_vars, ~refused'
  PROVE  [Calls!Next]_(Calls!vars)
  <1>1. Domains /\ ~refused
    BY RefusedStays DEF IInvD, Base
  <1>2. ASSUME NEW c \in Callers,
               Send(c) \/ SendTooBig(c) \/ Write(c) \/ Unwind(c) \/ TakeAck(c)
        PROVE  Calls!Next
    BY <1>1, <1>2, SendBegins, WriteLeaves, UnwindFails, TakeReturns DEF Calls!Next
  <1>3. ASSUME NEW m \in atPeer, NEW k \in Kinds, PeerAnswer(m, k)
        PROVE  Calls!Next
    BY <1>1, <1>3, PeerAnswers DEF Calls!Next
  <1>4. ASSUME NEW c \in Callers,
               \/ WriteThrows(c) \/ Unwound(c) \/ GetMsgAck(c) \/ WaitSleep(c)
               \/ WaitRefused(c) \/ Timeout(c)
        PROVE  [Calls!Next]_(Calls!vars)
    <2>1. UNCHANGED <<sends, answer, result>>
      BY <1>4 DEF WriteThrows, Unwound, GetMsgAck, WaitSleep, WaitRefused, Timeout, wire
    <2>2. PICK l : at' = [at EXCEPT ![c] = l] /\ Phase(l) = Phase(at[c])
      BY <1>4 DEF WriteThrows, Unwound, GetMsgAck, WaitSleep, WaitRefused, Timeout, Goto, Phase
    <2>3. \A d \in Callers : Phase(at'[d]) = Phase(at[d])
      BY <1>1, <2>2 DEF Domains
    <2>4. QED
      BY <2>1, <2>3, PhaseStays, StepCloses
  <1>5. CASE Monitor \/ Leave \/ RequestClose \/ PeerDisconnect \/ Break \/ UNCHANGED vars
    <2>1. UNCHANGED <<sends, answer, result>>
      BY <1>5 DEF Monitor, Receive, ReceiveDisconnect, ReceiveQuit, ReadLost, CleanupLock,
                  CleanupTell, Leave, RequestClose, PeerDisconnect, Break, vars, callers, wire
    <2>2. \A c \in Callers : Phase(at'[c]) = Phase(at[c])
      <3>1. ASSUME NEW I, Wake(I) PROVE \A c \in Callers : Phase(at'[c]) = Phase(at[c])
        BY <3>1 DEF Wake, Phase
      <3>2. CASE Receive
        BY <3>1, <3>2 DEF Receive, Deliver
      <3>3. CASE CleanupTell
        BY <3>1, <3>3 DEF CleanupTell
      <3>4. CASE ReceiveDisconnect \/ ReceiveQuit \/ ReadLost \/ CleanupLock \/ Leave
                 \/ RequestClose \/ PeerDisconnect \/ Break \/ UNCHANGED vars
        BY <3>4 DEF ReceiveDisconnect, ReceiveQuit, ReadLost, CleanupLock, Leave,
                    RequestClose, PeerDisconnect, Break, vars, callers
      <3>5. QED
        BY <1>5, <3>2, <3>3, <3>4 DEF Monitor
    <2>3. QED
      BY <2>1, <2>2, PhaseStays, StepCloses
  <1>6. QED
    BY <1>2, <1>3, <1>4, <1>5 DEF Next, Call, Peer

\* As long as no wait was refused, a call whose message was sent ends with the peer's
\* answer to that very call, or as lost, and then only once the channel is closing:
\* for any number of callers, over any number of times that the ids wrap
\* (doReception(), getMsgAck(), cleanup()).
THEOREM Refinement == Spec => ImplementsCalls
  <1>1. IInv /\ [Next]_vars => [~refused' => [Calls!Next]_(Calls!vars)]_vars
    BY StepRefines, PartsOfIInv
  <1>2. QED
    BY <1>1, InitRefines, Invariance, PTL DEF Spec, ImplementsCalls
=============================================================================
