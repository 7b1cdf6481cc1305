---------------------------- MODULE FXIPCChannel ----------------------------
(***************************************************************************)
(* One end of an FXIPCChannel (src/FXIPC.cxx): callers that send messages  *)
(* with an acknowledgement, the table of those under way, and the monitor  *)
(* thread that reads the device and wakes them.  The channel's mutex makes *)
(* each action one step; it is given up while the device is written and    *)
(* while a caller waits.  The transport and the peer are an environment    *)
(* that answers in any order (handlers run in a thread pool), at most once *)
(* per message, and that may go away at any moment.                        *)
(***************************************************************************)
EXTENDS Naturals, Sequences, FiniteSets

CONSTANTS Callers,     \* pairs of a message and its ack, each used by one thread
          IdMax,       \* the largest FXuint, at which message ids wrap
          MaxSends,    \* a bound: how many messages are sent in all
          ErrorTrans,  \* whether setErrorTranslation() has errors thrown
          Null         \* the null pointer

ASSUME ChannelAssumption ==
  /\ IsFiniteSet(Callers) /\ Null \notin Callers
  /\ MaxSends \in Nat /\ IdMax \in Nat \ {0} /\ Cardinality(Callers) <= IdMax
ASSUME ErrorTransAssumption == ErrorTrans \in BOOLEAN

VARIABLES
  quit, msgidcount,  \* the fields of FXIPCChannelPrivate
  msgs,       \* the AckEntry of each message id, or null
  wcsFree,    \* the wait conditions to be used again: whether each is signalled
  at,         \* where each caller is
  id,         \* FXIPCMsg::myid of its message
  limited,    \* whether its present wait has a limit
  ack,        \* what its ack was deserialised from
  result,     \* what its last call returned or threw
  monitor,    \* where the monitor thread is
  up,         \* the transport works
  atPeer,     \* messages written and not answered
  toUs,       \* answers written by the peer and not read
  sends,      \* how many messages each caller has sent
  answer,     \* the peer's answer to each caller's message (an observer)
  missed,     \* a wake met a caller between its test and its sleep (observer)
  refused,    \* a wait was refused before its answer came (observer)
  torn        \* the table was changed under a thread that uses it

channel == <<quit, msgidcount, msgs, wcsFree>>
callers == <<at, id, limited, ack, result, sends>>
wire == <<up, atPeer, toUs, answer>>
vars == <<channel, callers, wire, monitor, missed, refused, torn>>

Ids == 1..IdMax
Kinds == {"ack", "unhandled", "error"}
Nothing == [kind |-> "none", caller |-> "none", number |-> 0]
Lost == [Nothing EXCEPT !.kind = "lost"]
Failed == [Nothing EXCEPT !.kind = "failed"]  \* any other exception of a sender
Said == [kind : Kinds, caller : Callers, number : 1..MaxSends]

\* An AckEntry: whose it is, the error that came, and its wait condition's state.
AckEntry == [caller : Callers, error : Said \cup {Nothing, Lost}, signalled : BOOLEAN]

ASSUME NullAssumption == Null \notin AckEntry

\* cleanup() of the monitor holds the mutex while it goes through the table.
Locked == monitor = "closing"
\* A sender's exception unwinds removeAck() without the mutex: whoever uses the
\* table meanwhile may find it half changed.
Removing == \E c \in Callers : at[c] = "removing"
Goto(c, l) == at' = [at EXCEPT ![c] = l]

Init == /\ quit = FALSE
        /\ msgidcount = 0
        /\ msgs = [i \in Ids |-> Null]
        /\ wcsFree = <<>>
        /\ at = [c \in Callers |-> "idle"]
        /\ id = [c \in Callers |-> 0]
        /\ limited = [c \in Callers |-> FALSE]
        /\ ack = [c \in Callers |-> Nothing]
        /\ result = [c \in Callers |-> Nothing]
        /\ monitor = "reading"
        /\ up = TRUE /\ atPeer = {} /\ toUs = <<>>
        /\ sends = [c \in Callers |-> 0]
        /\ answer = [c \in Callers |-> "none"]
        /\ missed = FALSE /\ refused = FALSE /\ torn = FALSE
-----------------------------------------------------------------------------
\* int_makeUniqueMsgId(): count on, over zero and the ids in use.
Unused(i) == i # 0 /\ msgs[i] = Null
Ahead(k) == (msgidcount + k) % (IdMax + 1)
NextId == Ahead(CHOOSE k \in 1..(IdMax + 1) :
                  Unused(Ahead(k)) /\ \A l \in 1..(k - 1) : ~Unused(Ahead(l)))

\* The messages sent so far, for the bound MaxSends.  Nor does the model go on to
\* send after a refused wait, whose answer may come when its id is used again.
Sent == {s \in Callers \X (1..MaxSends) : s[2] <= sends[s[1]]}

\* sendMsgI() up to h.unlock(): the message is numbered and entered in the table
\* with a wait condition.  The channel's state (quit) is not looked at.
Number(c) ==
  /\ ~Locked /\ at[c] = "idle" /\ Cardinality(Sent) < MaxSends /\ ~refused
  /\ msgidcount' = NextId
  /\ id' = [id EXCEPT ![c] = NextId]
  /\ sends' = [sends EXCEPT ![c] = @ + 1]
  /\ answer' = [answer EXCEPT ![c] = "none"]
  /\ ack' = [ack EXCEPT ![c] = Nothing]
  /\ torn' = Removing
  /\ UNCHANGED <<quit, limited, monitor, up, atPeer, toUs, missed, refused>>

RestOf(wcs) == IF wcs = <<>> THEN <<>> ELSE Tail(wcs)

Send(c) ==
  /\ Number(c)
  /\ msgs' = [msgs EXCEPT ![NextId] =
                [caller |-> c, error |-> Nothing,
                 signalled |-> wcsFree # <<>> /\ Head(wcsFree)]]
  /\ wcsFree' = RestOf(wcsFree)
  /\ result' = [result EXCEPT ![c] = Nothing]
  /\ Goto(c, "writing")

\* writeBlock(), with the channel unlocked.
Write(c) ==
  /\ at[c] = "writing" /\ up
  /\ atPeer' = IF monitor # "reading" THEN {}
               ELSE atPeer \cup {[id |-> id[c], caller |-> c, number |-> sends[c]]}
  /\ Goto(c, "pending")
  /\ UNCHANGED <<channel, id, limited, ack, result, sends, up, toUs, answer,
                 monitor, missed, refused, torn>>

\* It throws; only a lost connection makes the channel quit.
WriteThrows(c) ==
  /\ at[c] = "writing"
  /\ \/ ~up /\ quit' = TRUE /\ Goto(c, "lost")
     \/ UNCHANGED quit /\ Goto(c, "failed")
  /\ UNCHANGED <<msgidcount, msgs, wcsFree, id, limited, ack, result,
                 sends, wire, monitor, missed, refused, torn>>

\* removeAck(): the wait condition is reset and kept, the entry goes.
WcAfterUse_notReset(i) == msgs[i].signalled
WcAfterUse_nulled(i) == Null
WcAfterUse(i) == FALSE
RemoveAck(c) ==
  /\ wcsFree' = Append(wcsFree, WcAfterUse(id[c]))
  /\ msgs' = [msgs EXCEPT ![id[c]] = Null]

\* A message that is too big is an exception too, but under the mutex: the entry
\* and its wait condition go as they came.
SendTooBig(c) ==
  /\ Number(c)
  /\ wcsFree' = Append(RestOf(wcsFree), FALSE)
  /\ result' = [result EXCEPT ![c] = Failed]
  /\ UNCHANGED <<msgs, at>>

\* The exception unwinds sendMsgI() and removeAck() runs, from here to Unwound,
\* before ~QMtxHold and without the mutex.
Unwind(c) ==
  /\ at[c] \in {"lost", "failed"}
  /\ result' = [result EXCEPT ![c] = IF at[c] = "lost" THEN Lost ELSE Failed]
  /\ torn' = (Locked \/ Removing)
  /\ Goto(c, "removing")
  /\ UNCHANGED <<channel, id, limited, ack, sends, wire, monitor, missed, refused>>

Unwound(c) ==
  /\ at[c] = "removing"
  /\ RemoveAck(c)
  /\ Goto(c, "idle")
  /\ UNCHANGED <<quit, msgidcount, id, limited, ack, result, sends, wire,
                 monitor, missed, refused, torn>>
-----------------------------------------------------------------------------
\* getMsgAck(), called by sendMsgI() or later: the entry is looked up, the mutex
\* given up, and ae->wc->wait() makes its test, and then sleeps (QWaitCondition).
\* What is before the test needs no step of its own: a wake there is seen by it.
GetMsgAck(c) ==
  /\ ~Locked /\ at[c] = "pending"
  /\ \/ /\ msgs[id[c]].signalled
        /\ Goto(c, "woken") /\ UNCHANGED limited
     \/ /\ ~msgs[id[c]].signalled
        /\ \E b \in BOOLEAN : limited' = [limited EXCEPT ![c] = b]
        /\ Goto(c, "gap")
  /\ torn' = Removing
  /\ UNCHANGED <<channel, id, ack, result, sends, wire, monitor, missed, refused>>

WaitSleep(c) ==
  /\ at[c] = "gap"
  /\ Goto(c, "asleep")
  /\ UNCHANGED <<channel, id, limited, ack, result, sends, wire, monitor,
                 missed, refused, torn>>

\* A limit whose nanoseconds exceed 999999999 is refused with EINVAL, which wait()
\* takes for a wake: it returns true at once.
WaitRefused(c) ==
  /\ at[c] = "gap" /\ limited[c]
  /\ refused' = (refused \/ ~msgs[id[c]].signalled)
  /\ Goto(c, "woken")
  /\ UNCHANGED <<channel, id, limited, ack, result, sends, wire, monitor,
                 missed, torn>>

\* The limit passes and getMsgAck() returns false; the entry stays.  The caller
\* has to ask again: its message and ack must live until then.
Timeout(c) ==
  /\ at[c] = "asleep" /\ limited[c]
  /\ limited' = [limited EXCEPT ![c] = FALSE]
  /\ Goto(c, "pending")
  /\ UNCHANGED <<channel, id, ack, result, sends, wire, monitor,
                 missed, refused, torn>>

\* The wait returned true: under the mutex the entry is removed and its error, if
\* there is one, thrown.  Whether an answer came is not looked at.
ResultOf(c) ==
  IF msgs[id[c]].error # Nothing THEN msgs[id[c]].error ELSE ack[c]

TakeAck(c) ==
  /\ ~Locked /\ at[c] = "woken"
  /\ result' = [result EXCEPT ![c] = ResultOf(c)]
  /\ RemoveAck(c)
  /\ limited' = [limited EXCEPT ![c] = FALSE]
  /\ torn' = Removing
  /\ Goto(c, "idle")
  /\ UNCHANGED <<quit, msgidcount, id, ack, sends, wire, monitor,
                 missed, refused>>

\* wakeAll() on the wait conditions of a set of entries.
Owners(I) == {msgs[i].caller : i \in I}
Wake(I) ==
  /\ at' = [c \in Callers |-> IF c \in Owners(I) /\ at[c] = "asleep"
                              THEN "woken" ELSE at[c]]
  /\ missed' = (missed \/ \E c \in Owners(I) : at[c] = "gap" /\ ~limited[c])
-----------------------------------------------------------------------------
\* The entry's error, when there is one, and its wait condition are set.
Told(e, error) == [caller |-> e.caller, error |-> error, signalled |-> TRUE]

\* What is noted as an entry's error: an Unhandled always is, an ErrorOccurred only
\* when errors are to be thrown.
Noted(e, said) ==
  IF said.kind = "unhandled" \/ (said.kind = "error" /\ ErrorTrans) THEN said ELSE e.error

\* doReception(): an answer is read, deserialised into the ack of its entry or
\* noted as its error, and its caller woken, all under the mutex.  An answer that
\* nobody waits for is dropped.
Deliver_errorQuiet(m) ==
  LET said == [kind |-> m.kind, caller |-> m.caller, number |-> m.number]
  IN  IF m.kind = "ack"
      THEN /\ ack' = [ack EXCEPT ![msgs[m.id].caller] = said]
           /\ msgs' = [msgs EXCEPT ![m.id].signalled = TRUE]
           /\ Wake({m.id})
      ELSE /\ msgs' = [msgs EXCEPT ![m.id].error = said]
           /\ UNCHANGED <<ack, at, missed>>

Deliver(m) ==
  LET said == [kind |-> m.kind, caller |-> m.caller, number |-> m.number]
      entry == msgs[m.id]
  IN  /\ ack' = IF m.kind = "ack" THEN [ack EXCEPT ![entry.caller] = said] ELSE ack
      /\ msgs' = [msgs EXCEPT ![m.id] = Told(entry, Noted(entry, said))]
      /\ Wake({m.id})

Receive ==
  /\ monitor = "reading" /\ ~quit /\ toUs # <<>> /\ Head(toUs).kind \in Kinds
  /\ toUs' = Tail(toUs)
  /\ \/ msgs[Head(toUs).id] # Null /\ Deliver(Head(toUs))
     \/ msgs[Head(toUs).id] = Null /\ UNCHANGED <<msgs, ack, at, missed>>
  /\ torn' = Removing
  /\ UNCHANGED <<quit, msgidcount, wcsFree, id, limited, result,
                 sends, up, atPeer, answer, monitor, refused>>

\* The monitor stops reading: what is still on the wire nobody looks at.
StopReading == /\ monitor' = "cleanup"
               /\ toUs' = <<>> /\ atPeer' = {}

\* The peer says goodbye.
ReceiveDisconnect ==
  /\ monitor = "reading" /\ ~quit /\ toUs # <<>> /\ Head(toUs).kind = "disconnect"
  /\ quit' = TRUE
  /\ StopReading
  /\ UNCHANGED <<msgidcount, msgs, wcsFree, callers, up, answer, missed, refused, torn>>

\* A message comes when the channel has been asked to quit: it is not looked at.
ReceiveQuit ==
  /\ monitor = "reading" /\ quit /\ toUs # <<>>
  /\ StopReading
  /\ UNCHANGED <<channel, callers, up, answer, missed, refused, torn>>

\* The device has nothing more to give: FXConnectionLostException.
ReadLost ==
  /\ monitor = "reading" /\ ~up /\ toUs = <<>>
  /\ quit' = TRUE
  /\ StopReading
  /\ UNCHANGED <<msgidcount, msgs, wcsFree, callers, up, answer, missed, refused, torn>>

\* run() sees quit between two receptions, or is left by an exception (a message
\* that fails its CRC or is too big) or by a termination while it reads; then
\* quit stays false.
Leave ==
  /\ monitor = "reading"
  /\ StopReading
  /\ UNCHANGED <<channel, callers, up, answer, missed, refused, torn>>

\* cleanup(): all entries are told that the connection is lost.
CleanupLock ==
  /\ monitor = "cleanup"
  /\ monitor' = "closing"
  /\ torn' = Removing
  /\ UNCHANGED <<channel, callers, wire, missed, refused>>

CleanupTell ==
  LET told == {i \in Ids : msgs[i] # Null}
  IN  /\ monitor = "closing"
      /\ msgs' = [i \in Ids |-> IF i \in told THEN Told(msgs[i], Lost) ELSE msgs[i]]
      /\ Wake(told)
      /\ monitor' = "ended"
      /\ UNCHANGED <<quit, msgidcount, wcsFree, id, limited, ack, result,
                     sends, wire, refused, torn>>

\* requestClose(), or forceClose() by a subclass.  The Disconnect that it, or
\* cleanup(), sends and noquitmsg, which keeps it from being sent twice, concern
\* the peer alone, and the model's peer may go away at any time.
RequestClose ==
  /\ monitor = "reading"  \* later nobody looks
  /\ quit' = TRUE
  /\ UNCHANGED <<msgidcount, msgs, wcsFree, callers, wire, monitor, missed, refused, torn>>
-----------------------------------------------------------------------------
\* The peer's handlers answer in any order, each message once.
PeerAnswer(m, k) ==
  /\ up /\ m \in atPeer
  /\ atPeer' = atPeer \ {m}
  /\ toUs' = Append(toUs, [kind |-> k, id |-> m.id, caller |-> m.caller,
                           number |-> m.number])
  /\ answer' = IF m.number = sends[m.caller] THEN [answer EXCEPT ![m.caller] = k]
               ELSE answer  \* the call has ended
  /\ UNCHANGED <<channel, callers, up, monitor, missed, refused, torn>>

\* The peer closes its end: what is on the way may be lost.
PeerDisconnect ==
  /\ up /\ monitor = "reading"
  /\ \A i \in DOMAIN toUs : toUs[i].kind # "disconnect"
  /\ toUs' = Append(toUs, [kind |-> "disconnect", id |-> 0])
  /\ UNCHANGED <<channel, callers, up, atPeer, answer, monitor, missed, refused, torn>>

Break ==
  /\ up
  /\ up' = FALSE /\ atPeer' = {}
  /\ toUs' \in {toUs, <<>>}
  /\ UNCHANGED <<channel, callers, answer, monitor, missed, refused, torn>>
-----------------------------------------------------------------------------
Call(c) == Write(c) \/ WriteThrows(c) \/ Unwind(c) \/ Unwound(c) \/ GetMsgAck(c)
           \/ WaitSleep(c) \/ WaitRefused(c) \/ Timeout(c) \/ TakeAck(c)
Monitor == Receive \/ ReceiveDisconnect \/ ReceiveQuit \/ ReadLost
           \/ CleanupLock \/ CleanupTell
Peer == \/ \E m \in atPeer, k \in Kinds : PeerAnswer(m, k)
        \/ PeerDisconnect \/ Break

\* Once the table was used while it was changed anything can happen.
Next == /\ ~torn
        /\ \/ \E c \in Callers : Send(c) \/ SendTooBig(c) \/ Call(c)
           \/ Monitor \/ Leave \/ RequestClose
           \/ Peer

Spec == Init /\ [][Next]_vars

\* Threads that can run do and limits pass.  Nobody has to send, the peer need
\* not answer, and no wait has to have a limit.
Fairness == WF_vars(~torn /\ Monitor) /\ \A c \in Callers : WF_vars(~torn /\ Call(c))
FairSpec == Spec /\ Fairness
-----------------------------------------------------------------------------
\* Every variable stays in its domain.
Labels == {"idle", "writing", "lost", "failed", "removing", "pending", "gap",
           "asleep", "woken"}
TypeOK ==
  /\ quit \in BOOLEAN /\ msgidcount \in 0..IdMax
  /\ msgs \in [Ids -> AckEntry \cup {Null}]
  /\ wcsFree \in Seq(BOOLEAN)
  /\ at \in [Callers -> Labels] /\ id \in [Callers -> 0..IdMax]
  /\ limited \in [Callers -> BOOLEAN] /\ sends \in [Callers -> 0..MaxSends]
  /\ ack \in [Callers -> Said \cup {Nothing}]
  /\ result \in [Callers -> Said \cup {Nothing, Lost, Failed}]
  /\ monitor \in {"reading", "cleanup", "closing", "ended"}
  /\ atPeer \subseteq [id : Ids, caller : Callers, number : 1..MaxSends]
  /\ \A i \in DOMAIN toUs : toUs[i].id \in 0..IdMax
  /\ answer \in [Callers -> Kinds \cup {"none"}]
  /\ {up, missed, refused, torn} \subseteq BOOLEAN

\* As long as no limited wait was refused, a call whose message was sent ends with
\* the peer's answer to that very call, or, once the channel is closing, as lost:
\* ids that wrap, wait conditions that are used again, errors and acks of the same
\* entry, sends that fail, and a monitor that goes away are all in it.  (After a
\* refused wait getMsgAck() returns true without an answer.)
Closed == ~up \/ quit \/ monitor # "reading" \/ \E i \in DOMAIN toUs :
                                                  toUs[i].kind = "disconnect"
Phase(l) == CASE l \in {"idle", "removing"} -> "idle"
              [] l \in {"writing", "lost", "failed"} -> "sending"
              [] OTHER -> "sent"
Calls == INSTANCE AckedCalls WITH
           phase <- [c \in Callers |-> Phase(at[c])],
           number <- sends,
           closed <- Closed,
           translated <- ErrorTrans
ImplementsCalls ==
  Calls!Init /\ [][~refused' => [Calls!Next]_(Calls!vars)]_vars

\* A call whose answer the peer has sent while the monitor was reading ends,
\* whichever of the answer, the limit of its wait and the closing of the channel
\* comes first; and so does, answered or not, each that is in the table when the
\* monitor cleans up: "If the channel suddenly closes before an ack to a message
\* you sent arrives, sendMsg() and getMsgAck() throw" (FXIPC.h).  (One that enters
\* the table later waits for ever.)
Open(c) == at[c] # "idle"
CallsReturn == []~(missed \/ torn) => \A c \in Callers :
  (Open(c) /\ \/ monitor = "reading" /\ answer[c] # "none"
              \/ monitor = "cleanup") ~> ~Open(c)
=============================================================================
