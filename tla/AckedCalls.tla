----------------------------- MODULE AckedCalls -----------------------------
(***************************************************************************)
(* What an FXIPCChannel promises to those who send messages that have an   *)
(* acknowledgement.  Once its message has been sent, a call ends with the  *)
(* peer's answer to that very call, or, when the channel is closing, with  *)
(* a connection lost exception; before that, it may fail.                  *)
(***************************************************************************)
EXTENDS Naturals

CONSTANTS Callers,    \* who calls, each with one call at a time
          Kinds,      \* the answers a peer can give
          translated  \* whether the peer's errors are thrown

VARIABLES phase,      \* where each caller's call is: "idle", "sending" or "sent"
          number,     \* how many calls each caller has made
          answer,     \* the peer's answer to each caller's last call
          result,     \* how the last call of each caller ended, if it has
          closed      \* whether the channel is closing

vars == <<phase, number, answer, result, closed>>

Nothing == [kind |-> "none", caller |-> "none", number |-> 0]
Answered(c) == [kind |-> answer[c], caller |-> c, number |-> number[c]]
Lost == [Nothing EXCEPT !.kind = "lost"]
Failed == [Nothing EXCEPT !.kind = "failed"]

Init == /\ phase = [c \in Callers |-> "idle"]
        /\ number = [c \in Callers |-> 0]
        /\ answer = [c \in Callers |-> "none"]
        /\ result = [c \in Callers |-> Nothing]
        /\ closed = FALSE

\* A call begins, or is refused at once.
Begin(c) ==
  /\ phase[c] = "idle"
  /\ number' = [number EXCEPT ![c] = @ + 1]
  /\ answer' = [answer EXCEPT ![c] = "none"]
  /\ \/ /\ phase' = [phase EXCEPT ![c] = "sending"]
        /\ result' = [result EXCEPT ![c] = Nothing]
     \/ /\ result' = [result EXCEPT ![c] = Failed]
        /\ UNCHANGED phase
  /\ UNCHANGED closed

Leave(c) == /\ phase[c] = "sending"
            /\ phase' = [phase EXCEPT ![c] = "sent"]
            /\ UNCHANGED <<number, answer, result, closed>>

Fail(c) == /\ phase[c] = "sending"
           /\ phase' = [phase EXCEPT ![c] = "idle"]
           /\ \/ result' = [result EXCEPT ![c] = Failed]
              \/ closed /\ result' = [result EXCEPT ![c] = Lost]
           /\ UNCHANGED <<number, answer, closed>>

Answer(c, k) == /\ phase[c] = "sent" /\ answer[c] = "none"
                /\ answer' = [answer EXCEPT ![c] = k]
                /\ UNCHANGED <<phase, number, result, closed>>

Close == /\ closed' = TRUE
         /\ UNCHANGED <<phase, number, answer, result>>

\* An error that is not to be thrown ends the call with neither answer nor error.
Return(c) == /\ phase[c] = "sent"
             /\ phase' = [phase EXCEPT ![c] = "idle"]
             /\ \/ /\ answer[c] # "none" /\ (answer[c] = "error" => translated)
                   /\ result' = [result EXCEPT ![c] = Answered(c)]
                \/ /\ answer[c] = "error" /\ ~translated
                   /\ result' = [result EXCEPT ![c] = Nothing]
                \/ /\ closed
                   /\ result' = [result EXCEPT ![c] = Lost]
             /\ UNCHANGED <<number, answer, closed>>

Next == \/ \E c \in Callers : \/ Begin(c) \/ Leave(c) \/ Fail(c) \/ Return(c)
                              \/ \E k \in Kinds : Answer(c, k)
        \/ Close
=============================================================================
