---------------------------- MODULE RemoteClient ----------------------------
(***************************************************************************)
(* remote/client/client.go: the calls that goroutines make over one        *)
(* connection, and the goroutine that hands out the answers.  A call takes *)
(* a free message id, writes its request and waits on a channel of its own *)
(* until the reader passes it the answer with that id.                     *)
(*                                                                         *)
(* The server (external) answers every request once, in any order, and may *)
(* send a message that answers no call at any time (RPackError).  The      *)
(* connection may break at any time.                                       *)
(***************************************************************************)
EXTENDS Naturals, Sequences, FiniteSets

CONSTANTS
  Caller,    \* goroutines that use the client
  MaxMid,    \* message ids are 1..MaxMid, for the 65535 of the code
  MaxCalls,  \* bound on the calls, for each goroutine
  MaxExtra   \* bound on the messages that answer no call

ASSUME CallAssumption ==
  MaxMid \in Nat \ {0} /\ MaxCalls \in [Caller -> Nat] /\ MaxExtra \in Nat

NOMID == 0

Mid == 1..MaxMid

VARIABLES
  pc,      \* what each caller does
  mid,     \* the id of its call
  count,   \* how many calls it has made
  got,     \* the answer its last call returned; none for ErrDisconnected
  calls,   \* Client.calls: whose channel waits for an id
  ended,   \* the callers whose channel is closed
  closed,  \* Client.closed
  lock,    \* who holds midLock from one step to another
  rpc,     \* what the reader does
  msg,     \* the message it has read
  conn,    \* the connection is up
  sent,    \* requests the server has not answered
  answers, \* messages the reader has not read
  extra    \* messages sent that answer no call

callVars == <<pc, mid, count, got>>
clientVars == <<calls, ended, closed, lock>>
readerVars == <<rpc, msg>>
netVars == <<conn, sent, answers, extra>>
vars == <<callVars, clientVars, readerVars, netVars>>

\* A request and its answer: the id it bears, and which call of whom it is.
Message == [mid : Mid, who : Caller, n : Nat \ {0}]
Extra == [mid |-> NOMID]

TypeOK ==
  /\ pc \in [Caller -> {"idle", "write", "wait", "cleanup", "spin"}]
  /\ mid \in [Caller -> Mid]
  /\ count \in [Caller -> Nat]
  /\ got \in [Caller -> SUBSET Message]
  /\ calls \in [Mid -> SUBSET Caller]
  /\ ended \in SUBSET Caller
  /\ closed \in BOOLEAN
  /\ lock \in {"free", "reader", "caller"}
  /\ rpc \in {"read", "lock", "send", "close", "done"}
  /\ msg \in Message \cup {Extra}
  /\ conn \in BOOLEAN
  /\ sent \in SUBSET Message
  /\ answers \in Seq(Message \cup {Extra})
  /\ extra \in 0..MaxExtra

Init ==
  /\ pc = [k \in Caller |-> "idle"]
  /\ mid = [k \in Caller |-> 1]
  /\ count = [k \in Caller |-> 0]
  /\ got = [k \in Caller |-> {}]
  /\ calls = [m \in Mid |-> {}]
  /\ ended = {}
  /\ closed = FALSE
  /\ lock = "free"
  /\ rpc = "read"
  /\ msg = Extra
  /\ conn = TRUE
  /\ sent = {}
  /\ answers = <<>>
  /\ extra = 0

Free == {m \in Mid : calls[m] = {}}

-----------------------------------------------------------------------------

\* Mutants of NewCall: the id 0 is not skipped,
NewCallZero(k) ==
  /\ pc[k] = "idle"
  /\ count[k] < MaxCalls[k]
  /\ lock = "free"
  /\ ~closed
  /\ mid' = [mid EXCEPT ![k] = 0]
  /\ count' = [count EXCEPT ![k] = @ + 1]
  /\ got' = [got EXCEPT ![k] = {}]
  /\ ended' = ended \ {k}
  /\ pc' = [pc EXCEPT ![k] = "write"]
  /\ UNCHANGED <<calls, closed, lock, readerVars, netVars>>

\* or an id that is in use is taken.
NewCallInUse(k) ==
  /\ pc[k] = "idle"
  /\ count[k] < MaxCalls[k]
  /\ lock = "free"
  /\ ~closed
  /\ mid' = [mid EXCEPT ![k] = 1]
  /\ calls' = [calls EXCEPT ![1] = {k}]
  /\ count' = [count EXCEPT ![k] = @ + 1]
  /\ got' = [got EXCEPT ![k] = {}]
  /\ ended' = ended \ {k}
  /\ pc' = [pc EXCEPT ![k] = "write"]
  /\ UNCHANGED <<closed, lock, readerVars, netVars>>

(***************************************************************************)
(* newCall takes the lowest free id: mIdCount is never advanced.  It finds *)
(* out that there is none by coming back to mIdCount, but skips that id.   *)
(***************************************************************************)
NewCall(k) ==
  /\ pc[k] = "idle"
  /\ count[k] < MaxCalls[k]
  /\ lock = "free"
  /\ ~closed
  /\ Free # {}
  /\ LET m == CHOOSE m \in Free : \A n \in Free : m <= n
     IN  /\ mid' = [mid EXCEPT ![k] = m]
         /\ calls' = [calls EXCEPT ![m] = {k}]
  /\ count' = [count EXCEPT ![k] = @ + 1]
  /\ got' = [got EXCEPT ![k] = {}]
  /\ ended' = ended \ {k}
  /\ pc' = [pc EXCEPT ![k] = "write"]
  /\ UNCHANGED <<closed, lock, readerVars, netVars>>

NewCallSpins(k) ==
  /\ pc[k] = "idle"
  /\ count[k] < MaxCalls[k]
  /\ lock = "free"
  /\ ~closed
  /\ Free = {}
  /\ lock' = "caller"
  /\ pc' = [pc EXCEPT ![k] = "spin"]
  /\ UNCHANGED <<mid, count, got, calls, ended, closed, readerVars, netVars>>

NewCallClosed(k) ==
  /\ pc[k] = "idle"
  /\ count[k] < MaxCalls[k]
  /\ lock = "free"
  /\ closed
  /\ count' = [count EXCEPT ![k] = @ + 1]
  /\ got' = [got EXCEPT ![k] = {}]
  /\ UNCHANGED <<pc, mid, clientVars, readerVars, netVars>>

Request(k) == [mid |-> mid[k], who |-> k, n |-> count[k]]

Write(k) ==
  /\ pc[k] = "write"
  /\ conn
  /\ sent' = sent \cup {Request(k)}
  /\ pc' = [pc EXCEPT ![k] = "wait"]
  /\ UNCHANGED <<mid, count, got, clientVars, readerVars, conn, answers, extra>>

WriteFails(k) ==
  /\ pc[k] = "write"
  /\ ~conn
  /\ got' = [got EXCEPT ![k] = {}]
  /\ pc' = [pc EXCEPT ![k] = "cleanup"]
  /\ UNCHANGED <<mid, count, clientVars, readerVars, netVars>>

\* A receive from a channel that Close has closed.
Disconnected(k) ==
  /\ pc[k] = "wait"
  /\ k \in ended
  /\ got' = [got EXCEPT ![k] = {}]
  /\ pc' = [pc EXCEPT ![k] = "cleanup"]
  /\ UNCHANGED <<mid, count, clientVars, readerVars, netVars>>

\* The deferred delete of Call.
Cleanup(k) ==
  /\ pc[k] = "cleanup"
  /\ lock = "free"
  /\ calls' = [calls EXCEPT ![mid[k]] = {}]
  /\ pc' = [pc EXCEPT ![k] = "idle"]
  /\ UNCHANGED <<mid, count, got, ended, closed, lock, readerVars, netVars>>

-----------------------------------------------------------------------------
\* readMessages: the next message, if there is one,
ReadMessage ==
  /\ rpc = "read"
  /\ answers # <<>>
  /\ msg' = Head(answers)
  /\ answers' = Tail(answers)
  /\ rpc' = "lock"
  /\ UNCHANGED <<callVars, clientVars, conn, sent, extra>>

\* or an error.
ReadFails ==
  /\ rpc = "read"
  /\ answers = <<>>
  /\ ~conn
  /\ rpc' = "close"
  /\ UNCHANGED <<callVars, clientVars, msg, netVars>>

Waiting == IF msg.mid = NOMID THEN {} ELSE calls[msg.mid]

\* It looks up the channel under midLock, and keeps the lock for the send.
Lookup ==
  /\ rpc = "lock"
  /\ lock = "free"
  /\ \/ /\ Waiting = {}
        /\ rpc' = "read"
        /\ UNCHANGED lock
     \/ /\ Waiting # {}
        /\ lock' = "reader"
        /\ rpc' = "send"
  /\ UNCHANGED <<callVars, calls, ended, closed, msg, netVars>>

\* The channel has no buffer: the send meets the receive.
Deliver(k) ==
  /\ rpc = "send"
  /\ k \in Waiting
  /\ pc[k] = "wait"
  /\ got' = [got EXCEPT ![k] = {msg}]
  /\ pc' = [pc EXCEPT ![k] = "cleanup"]
  /\ lock' = "free"
  /\ rpc' = "read"
  /\ UNCHANGED <<mid, count, calls, ended, closed, msg, netVars>>

\* Mutant of CloseClient: the channels stay open.
CloseClientQuietly ==
  /\ closed' = TRUE
  /\ conn' = FALSE
  /\ answers' = <<>>
  /\ UNCHANGED <<calls, ended, lock, sent, extra>>

(***************************************************************************)
(* Close closes every channel in calls.  The reader calls it when it ends; *)
(* commands call it when they are done with all their calls.               *)
(***************************************************************************)
CloseClient ==
  /\ ended' = IF closed THEN ended ELSE ended \cup UNION {calls[m] : m \in Mid}
  /\ closed' = TRUE
  /\ conn' = FALSE
  /\ answers' = <<>>
  /\ UNCHANGED <<calls, lock, sent, extra>>

ReaderClose ==
  /\ rpc = "close"
  /\ lock = "free"
  /\ CloseClient
  /\ rpc' = "done"
  /\ UNCHANGED <<callVars, msg>>

\* Mutant of CommandClose: it does not wait for the calls.
CommandCloseEarly ==
  /\ lock = "free"
  /\ ~closed
  /\ CloseClient
  /\ UNCHANGED <<callVars, readerVars>>

\* Close by the command, which it defers until its calls have returned.
CommandClose ==
  /\ \A k \in Caller : pc[k] = "idle"
  /\ lock = "free"
  /\ ~closed
  /\ CloseClient
  /\ UNCHANGED <<callVars, readerVars>>

-----------------------------------------------------------------------------
\* The server (external).
Answer(r) ==
  /\ conn
  /\ r \in sent
  /\ sent' = sent \ {r}
  /\ answers' = Append(answers, r)
  /\ UNCHANGED <<callVars, clientVars, readerVars, conn, extra>>

SendExtra ==
  /\ conn
  /\ extra < MaxExtra
  /\ extra' = extra + 1
  /\ answers' = Append(answers, Extra)
  /\ UNCHANGED <<callVars, clientVars, readerVars, conn, sent>>

\* The connection breaks; what was under way may be lost.
Break ==
  /\ conn
  /\ conn' = FALSE
  /\ sent' = {}
  /\ \E i \in 0..Len(answers) : answers' = SubSeq(answers, 1, i)
  /\ UNCHANGED <<callVars, clientVars, readerVars, extra>>

CallStep(k) == Write(k) \/ WriteFails(k) \/ Disconnected(k) \/ Cleanup(k)

ReaderStep ==
  \/ ReadMessage \/ ReadFails \/ Lookup \/ ReaderClose
  \/ \E k \in Caller : Deliver(k)

ServerStep == \E r \in sent : Answer(r)

Next ==
  \/ \E k \in Caller : NewCall(k) \/ NewCallSpins(k) \/ NewCallClosed(k) \/ CallStep(k)
  \/ ReaderStep
  \/ ServerStep
  \/ CommandClose
  \/ SendExtra
  \/ Break

(***************************************************************************)
(* A goroutine that is in a call goes on with it, the mutex starves nobody,*)
(* and the server answers as long as it can.                               *)
(***************************************************************************)
Fairness ==
  /\ \A k \in Caller : SF_vars(CallStep(k))
  /\ SF_vars(ReaderStep)
  /\ WF_vars(ServerStep)

Spec == Init /\ [][Next]_vars /\ Fairness

-----------------------------------------------------------------------------
(***************************************************************************)
(* A call returns the answer to its own request, whatever the order of the *)
(* answers and however often its id was used before.                       *)
(***************************************************************************)
OwnAnswer ==
  \A k \in Caller : got[k] \subseteq {Request(k)}

(***************************************************************************)
(* The reader never sends on a channel that Close has closed, which would  *)
(* end the program, whether the reader or the command calls Close.  It     *)
(* rests on commands that close their client when no call is open, which   *)
(* Close itself does not see to.                                           *)
(***************************************************************************)
NoPanic == rpc = "send" => Waiting \cap ended = {}

(***************************************************************************)
(* As long as the ids do not run out, every call returns: it gets its      *)
(* answer, or the error that the client is disconnected.  A newCall that   *)
(* finds no id goes round for ever and keeps midLock.                      *)
(***************************************************************************)
CallsReturn ==
  [](\A k \in Caller : pc[k] # "spin")
    => \A k \in Caller : pc[k] # "idle" ~> pc[k] = "idle"
=============================================================================
