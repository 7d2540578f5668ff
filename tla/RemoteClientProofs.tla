------------------------- MODULE RemoteClientProofs -------------------------
(***************************************************************************)
(* Proofs about the calls over a connection, for any number of callers,    *)
(* ids and calls.                                                          *)
(***************************************************************************)
EXTENDS RemoteClient, WellFoundedInduction, TLAPS

InCall(k) == pc[k] \in {"write", "wait", "cleanup"}

\* r is the request that the caller it names waits for.
Current(r) == r \in Message /\ pc[r.who] = "wait" /\ r = Request(r.who)

\* The message that the reader has not handed out.
Held == rpc \in {"lock", "send"} /\ msg # Extra

(***************************************************************************)
(* An id in use is that of the one caller who is in the call, and a caller *)
(* whose channel is closed is only in a call when the reader has ended.    *)
(***************************************************************************)
CallsInv ==
  /\ \A k \in Caller : InCall(k) => calls[mid[k]] = {k}
  /\ \A k \in Caller : InCall(k) => count[k] > 0
  /\ \A m \in Mid : \A k \in calls[m] : InCall(k) /\ mid[k] = m
  /\ \A k \in ended : InCall(k) => rpc = "done"
  /\ rpc = "done" => closed /\ ~conn /\ answers = <<>>
  /\ lock = "reader" <=> rpc = "send"

(***************************************************************************)
(* Every message under way is the answer to, or the request of, a call     *)
(* that waits for it,                                                      *)
(***************************************************************************)
FlightInv ==
  /\ conn => \A r \in sent : Current(r)
  /\ \A i \in 1..Len(answers) : answers[i] # Extra => Current(answers[i])
  /\ Held => Current(msg)

(***************************************************************************)
(* and there is one of it.                                                 *)
(***************************************************************************)
OnceInv ==
  /\ \A i, j \in 1..Len(answers) : answers[i] = answers[j] /\ answers[i] # Extra => i = j
  /\ conn => \A i \in 1..Len(answers) : answers[i] \notin sent
  /\ Held => /\ conn => msg \notin sent
             /\ \A i \in 1..Len(answers) : answers[i] # msg

ClientInv == TypeOK /\ CallsInv /\ FlightInv /\ OnceInv /\ OwnAnswer

LEMMA ExtraIsNone ==
  /\ Extra \notin Message
  /\ \A r \in Message : r.mid # NOMID /\ r.mid \in Mid /\ r.who \in Caller
BY CallAssumption DEF Extra, Message, NOMID, Mid

(***************************************************************************)
(* newCall finds an id that is free, if there is one.                      *)
(***************************************************************************)
LEMMA MidFree ==
  ASSUME Free # {}
  PROVE  (CHOOSE m \in Free : \A n \in Free : m <= n) \in Free
<1> DEFINE R == {ss \in Nat \X Nat : ss[1] < ss[2]}
<1>1. Mid \subseteq Nat
  BY CallAssumption DEF Mid
<1>2. Free \subseteq Nat
  BY <1>1, Zenon DEF Free
<1>3. IsWellFoundedOn(R, Nat)
  BY NatLessThanWellFounded, Zenon DEF OpToRel
<1> HIDE DEF R
<1>4. \E x \in Free : \A y \in Free : ~(<<y, x>> \in R)
  BY <1>2, <1>3, WFMin, Zenon
<1>5. PICK x \in Free : \A y \in Free : ~(<<y, x>> \in R)
  BY <1>4, Zenon
<1>6. ASSUME NEW y \in Free
      PROVE  x <= y
  <2>1. x \in Nat /\ y \in Nat
    BY <1>2, Zenon
  <2>2. ~(<<y, x>> \in R)
    BY <1>5, Zenon
  <2> QED BY <2>1, <2>2 DEF R
<1> QED BY <1>6, Zenon

LEMMA ClientInit ==
  Init => ClientInv
<1> SUFFICES ASSUME Init
             PROVE  ClientInv
  OBVIOUS
<1>1. TypeOK
  <2>1. 1 \in Mid /\ 0 \in 0..MaxExtra
    BY CallAssumption DEF Mid
  <2>2. answers \in Seq(Message \cup {Extra})
    BY DEF Init
  <2>3. count \in [Caller -> Nat]
    BY DEF Init
  <2> QED BY <2>1, <2>2, <2>3, Zenon DEF Init, TypeOK
<1>2. CallsInv
  BY DEF Init, CallsInv, InCall, Mid
<1>3. FlightInv /\ OnceInv
  BY DEF Init, FlightInv, OnceInv, Held
<1>4. OwnAnswer
  BY Zenon DEF Init, OwnAnswer
<1> QED BY <1>1, <1>2, <1>3, <1>4, Zenon DEF ClientInv

(***************************************************************************)
(* A step in which no call begins or ends leaves the ids as they are.      *)
(***************************************************************************)
LEMMA CallsSame ==
  ASSUME TypeOK, CallsInv,
         UNCHANGED <<mid, calls, ended, closed>>,
         \A k \in Caller : InCall(k)' = InCall(k),
         \A k \in Caller : InCall(k) => count'[k] = count[k],
         rpc' = "done" <=> rpc = "done",
         rpc = "done" => conn' = conn /\ answers' = answers,
         lock' = "reader" <=> rpc' = "send"
  PROVE  CallsInv'
<1>1. \A k \in Caller : InCall(k)' => calls'[mid'[k]] = {k} /\ count'[k] > 0
  BY Zenon DEF CallsInv
<1>2. \A m \in Mid : \A k \in calls'[m] : InCall(k)' /\ mid'[k] = m
  BY Zenon DEF CallsInv, TypeOK
<1>3. \A k \in ended' : InCall(k)' => rpc' = "done"
  BY Zenon DEF CallsInv, TypeOK
<1>4. rpc' = "done" => closed' /\ ~conn' /\ answers' = <<>>
  BY Zenon DEF CallsInv
<1> QED BY <1>1, <1>2, <1>3, <1>4, Zenon DEF CallsInv

(***************************************************************************)
(* A step of a caller that does not leave or enter the wait leaves the     *)
(* messages as they are.                                                   *)
(***************************************************************************)
LEMMA FlightSame ==
  ASSUME FlightInv, OnceInv,
         \A k \in Caller : pc[k] = "wait" =>
           pc'[k] = "wait" /\ mid'[k] = mid[k] /\ count'[k] = count[k],
         UNCHANGED <<readerVars, netVars>>
  PROVE  FlightInv' /\ OnceInv'
<1>1. /\ rpc' = rpc /\ msg' = msg /\ conn' = conn /\ sent' = sent /\ answers' = answers
  BY DEF readerVars, netVars
<1>2. \A r : Current(r) => Current(r)'
  BY ExtraIsNone, Zenon DEF Current, Request
<1>3. Held' = Held
  BY <1>1, Zenon DEF Held
<1>4. FlightInv'
  BY <1>1, <1>2, <1>3, Zenon DEF FlightInv
<1>5. OnceInv'
  BY <1>1, <1>3, Zenon DEF OnceInv
<1> QED BY <1>4, <1>5, Zenon

LEMMA NewCallKeeps ==
  ASSUME ClientInv, NEW k \in Caller, NewCall(k)
  PROVE  ClientInv'
<1> DEFINE m == CHOOSE m \in Free : \A n \in Free : m <= n
<1>1. m \in Mid /\ calls[m] = {}
  BY MidFree, Zenon DEF NewCall, Free
<1>2. /\ pc[k] = "idle" /\ lock = "free" /\ ~closed
      /\ mid' = [mid EXCEPT ![k] = m] /\ calls' = [calls EXCEPT ![m] = {k}]
      /\ count' = [count EXCEPT ![k] = @ + 1] /\ got' = [got EXCEPT ![k] = {}]
      /\ ended' = ended \ {k} /\ pc' = [pc EXCEPT ![k] = "write"]
      /\ UNCHANGED <<closed, lock, readerVars, netVars>>
  BY Zenon DEF NewCall
<1> HIDE DEF m
<1>3. TypeOK'
  BY <1>1, <1>2 DEF ClientInv, TypeOK, readerVars, netVars
<1>4. CallsInv'
  <2>1. rpc' = rpc /\ conn' = conn /\ answers' = answers /\ lock' = lock /\ closed' = closed
    BY <1>2, Zenon DEF readerVars, netVars
  <2>2. \A j \in Caller : j # k => InCall(j)' = InCall(j) /\ mid'[j] = mid[j]
    BY <1>2 DEF InCall, ClientInv, TypeOK
  <2>3. InCall(k)' /\ mid'[k] = m /\ ~InCall(k)
    BY <1>2 DEF InCall, ClientInv, TypeOK
  <2>4. calls'[m] = {k} /\ \A n \in Mid : n # m => calls'[n] = calls[n]
    BY <1>1, <1>2 DEF ClientInv, TypeOK
  <2>a. count'[k] > 0 /\ \A j \in Caller : j # k => count'[j] = count[j]
    BY <1>2 DEF ClientInv, TypeOK
  <2>5. ASSUME NEW j \in Caller, InCall(j)'
        PROVE  calls'[mid'[j]] = {j} /\ count'[j] > 0
    <3>1. CASE j = k
      BY <2>3, <2>4, <2>a, <3>1, Zenon
    <3>2. CASE j # k
      <4>1. calls[mid[j]] = {j} /\ count[j] > 0
        BY <2>2, <2>5, <3>2, Zenon DEF ClientInv, CallsInv
      <4>2. mid[j] # m /\ mid[j] \in Mid
        BY <1>1, <4>1, Zenon DEF ClientInv, TypeOK
      <4> QED BY <2>2, <2>4, <2>a, <3>2, <4>1, <4>2, Zenon
    <3> QED BY <3>1, <3>2, Zenon
  <2>6. ASSUME NEW n \in Mid, NEW j \in calls'[n]
        PROVE  InCall(j)' /\ mid'[j] = n
    <3>1. CASE n = m
      BY <2>3, <2>4, <3>1, Zenon
    <3>2. CASE n # m
      <4>1. j \in calls[n] /\ j \in Caller
        BY <2>4, <3>2, Zenon DEF ClientInv, TypeOK
      <4>2. InCall(j) /\ mid[j] = n
        BY <4>1, Zenon DEF ClientInv, CallsInv
      <4> QED BY <2>2, <2>3, <4>1, <4>2, Zenon
    <3> QED BY <3>1, <3>2, Zenon
  <2>7. \A j \in ended' : InCall(j)' => rpc = "done"
    BY <1>2, <2>2, Zenon DEF ClientInv, CallsInv, TypeOK
  <2> QED BY <2>1, <2>5, <2>6, <2>7, Zenon DEF ClientInv, CallsInv
<1>5. FlightInv' /\ OnceInv'
  <2>1. \A j \in Caller : pc[j] = "wait" =>
          pc'[j] = "wait" /\ mid'[j] = mid[j] /\ count'[j] = count[j]
    BY <1>2 DEF ClientInv, TypeOK
  <2> QED BY <1>2, <2>1, FlightSame, Zenon DEF ClientInv
<1>6. OwnAnswer'
  BY <1>2 DEF ClientInv, TypeOK, OwnAnswer, Request
<1> QED BY <1>3, <1>4, <1>5, <1>6, Zenon DEF ClientInv

LEMMA NewCallFailsKeeps ==
  ASSUME ClientInv, NEW k \in Caller, NewCallSpins(k) \/ NewCallClosed(k)
  PROVE  ClientInv'
<1>1. CASE NewCallSpins(k)
  <2>1. TypeOK'
    BY <1>1 DEF NewCallSpins, ClientInv, TypeOK, readerVars, netVars
  <2>2. \A j \in Caller : InCall(j)' = InCall(j)
    BY <1>1 DEF NewCallSpins, InCall, ClientInv, TypeOK
  <2>3. lock' = "caller" /\ rpc # "send"
    BY <1>1 DEF NewCallSpins, ClientInv, CallsInv
  <2>4. CallsInv'
    BY <1>1, <2>2, <2>3, CallsSame, Zenon
    DEF NewCallSpins, ClientInv, readerVars, netVars, CallsInv
  <2>5. FlightInv' /\ OnceInv'
    <3>1. \A j \in Caller : pc[j] = "wait" =>
            pc'[j] = "wait" /\ mid'[j] = mid[j] /\ count'[j] = count[j]
      BY <1>1 DEF ClientInv, TypeOK, NewCallSpins
    <3> QED BY <1>1, <3>1, FlightSame, Zenon DEF ClientInv, NewCallSpins
  <2>6. OwnAnswer'
    BY <1>1, Zenon DEF NewCallSpins, ClientInv, OwnAnswer, Request
  <2> QED BY <2>1, <2>4, <2>5, <2>6, Zenon DEF ClientInv
<1>2. CASE NewCallClosed(k)
  <2>1. TypeOK'
    BY <1>2 DEF NewCallClosed, ClientInv, TypeOK, clientVars, readerVars, netVars
  <2>2. CallsInv'
    <3>1. \A j \in Caller : InCall(j)' = InCall(j)
      BY <1>2, Zenon DEF NewCallClosed, InCall
    <3>2. \A j \in Caller : InCall(j) => count'[j] = count[j]
      BY <1>2 DEF NewCallClosed, InCall, ClientInv, TypeOK
    <3> QED
      BY <1>2, <3>1, <3>2, CallsSame, Zenon
      DEF NewCallClosed, ClientInv, clientVars, readerVars, netVars, CallsInv
  <2>3. FlightInv' /\ OnceInv'
    <3>1. \A j \in Caller : pc[j] = "wait" =>
            pc'[j] = "wait" /\ mid'[j] = mid[j] /\ count'[j] = count[j]
      BY <1>2 DEF ClientInv, TypeOK, NewCallClosed
    <3> QED BY <1>2, <3>1, FlightSame, Zenon DEF ClientInv, NewCallClosed
  <2>4. OwnAnswer'
    BY <1>2 DEF NewCallClosed, ClientInv, TypeOK, OwnAnswer, Request
  <2> QED BY <2>1, <2>2, <2>3, <2>4, Zenon DEF ClientInv
<1> QED BY <1>1, <1>2, Zenon

LEMMA WriteKeeps ==
  ASSUME ClientInv, NEW k \in Caller, Write(k)
  PROVE  ClientInv'
<1>1. /\ pc[k] = "write" /\ conn /\ sent' = sent \cup {Request(k)}
      /\ pc' = [pc EXCEPT ![k] = "wait"]
      /\ UNCHANGED <<mid, count, got, calls, ended, closed, lock, rpc, msg, conn, answers, extra>>
  BY Zenon DEF Write, clientVars, readerVars
<1>2. Request(k) \in Message
  BY <1>1 DEF ClientInv, TypeOK, CallsInv, InCall, Request, Message
<1>3. TypeOK'
  BY <1>1, <1>2 DEF ClientInv, TypeOK
<1>4. \A j \in Caller : pc'[j] = IF j = k THEN "wait" ELSE pc[j]
  BY <1>1 DEF ClientInv, TypeOK
<1>5. CallsInv'
  <2>1. \A j \in Caller : InCall(j)' = InCall(j)
    BY <1>1, <1>4 DEF InCall
  <2> QED BY <1>1, <2>1, CallsSame, Zenon DEF ClientInv, CallsInv
<1>6. \A j \in Caller : Request(j)' = Request(j)
  BY <1>1, Zenon DEF Request
<1>7. \A r : Current(r) => Current(r)' /\ r # Request(k)
  <2> SUFFICES ASSUME NEW r, Current(r)
               PROVE  Current(r)' /\ r # Request(k)
    BY Zenon
  <2>1. r \in Message /\ r.who \in Caller /\ pc[r.who] = "wait" /\ r = Request(r.who)
    BY ExtraIsNone, Zenon DEF Current
  <2>2. Request(k).who = k
    BY Zenon DEF Request
  <2>3. r.who # k
    BY <1>1, <2>1
  <2>4. r # Request(k)
    BY <2>2, <2>3, Zenon
  <2> QED BY <1>4, <1>6, <2>1, <2>3, <2>4, Zenon DEF Current
<1>8. Current(Request(k))'
  BY <1>2, <1>4, <1>6, Zenon DEF Current, Request
<1>9. Held' = Held /\ Request(k) # Extra
  BY <1>1, <1>2, ExtraIsNone, Zenon DEF Held
<1>10. FlightInv'
  <2>1. \A r \in sent' : Current(r)'
    BY <1>1, <1>6, <1>7, <1>8, Zenon DEF ClientInv, FlightInv
  <2>2. \A i \in 1..Len(answers') : answers'[i] # Extra => Current(answers[i])'
    BY <1>1, <1>7, Zenon DEF ClientInv, FlightInv
  <2>3. Held' => Current(msg)'
    <3>1. Held => Current(msg)'
      BY <1>7, <1>1, Zenon DEF ClientInv, FlightInv, Current
    <3> QED BY <1>9, <3>1, Zenon
  <2> QED BY <1>1, <2>1, <2>2, <2>3, Zenon DEF FlightInv, Current
<1>11. OnceInv'
  <2>1. \A i \in 1..Len(answers) : answers[i] # Request(k)
    BY <1>7, <1>9, Zenon DEF ClientInv, FlightInv
  <2>2. Held => msg # Request(k)
    BY <1>7, Zenon DEF ClientInv, FlightInv
  <2> QED BY <1>1, <1>9, <2>1, <2>2, Zenon DEF ClientInv, OnceInv
<1>12. OwnAnswer'
  BY <1>1, <1>6, Zenon DEF ClientInv, OwnAnswer
<1> QED BY <1>3, <1>5, <1>10, <1>11, <1>12, Zenon DEF ClientInv

LEMMA CallFailsKeeps ==
  ASSUME ClientInv, NEW k \in Caller, WriteFails(k) \/ Disconnected(k)
  PROVE  ClientInv'
<1>1. /\ pc[k] \in {"write", "wait"} /\ got' = [got EXCEPT ![k] = {}]
      /\ pc' = [pc EXCEPT ![k] = "cleanup"]
      /\ UNCHANGED <<mid, count, calls, ended, closed, lock, readerVars, netVars>>
  BY Zenon DEF WriteFails, Disconnected, clientVars
<1>2. TypeOK'
  BY <1>1 DEF ClientInv, TypeOK, readerVars, netVars
<1>3. \A j \in Caller : pc'[j] = IF j = k THEN "cleanup" ELSE pc[j]
  BY <1>1 DEF ClientInv, TypeOK
<1>4. CallsInv'
  <2>1. \A j \in Caller : InCall(j)' = InCall(j)
    BY <1>1, <1>3 DEF InCall
  <2> QED BY <1>1, <2>1, CallsSame, Zenon DEF ClientInv, CallsInv, readerVars, netVars
<1>5. FlightInv' /\ OnceInv'
  <2>1. CASE WriteFails(k)
    <3>1. pc[k] # "wait"
      BY <2>1 DEF WriteFails
    <3> QED BY <1>1, <1>3, <3>1, FlightSame, Zenon DEF ClientInv
  <2>2. CASE Disconnected(k)
    <3>1. rpc = "done"
      BY <2>2 DEF Disconnected, ClientInv, CallsInv, InCall, TypeOK
    <3>2. rpc' = "done" /\ ~conn' /\ answers' = <<>>
      BY <1>1, <3>1, Zenon DEF ClientInv, CallsInv, readerVars, netVars
    <3> QED BY <3>2 DEF FlightInv, OnceInv, Held
  <2> QED BY <2>1, <2>2, Zenon
<1>6. OwnAnswer'
  BY <1>1 DEF ClientInv, TypeOK, OwnAnswer, Request
<1> QED BY <1>2, <1>4, <1>5, <1>6, Zenon DEF ClientInv

LEMMA CleanupKeeps ==
  ASSUME ClientInv, NEW k \in Caller, Cleanup(k)
  PROVE  ClientInv'
<1>1. /\ pc[k] = "cleanup" /\ calls' = [calls EXCEPT ![mid[k]] = {}]
      /\ pc' = [pc EXCEPT ![k] = "idle"]
      /\ UNCHANGED <<mid, count, got, ended, closed, lock, readerVars, netVars>>
  BY Zenon DEF Cleanup
<1>2. TypeOK'
  BY <1>1 DEF ClientInv, TypeOK, readerVars, netVars
<1>3. \A j \in Caller : pc'[j] = IF j = k THEN "idle" ELSE pc[j]
  BY <1>1 DEF ClientInv, TypeOK
<1>4. CallsInv'
  <2>1. \A j \in Caller : InCall(j)' <=> InCall(j) /\ j # k
    BY <1>3 DEF InCall
  <2>2. mid[k] \in Mid /\ calls[mid[k]] = {k}
    BY <1>1 DEF ClientInv, TypeOK, CallsInv, InCall
  <2>3. calls'[mid[k]] = {} /\ \A n \in Mid : n # mid[k] => calls'[n] = calls[n]
    BY <1>1, <2>2 DEF ClientInv, TypeOK
  <2>4. ASSUME NEW j \in Caller, InCall(j)'
        PROVE  calls'[mid'[j]] = {j} /\ count'[j] > 0
    <3>1. j # k /\ calls[mid[j]] = {j} /\ count[j] > 0
      BY <2>1, <2>4, Zenon DEF ClientInv, CallsInv
    <3>2. mid[j] # mid[k] /\ mid[j] \in Mid
      BY <2>2, <3>1, Zenon DEF ClientInv, TypeOK
    <3> QED BY <1>1, <2>3, <3>1, <3>2, Zenon
  <2>5. ASSUME NEW n \in Mid, NEW j \in calls'[n]
        PROVE  InCall(j)' /\ mid'[j] = n
    <3>1. n # mid[k] /\ j \in calls[n] /\ j \in Caller
      BY <2>3, Zenon DEF ClientInv, TypeOK
    <3>2. InCall(j) /\ mid[j] = n
      BY <3>1, Zenon DEF ClientInv, CallsInv
    <3> QED BY <1>1, <2>1, <3>1, <3>2, Zenon
  <2>6. \A j \in ended' : InCall(j)' => rpc = "done"
    BY <1>1, <2>1, Zenon DEF ClientInv, CallsInv, TypeOK
  <2> QED BY <1>1, <2>4, <2>5, <2>6, Zenon DEF ClientInv, CallsInv, readerVars, netVars
<1>5. FlightInv' /\ OnceInv'
  <2>1. pc[k] # "wait"
    BY <1>1
  <2> QED BY <1>1, <1>3, <2>1, FlightSame, Zenon DEF ClientInv
<1>6. OwnAnswer'
  BY <1>1, Zenon DEF ClientInv, OwnAnswer, Request
<1> QED BY <1>2, <1>4, <1>5, <1>6, Zenon DEF ClientInv

-----------------------------------------------------------------------------
(***************************************************************************)
(* What the steps that no caller takes keep.                               *)
(***************************************************************************)
LEMMA CallersSame ==
  ASSUME TypeOK, CallsInv, OwnAnswer,
         UNCHANGED <<callVars, calls, ended, closed>>,
         rpc' = "done" <=> rpc = "done",
         rpc = "done" => conn' = conn /\ answers' = answers,
         lock' = "reader" <=> rpc' = "send"
  PROVE  CallsInv' /\ OwnAnswer' /\ \A r : Current(r)' = Current(r)
<1>1. pc' = pc /\ mid' = mid /\ count' = count /\ got' = got
  BY Zenon DEF callVars
<1>2. \A k \in Caller : InCall(k)' = InCall(k)
  BY <1>1, Zenon DEF InCall
<1>3. CallsInv'
  BY <1>1, <1>2, CallsSame, Zenon
<1>4. OwnAnswer'
  BY <1>1, Zenon DEF OwnAnswer, Request
<1>5. \A r : Current(r)' = Current(r)
  BY <1>1, Zenon DEF Current, Request
<1> QED BY <1>3, <1>4, <1>5, Zenon

LEMMA ReadMessageKeeps ==
  ASSUME ClientInv, ReadMessage
  PROVE  ClientInv'
<1>1. /\ rpc = "read" /\ answers # <<>> /\ msg' = Head(answers) /\ answers' = Tail(answers)
      /\ rpc' = "lock" /\ conn' = conn /\ sent' = sent /\ extra' = extra /\ lock' = lock
      /\ UNCHANGED <<callVars, clientVars>>
  BY Zenon DEF ReadMessage, clientVars
<1>2. /\ answers \in Seq(Message \cup {Extra})
      /\ 1 \in 1..Len(answers) /\ Head(answers) = answers[1]
      /\ Len(Tail(answers)) = Len(answers) - 1
      /\ \A i \in 1..Len(Tail(answers)) :
           i + 1 \in 1..Len(answers) /\ i + 1 # 1 /\ Tail(answers)[i] = answers[i + 1]
  BY <1>1 DEF ClientInv, TypeOK
<1>3. \A i, j \in 1..Len(Tail(answers)) : i + 1 = j + 1 => i = j
  BY <1>2
<1>4. TypeOK'
  <2>1. Head(answers) \in Message \cup {Extra} /\ Tail(answers) \in Seq(Message \cup {Extra})
    BY <1>1, <1>2
  <2> QED BY <1>1, <2>1, Zenon DEF ClientInv, TypeOK, callVars, clientVars
<1>5. rpc # "done" /\ rpc' # "done" /\ rpc' # "send" /\ lock # "reader" /\ ~Held
  BY <1>1 DEF ClientInv, CallsInv, Held
<1>6. CallsInv' /\ OwnAnswer' /\ \A r : Current(r)' = Current(r)
  BY <1>1, <1>5, CallersSame, Zenon DEF ClientInv, clientVars
<1>7. FlightInv'
  <2>1. \A i \in 1..Len(answers') : answers'[i] # Extra => Current(answers'[i])
    BY <1>1, <1>2, Zenon DEF ClientInv, FlightInv
  <2>2. msg' # Extra => Current(msg')
    BY <1>1, <1>2, Zenon DEF ClientInv, FlightInv
  <2>3. conn' => \A r \in sent' : Current(r)
    BY <1>1, Zenon DEF ClientInv, FlightInv
  <2>4. \A r : Current(r) => r \in Message /\ pc'[r.who] = "wait" /\ r = Request(r.who)'
    BY <1>6, Zenon DEF Current
  <2> QED BY <2>1, <2>2, <2>3, <2>4, Zenon DEF FlightInv, Held, Current
<1>8. OnceInv'
  <2>1. ASSUME NEW i \in 1..Len(answers'), NEW j \in 1..Len(answers'),
               answers'[i] = answers'[j], answers'[i] # Extra
        PROVE  i = j
    <3>1. /\ i + 1 \in 1..Len(answers) /\ j + 1 \in 1..Len(answers)
          /\ answers[i + 1] = answers[j + 1] /\ answers[i + 1] # Extra
      BY <1>1, <1>2, <2>1, Zenon
    <3>2. i + 1 = j + 1
      BY <3>1, Zenon DEF ClientInv, OnceInv
    <3> QED BY <1>1, <1>3, <3>2, Zenon
  <2>2. conn' => \A i \in 1..Len(answers') : answers'[i] \notin sent'
    BY <1>1, <1>2, Zenon DEF ClientInv, OnceInv
  <2>3. conn' => msg' \notin sent'
    BY <1>1, <1>2, Zenon DEF ClientInv, OnceInv
  <2>4. msg' # Extra => \A i \in 1..Len(answers') : answers'[i] # msg'
    BY <1>1, <1>2, Zenon DEF ClientInv, OnceInv
  <2> QED BY <2>1, <2>2, <2>3, <2>4, Zenon DEF OnceInv, Held
<1> QED BY <1>4, <1>6, <1>7, <1>8, Zenon DEF ClientInv

LEMMA ReaderTurnKeeps ==
  ASSUME ClientInv, ReadFails \/ Lookup
  PROVE  ClientInv'
<1>1. UNCHANGED <<callVars, calls, ended, closed, msg, netVars>>
  BY Zenon DEF ReadFails, Lookup, clientVars
<1>2. /\ rpc # "done" /\ rpc' # "done" /\ (lock' = "reader" <=> rpc' = "send")
      /\ rpc' \in {"read", "lock", "send", "close", "done"}
      /\ lock' \in {"free", "reader", "caller"}
      /\ rpc' = "send" => rpc = "lock"
      /\ rpc' # "lock"
  BY DEF ClientInv, TypeOK, CallsInv, ReadFails, Lookup, clientVars
<1>3. TypeOK'
  BY <1>1, <1>2, Zenon DEF ClientInv, TypeOK, callVars, netVars
<1>4. CallsInv' /\ OwnAnswer' /\ \A r : Current(r)' = Current(r)
  BY <1>1, <1>2, CallersSame, Zenon DEF ClientInv, netVars
<1>5. conn' = conn /\ sent' = sent /\ answers' = answers /\ msg' = msg /\ (Held' => Held)
  BY <1>1, <1>2, Zenon DEF Held, netVars
<1>6. \A r : Current(r) => r \in Message /\ pc'[r.who] = "wait" /\ r = Request(r.who)'
  BY <1>4, Zenon DEF Current
<1>7. FlightInv'
  BY <1>5, <1>6, Zenon DEF ClientInv, FlightInv, Current
<1>8. OnceInv'
  BY <1>5, Zenon DEF ClientInv, OnceInv
<1> QED BY <1>3, <1>4, <1>7, <1>8, Zenon DEF ClientInv

(***************************************************************************)
(* The caller whose channel the answer goes to is the one that it is for.  *)
(***************************************************************************)
LEMMA DeliverKeeps ==
  ASSUME ClientInv, NEW k \in Caller, Deliver(k)
  PROVE  ClientInv'
<1>1. /\ rpc = "send" /\ k \in Waiting /\ pc[k] = "wait" /\ got' = [got EXCEPT ![k] = {msg}]
      /\ pc' = [pc EXCEPT ![k] = "cleanup"] /\ lock' = "free" /\ rpc' = "read"
      /\ UNCHANGED <<mid, count, calls, ended, closed, msg, netVars>>
  BY Zenon DEF Deliver
<1>2. msg # Extra /\ msg \in Message /\ k \in calls[msg.mid] /\ Held
  <2>1. msg.mid # NOMID /\ k \in calls[msg.mid]
    BY <1>1, Zenon DEF Waiting
  <2>2. msg # Extra
    BY <2>1 DEF Extra
  <2> QED BY <1>1, <2>1, <2>2 DEF ClientInv, TypeOK, Held
<1>3. msg = Request(k) /\ Current(msg) /\ msg.who = k
  <2>1. Current(msg)
    BY <1>2, Zenon DEF ClientInv, FlightInv
  <2>2. msg.who \in Caller /\ msg.mid = mid[msg.who] /\ msg = Request(msg.who)
    <3>1. msg.who \in Caller /\ msg = Request(msg.who)
      BY <1>2, <2>1, ExtraIsNone, Zenon DEF Current
    <3>2. Request(msg.who).mid = mid[msg.who]
      BY Zenon DEF Request
    <3> QED BY <3>1, <3>2, Zenon
  <2>3. InCall(msg.who)
    BY <2>1 DEF Current, InCall
  <2>4. calls[msg.mid] = {msg.who}
    BY <2>2, <2>3, Zenon DEF ClientInv, CallsInv
  <2>5. k = msg.who
    BY <1>2, <2>4, Zenon
  <2> QED BY <2>1, <2>2, <2>5, Zenon
<1>4. TypeOK'
  BY <1>1, <1>2 DEF ClientInv, TypeOK, netVars
<1>5. \A j \in Caller : pc'[j] = IF j = k THEN "cleanup" ELSE pc[j]
  BY <1>1 DEF ClientInv, TypeOK
<1>6. CallsInv'
  <2>1. \A j \in Caller : InCall(j)' = InCall(j)
    BY <1>1, <1>5 DEF InCall
  <2>2. rpc # "done" /\ rpc' # "done" /\ rpc' # "send" /\ lock' # "reader"
    BY <1>1
  <2> QED BY <1>1, <2>1, <2>2, CallsSame, Zenon DEF ClientInv, netVars
<1>7. conn' = conn /\ sent' = sent /\ answers' = answers /\ ~Held'
  BY <1>1 DEF Held, netVars
<1>8. ASSUME NEW r, Current(r), r # msg
      PROVE  r \in Message /\ pc'[r.who] = "wait" /\ r = Request(r.who)'
  <2>1. r \in Message /\ r.who \in Caller /\ pc[r.who] = "wait" /\ r = Request(r.who)
    BY <1>8, ExtraIsNone, Zenon DEF Current
  <2>2. r.who # k
    BY <1>3, <1>8, <2>1, Zenon
  <2>3. Request(r.who)' = Request(r.who)
    BY <1>1, Zenon DEF Request
  <2> QED BY <1>5, <2>1, <2>2, <2>3, Zenon
<1>9. FlightInv'
  <2>1. conn => \A r \in sent : Current(r) /\ r # msg
    BY <1>2, Zenon DEF ClientInv, FlightInv, OnceInv
  <2>2. \A i \in 1..Len(answers) : answers[i] # Extra => Current(answers[i]) /\ answers[i] # msg
    BY <1>2, Zenon DEF ClientInv, FlightInv, OnceInv
  <2> QED BY <1>7, <1>8, <2>1, <2>2, Zenon DEF FlightInv, Current
<1>10. OnceInv'
  BY <1>7, Zenon DEF ClientInv, OnceInv
<1>11. OwnAnswer'
  BY <1>1, <1>3 DEF ClientInv, TypeOK, OwnAnswer, Request
<1> QED BY <1>4, <1>6, <1>9, <1>10, <1>11, Zenon DEF ClientInv

LEMMA CloseKeeps ==
  ASSUME ClientInv, ReaderClose \/ CommandClose
  PROVE  ClientInv'
<1>1. /\ ended' = IF closed THEN ended ELSE ended \cup UNION {calls[m] : m \in Mid}
      /\ closed' = TRUE /\ conn' = FALSE /\ answers' = <<>>
      /\ UNCHANGED <<calls, lock, sent, extra, callVars, msg>>
      /\ lock = "free"
  BY Zenon DEF ReaderClose, CommandClose, CloseClient, readerVars
<1>2. pc' = pc /\ mid' = mid /\ count' = count /\ got' = got
  BY <1>1, Zenon DEF callVars
<1>3. ended' \subseteq Caller
  <2>1. \A m \in Mid : calls[m] \subseteq Caller
    BY DEF ClientInv, TypeOK
  <2>2. UNION {calls[m] : m \in Mid} \subseteq Caller
    BY <2>1
  <2> QED BY <1>1, <2>2 DEF ClientInv, TypeOK
<1>4. /\ rpc' \in {"read", "lock", "send", "close", "done"} /\ rpc' # "send"
      /\ rpc' = rpc \/ rpc' = "done"
  BY <1>1 DEF ClientInv, TypeOK, CallsInv, ReaderClose, CommandClose, readerVars
<1>5. TypeOK'
  <2>1. answers' \in Seq(Message \cup {Extra})
    BY <1>1
  <2> QED BY <1>1, <1>2, <1>3, <1>4, <2>1, Zenon DEF ClientInv, TypeOK
<1>6. \A k \in Caller : InCall(k)' = InCall(k)
  BY <1>2, Zenon DEF InCall
<1>7. CallsInv'
  <2>1. \A k \in ended' : InCall(k)' => rpc' = "done"
    <3>1. CASE ReaderClose
      BY <3>1, Zenon DEF ReaderClose
    <3>2. CASE CommandClose
      <4>1. \A k \in Caller : ~InCall(k)
        BY <3>2 DEF CommandClose, InCall
      <4> QED BY <1>3, <1>6, <4>1, Zenon
    <3> QED BY <3>1, <3>2, Zenon
  <2>2. \A k \in Caller : InCall(k)' => calls'[mid'[k]] = {k} /\ count'[k] > 0
    BY <1>1, <1>2, <1>6, Zenon DEF ClientInv, CallsInv
  <2>3. \A m \in Mid : \A k \in calls'[m] : InCall(k)' /\ mid'[k] = m
    BY <1>1, <1>2, <1>6, Zenon DEF ClientInv, CallsInv, TypeOK
  <2>4. lock' # "reader"
    BY <1>1
  <2> QED BY <1>1, <1>4, <2>1, <2>2, <2>3, <2>4, Zenon DEF CallsInv
<1>8. Held' => Held /\ msg' = msg
  BY <1>1, <1>4 DEF Held
<1>9. FlightInv'
  <2>1. Held' => Current(msg)'
    BY <1>2, <1>8, Zenon DEF ClientInv, FlightInv, Current, Request
  <2>2. \A i \in 1..Len(answers') : FALSE
    BY <1>1
  <2> QED BY <1>1, <2>1, <2>2, Zenon DEF FlightInv
<1>10. OnceInv'
  BY <1>1 DEF OnceInv
<1>11. OwnAnswer'
  BY <1>2, Zenon DEF ClientInv, OwnAnswer, Request
<1> QED BY <1>5, <1>7, <1>9, <1>10, <1>11, Zenon DEF ClientInv

(***************************************************************************)
(* The server and the network: an answer takes the place of its request.   *)
(***************************************************************************)
LEMMA AppendProperties ==
  ASSUME NEW S, NEW s \in Seq(S), NEW r \in S
  PROVE  /\ Append(s, r) \in Seq(S)
         /\ \A i \in 1..Len(Append(s, r)) :
              \/ i \in 1..Len(s) /\ Append(s, r)[i] = s[i]
              \/ i = Len(s) + 1 /\ i \notin 1..Len(s) /\ Append(s, r)[i] = r
OBVIOUS

LEMMA ServerKeeps ==
  ASSUME ClientInv, SendExtra \/ ServerStep
  PROVE  ClientInv'
<1>1. PICK r \in Message \cup {Extra} :
        /\ answers' = Append(answers, r) /\ sent' = sent \ {r}
        /\ r # Extra => r \in sent
  <2>1. CASE SendExtra
    <3>1. sent' = sent \ {Extra}
      BY <2>1, ExtraIsNone, Zenon DEF SendExtra, ClientInv, TypeOK
    <3> QED BY <2>1, <3>1, Zenon DEF SendExtra
  <2>2. CASE ServerStep
    BY <2>2, Zenon DEF ServerStep, Answer, ClientInv, TypeOK
  <2> QED BY <2>1, <2>2, Zenon
<1>2. conn /\ conn' = conn /\ UNCHANGED <<callVars, clientVars, readerVars>>
  BY Zenon DEF SendExtra, ServerStep, Answer
<1>3. extra' \in 0..MaxExtra
  BY CallAssumption DEF SendExtra, ServerStep, Answer, ClientInv, TypeOK
<1>4. /\ answers' \in Seq(Message \cup {Extra})
      /\ \A i \in 1..Len(answers') :
           \/ i \in 1..Len(answers) /\ answers'[i] = answers[i]
           \/ i = Len(answers) + 1 /\ i \notin 1..Len(answers) /\ answers'[i] = r
  <2>1. answers \in Seq(Message \cup {Extra})
    BY DEF ClientInv, TypeOK
  <2>2. /\ Append(answers, r) \in Seq(Message \cup {Extra})
        /\ \A i \in 1..Len(Append(answers, r)) :
             \/ i \in 1..Len(answers) /\ Append(answers, r)[i] = answers[i]
             \/ i = Len(answers) + 1 /\ i \notin 1..Len(answers) /\ Append(answers, r)[i] = r
    BY <2>1, AppendProperties, Zenon
  <2> QED BY <1>1, <2>2, Zenon
<1>5. TypeOK'
  BY <1>1, <1>2, <1>3, <1>4, Zenon
  DEF ClientInv, TypeOK, callVars, clientVars, readerVars
<1>6. CallsInv' /\ OwnAnswer' /\ \A q : Current(q)' = Current(q)
  <2>1. rpc # "done"
    BY <1>2, Zenon DEF ClientInv, CallsInv
  <2> QED BY <1>2, <2>1, CallersSame, Zenon
          DEF ClientInv, CallsInv, clientVars, readerVars
<1>7. Held' = Held /\ msg' = msg
  BY <1>2, Zenon DEF Held, readerVars
<1>8. \A q : Current(q) => q \in Message /\ pc'[q.who] = "wait" /\ q = Request(q.who)'
  BY <1>6, Zenon DEF Current
<1>9. FlightInv'
  <2>1. \A q \in sent' : Current(q)
    BY <1>1, <1>2, Zenon DEF ClientInv, FlightInv
  <2>2. \A i \in 1..Len(answers') : answers'[i] # Extra => Current(answers'[i])
    BY <1>1, <1>2, <1>4, Zenon DEF ClientInv, FlightInv
  <2>3. Held => Current(msg)
    BY Zenon DEF ClientInv, FlightInv
  <2> QED BY <1>7, <1>8, <2>1, <2>2, <2>3, Zenon DEF FlightInv, Current
<1>10. OnceInv'
  <2>1. ASSUME NEW i \in 1..Len(answers)
        PROVE  answers[i] \notin sent
    BY <1>2, Zenon DEF ClientInv, OnceInv
  <2>2. ASSUME NEW i \in 1..Len(answers'), NEW j \in 1..Len(answers'),
               answers'[i] = answers'[j], answers'[i] # Extra
        PROVE  i = j
    <3>1. CASE r = answers'[i]
      <4>1. r \in sent
        BY <1>1, <2>2, <3>1, Zenon
      <4> QED BY <1>4, <2>1, <2>2, <3>1, <4>1, Zenon
    <3>2. CASE r # answers'[i]
      <4>1. /\ i \in 1..Len(answers) /\ answers'[i] = answers[i]
            /\ j \in 1..Len(answers) /\ answers'[j] = answers[j]
        BY <1>4, <2>2, <3>2, Zenon
      <4> QED BY <2>2, <4>1, Zenon DEF ClientInv, OnceInv
    <3> QED BY <3>1, <3>2, Zenon
  <2>3. \A i \in 1..Len(answers') : answers'[i] \notin sent'
    BY <1>1, <1>4, <2>1, Zenon
  <2>4. Held => msg \notin sent' /\ \A i \in 1..Len(answers') : answers'[i] # msg
    BY <1>1, <1>2, <1>4, Zenon DEF ClientInv, OnceInv, Held
  <2> QED BY <1>7, <2>2, <2>3, <2>4, Zenon DEF OnceInv
<1> QED BY <1>5, <1>6, <1>9, <1>10, Zenon DEF ClientInv

LEMMA BreakKeeps ==
  ASSUME ClientInv, Break
  PROVE  ClientInv'
<1>1. PICK n \in 0..Len(answers) : answers' = SubSeq(answers, 1, n)
  BY Zenon DEF Break
<1>2. /\ conn /\ conn' = FALSE /\ sent' = {} /\ extra' = extra
      /\ UNCHANGED <<callVars, clientVars, readerVars>>
  BY Zenon DEF Break
<1>3. /\ answers' \in Seq(Message \cup {Extra})
      /\ \A i \in 1..Len(answers') : i \in 1..Len(answers) /\ answers'[i] = answers[i]
  BY <1>1 DEF ClientInv, TypeOK
<1>4. TypeOK'
  BY <1>2, <1>3, Zenon DEF ClientInv, TypeOK, callVars, clientVars, readerVars
<1>5. CallsInv' /\ OwnAnswer' /\ \A q : Current(q)' = Current(q)
  <2>1. rpc # "done"
    BY <1>2, Zenon DEF ClientInv, CallsInv
  <2> QED BY <1>2, <2>1, CallersSame, Zenon
          DEF ClientInv, CallsInv, clientVars, readerVars
<1>6. Held' = Held /\ msg' = msg
  BY <1>2, Zenon DEF Held, readerVars
<1>7. \A q : Current(q) => q \in Message /\ pc'[q.who] = "wait" /\ q = Request(q.who)'
  BY <1>5, Zenon DEF Current
<1>8. FlightInv'
  <2>1. \A i \in 1..Len(answers') : answers'[i] # Extra => Current(answers'[i])
    BY <1>3, Zenon DEF ClientInv, FlightInv
  <2>2. Held => Current(msg)
    BY Zenon DEF ClientInv, FlightInv
  <2> QED BY <1>2, <1>6, <1>7, <2>1, <2>2, Zenon DEF FlightInv, Current
<1>9. OnceInv'
  BY <1>2, <1>3, <1>6, Zenon DEF ClientInv, OnceInv
<1> QED BY <1>4, <1>5, <1>8, <1>9, Zenon DEF ClientInv

-----------------------------------------------------------------------------
LEMMA ClientNext ==
  ClientInv /\ [Next]_vars => ClientInv'
<1> SUFFICES ASSUME ClientInv, [Next]_vars
             PROVE  ClientInv'
  OBVIOUS
<1>1. ASSUME NEW k \in Caller, NewCall(k) \/ NewCallSpins(k) \/ NewCallClosed(k) \/ CallStep(k)
      PROVE  ClientInv'
  BY <1>1, NewCallKeeps, NewCallFailsKeeps, WriteKeeps, CallFailsKeeps, CleanupKeeps, Zenon
  DEF CallStep
<1>2. CASE ReaderStep
  BY <1>2, ReadMessageKeeps, ReaderTurnKeeps, CloseKeeps, DeliverKeeps, Zenon DEF ReaderStep
<1>3. CASE CommandClose
  BY <1>3, CloseKeeps, Zenon
<1>4. CASE ServerStep \/ SendExtra
  BY <1>4, ServerKeeps, Zenon
<1>5. CASE Break
  BY <1>5, BreakKeeps, Zenon
<1>6. CASE UNCHANGED vars
  <2>1. UNCHANGED <<callVars, calls, ended, closed, lock, rpc, msg, conn, sent, answers, extra>>
    BY <1>6, Zenon DEF vars, clientVars, readerVars, netVars
  <2>2. TypeOK'
    BY <2>1, Zenon DEF ClientInv, TypeOK, callVars
  <2>3. CallsInv' /\ OwnAnswer' /\ \A q : Current(q)' = Current(q)
    BY <2>1, CallersSame, Zenon DEF ClientInv, CallsInv
  <2>4. Held' = Held
    BY <2>1, Zenon DEF Held
  <2>5. FlightInv'
    BY <2>1, <2>4, Zenon DEF ClientInv, FlightInv, Current, Request, callVars
  <2>6. OnceInv'
    BY <2>1, <2>4, Zenon DEF ClientInv, OnceInv
  <2> QED BY <2>2, <2>3, <2>5, <2>6, Zenon DEF ClientInv
<1> QED BY <1>1, <1>2, <1>3, <1>4, <1>5, <1>6, Zenon DEF Next

(***************************************************************************)
(* However many goroutines share a client, in whatever order the server    *)
(* answers and however often an id is used again, Call returns the answer  *)
(* to its own request.                                                     *)
(***************************************************************************)
THEOREM AnswersOwn == Spec => []OwnAnswer
<1>1. ClientInv => OwnAnswer
  BY Zenon DEF ClientInv
<1> QED BY <1>1, ClientInit, ClientNext, PTL DEF Spec

(***************************************************************************)
(* readMessages never sends on a channel that Close has closed.            *)
(***************************************************************************)
THEOREM NeverPanics == Spec => []NoPanic
<1>1. ClientInv => NoPanic
  <2> SUFFICES ASSUME ClientInv, rpc = "send", NEW k \in Waiting, k \in ended
               PROVE  FALSE
    BY Zenon DEF NoPanic
  <2>1. msg \in Message /\ msg.mid \in Mid /\ k \in calls[msg.mid]
    BY ExtraIsNone DEF Waiting, ClientInv, TypeOK, Extra
  <2>2. InCall(k)
    BY <2>1, Zenon DEF ClientInv, CallsInv
  <2>3. rpc = "done"
    BY <2>2, Zenon DEF ClientInv, CallsInv
  <2> QED BY <2>3
<1> QED BY <1>1, ClientInit, ClientNext, PTL DEF Spec

(***************************************************************************)
(* Every variable has its type; in particular a call that was given an id  *)
(* has one that newCall may give, and never NOMID.                         *)
(***************************************************************************)
THEOREM TypesHold == Spec => []TypeOK
<1>1. ClientInv => TypeOK
  BY Zenon DEF ClientInv
<1> QED BY <1>1, ClientInit, ClientNext, PTL DEF Spec
=============================================================================
