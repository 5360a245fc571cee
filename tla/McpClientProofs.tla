--------------------------- MODULE McpClientProofs ---------------------------
(* Proofs about McpClient, for any set of calls and any number of sockets. *)
EXTENDS McpClient, SequenceTheorems, TLAPS

(* A call that waits does so in one place, and it has no answer yet.       *)
PendingDistinct == \A i, j \in 1..Len(pending) : pending[i] = pending[j] => i = j

OneConnector ==
  \A s, t \in Sockets : connector[s] # NoCall /\ connector[s] = connector[t] => s = t

Apart == \A s \in Sockets, i \in 1..Len(pending) : connector[s] # pending[i]

Unanswered ==
  /\ \A s \in Sockets : connector[s] # NoCall => answer[connector[s]] = NoCall
  /\ \A i \in 1..Len(pending) : answer[pending[i]] = NoCall

SocketsInOrder ==
  /\ socket <= created
  /\ \A s \in Sockets : /\ state[s] = "connecting" => connector[s] # NoCall
                        /\ s > created <=> state[s] = "unused"

Waiting == PendingDistinct /\ OneConnector /\ Apart /\ Unanswered

IInv == TypeOK /\ SocketsInOrder /\ Waiting

-----------------------------------------------------------------------------
(* At most the first connection lost: what the sockets, the listeners and  *)
(* the two queues have to do with each other.                              *)

Listened(s) == state[s] = "open" /\ listening[s] > 0
NoCloseDue == \A s \in Sockets : ~closeDue[s]

(* The newest socket is the only one that anything can come from.          *)
Newest ==
  /\ socket \in {NoSocket, created}
  /\ \A s \in Sockets : state[s] = "connecting" => s = created
  /\ \A s \in Sockets : state[s] = "connecting" /\ s = 1 => socket = s
  /\ \A s \in Sockets : Listened(s) => socket = s /\ NoCloseDue
  /\ \A s \in Sockets : state[s] = "open" /\ socket = s => Listened(s)

Listeners ==
  /\ \A s \in Sockets : listening[s] <= 1
  /\ \A s \in Sockets : state[s] \in {"unused", "connecting"} => listening[s] = 0
  /\ \A s \in Sockets : state[s] = "unused" => written[s] = <<>>
  /\ \A s \in Sockets : closeDue[s] => state[s] = "destroyed"

(* The n-th of pending waits for the n-th response of the socket.          *)
InStep ==
  /\ \A s \in Sockets : Listened(s) => pending = written[s]
  /\ \A s \in Sockets : state[s] = "connecting" /\ socket = s /\ NoCloseDue => pending = written[s]
  /\ ~Reused /\ NoCloseDue => pending = <<>>

OneLossInv == OneLoss => Newest /\ Listeners /\ InStep

OwnInv == OwnAnswer /\ OneLossInv

-----------------------------------------------------------------------------
(* Lemmas.                                                                 *)

(* Appending leaves the elements before as they are.                       *)
LEMMA AppendKeeps ==
  ASSUME NEW S, NEW s \in Seq(S), NEW x \in S
  PROVE  /\ Append(s, x) \in Seq(S) /\ Len(Append(s, x)) = Len(s) + 1 /\ Len(s) \in Nat
         /\ Append(s, x)[Len(s) + 1] = x
         /\ \A i \in 1..Len(s) : Append(s, x)[i] = s[i] /\ s[i] \in S
OBVIOUS

(* Dropping the first k elements shifts the others.                        *)
LEMMA DropShifts ==
  ASSUME NEW S, NEW s \in Seq(S), NEW k \in 0..Len(s)
  PROVE  /\ SubSeq(s, k + 1, Len(s)) \in Seq(S)
         /\ Len(SubSeq(s, k + 1, Len(s))) = Len(s) - k
         /\ \A i \in 1..Len(s) - k : i + k \in 1..Len(s) /\ SubSeq(s, k + 1, Len(s))[i] = s[i + k]
<1>1. \A i \in (k + 1)..Len(s) : s[i] \in S
  OBVIOUS
<1> QED  BY <1>1, SubSeqProperties

(* The number of data listeners that find a resolver.                      *)
Served(s) == IF listening[s] > Len(pending) THEN Len(pending) ELSE listening[s]

LEMMA ServedType ==
  ASSUME TypeOK, NEW s \in Sockets
  PROVE  Served(s) \in 0..Len(pending)
<1>1. Len(pending) \in Nat /\ listening[s] \in Nat
  BY DEF TypeOK
<1> QED  BY <1>1 DEF Served

-----------------------------------------------------------------------------
(* Type correctness.                                                       *)

LEMMA TypeInit == Init => IInv
<1> SUFFICES ASSUME Init PROVE IInv
  OBVIOUS
<1>1. TypeOK
  <2>1. pending \in Seq(Calls) /\ written \in [Sockets -> Seq(Calls)]
    BY EmptySeq DEF Init
  <2>2. created \in 0..MaxSockets /\ socket \in Sockets \cup {NoSocket}
    BY ClientAssumption DEF Init
  <2>3. /\ state \in [Sockets -> {"unused", "connecting", "open", "destroyed"}]
        /\ connector \in [Sockets -> Calls \cup {NoCall}]
        /\ listening \in [Sockets -> Nat] /\ closeDue \in [Sockets -> BOOLEAN]
        /\ answer \in [Calls -> Calls \cup {NoCall, Failed}] /\ cutOff \in BOOLEAN
        /\ \A s \in Sockets : connector[s] = NoCall
    BY DEF Init
  <2> QED  BY <2>1, <2>2, <2>3 DEF TypeOK
<1>2. SocketsInOrder
  BY ClientAssumption DEF Init, SocketsInOrder, Sockets, NoSocket
<1>3. Waiting
  BY DEF Init, Waiting, PendingDistinct, OneConnector, Apart, Unanswered
<1> QED  BY <1>1, <1>2, <1>3 DEF IInv

LEMMA DestroyTypes ==
  ASSUME TypeOK, SocketsInOrder, NEW s \in Sockets, Destroy(s), state[s] # "unused"
  PROVE  /\ state' \in [Sockets -> {"unused", "connecting", "open", "destroyed"}]
         /\ closeDue' \in [Sockets -> BOOLEAN]
         /\ written' \in [Sockets -> Seq(Calls)]
         /\ \A t \in Sockets : t # s => state'[t] = state[t]
         /\ state'[s] = "destroyed"
BY EmptySeq DEF TypeOK, SocketsInOrder, Destroy

LEMMA TypeStep ==
  ASSUME TypeOK, SocketsInOrder, [Next]_vars
  PROVE  TypeOK' /\ SocketsInOrder'
<1> USE DEF TypeOK, SocketsInOrder
<1>1. CASE UNCHANGED vars
  BY <1>1 DEF vars
<1>2. ASSUME NEW c \in Calls, Send(c) PROVE TypeOK' /\ SocketsInOrder'
  <2>1. socket \in Sockets
    BY <1>2 DEF Send, Reused
  <2>2. pending' \in Seq(Calls) /\ written' \in [Sockets -> Seq(Calls)]
    BY <1>2, <2>1, AppendKeeps DEF Send
  <2> QED  BY <1>2, <2>2 DEF Send
<1>3. ASSUME NEW c \in Calls, Connect(c) PROVE TypeOK' /\ SocketsInOrder'
  <2>1. created + 1 \in Sockets /\ created' = created + 1
    BY <1>3, ClientAssumption DEF Connect, Sockets
  <2> QED  BY <1>3, <2>1, ClientAssumption DEF Connect, Sockets
<1>4. CASE StopDaemon
  <2>1. socket \in Sockets /\ state[socket] # "unused"
    BY <1>4, ClientAssumption DEF StopDaemon, Reused, Sockets
  <2> QED  BY <1>4, <2>1, DestroyTypes DEF StopDaemon
<1>5. ASSUME NEW s \in Sockets, Connected(s) PROVE TypeOK' /\ SocketsInOrder'
  <2>1. connector[s] \in Calls
    BY <1>5 DEF Connected
  <2>2. /\ state' \in [Sockets -> {"unused", "connecting", "open", "destroyed"}]
        /\ connector' \in [Sockets -> Calls \cup {NoCall}]
        /\ \A t \in Sockets : state'[t] \in {"unused", "open"} => connector'[t] = NoCall
        /\ \A t \in Sockets : state'[t] = "connecting" => connector'[t] # NoCall
        /\ \A t \in Sockets : t > created => state'[t] = "unused"
    BY <1>5 DEF Connected, Settled
  <2>3. /\ listening' \in [Sockets -> Nat] /\ pending' \in Seq(Calls)
        /\ written' \in [Sockets -> Seq(Calls)] /\ answer' \in [Calls -> Calls \cup {NoCall, Failed}]
    <3>1. CASE socket # NoSocket /\ SendOn(socket, connector[s]) /\ UNCHANGED answer
      <4>1. socket \in Sockets
        BY <3>1
      <4>2. listening' \in [Sockets -> Nat]
        BY <3>1, <4>1 DEF SendOn
      <4>3. pending' \in Seq(Calls) /\ written' \in [Sockets -> Seq(Calls)]
        BY <2>1, <3>1, <4>1, AppendKeeps DEF SendOn
      <4> QED  BY <3>1, <4>2, <4>3
    <3>2. CASE /\ answer' = [answer EXCEPT ![connector[s]] = Failed]
               /\ UNCHANGED <<listening, pending, written>>
      BY <3>2
    <3> QED  BY <1>5, <3>1, <3>2 DEF Connected
  <2> QED  BY <1>5, <2>2, <2>3 DEF Connected
<1>6. ASSUME NEW s \in Sockets, ConnectFails(s) PROVE TypeOK' /\ SocketsInOrder'
  <2>1. /\ connector' \in [Sockets -> Calls \cup {NoCall}] /\ connector'[s] = NoCall
        /\ \A t \in Sockets : t # s => connector'[t] = connector[t]
        /\ answer' \in [Calls -> Calls \cup {NoCall, Failed}]
    BY <1>6 DEF ConnectFails, Settled
  <2> QED  BY <1>6, <2>1, DestroyTypes DEF ConnectFails
<1>7. ASSUME NEW s \in Sockets, Lost(s) PROVE TypeOK' /\ SocketsInOrder'
  BY <1>7, DestroyTypes DEF Lost
<1>8. ASSUME NEW s \in Sockets, Respond(s) PROVE TypeOK' /\ SocketsInOrder'
  <2>1. pending' \in Seq(Calls)
    BY <1>8, ServedType, DropShifts DEF Respond, Served
  <2>2. Head(written[s]) \in Calls /\ Tail(written[s]) \in Seq(Calls)
    BY <1>8 DEF Respond
  <2>3. written' \in [Sockets -> Seq(Calls)]
    BY <1>8, <2>2 DEF Respond
  <2>4. answer' \in [Calls -> Calls \cup {NoCall, Failed}]
    BY <1>8, <2>2 DEF Respond
  <2> QED  BY <1>8, <2>1, <2>3, <2>4 DEF Respond
<1>9. ASSUME NEW s \in Sockets, CloseEvent(s) PROVE TypeOK' /\ SocketsInOrder'
  BY <1>9, EmptySeq DEF CloseEvent, PendingAfterClose, NoSocket
<1> QED
  BY <1>1, <1>2, <1>3, <1>4, <1>5, <1>6, <1>7, <1>8, <1>9 DEF Next

(* Every state of McpClient is of its type: the calls, sockets and queues  *)
(* of DaemonClient refer to each other as declared.                        *)
THEOREM TypeCorrect == Spec => []TypeOK
<1>1. Init => TypeOK /\ SocketsInOrder
  BY TypeInit DEF IInv
<1>2. TypeOK /\ SocketsInOrder /\ [Next]_vars => TypeOK' /\ SocketsInOrder'
  BY TypeStep
<1> QED  BY <1>1, <1>2, PTL DEF Spec

-----------------------------------------------------------------------------
(* A call waits in one place, and is settled once.                         *)

(* A call that neither waits nor has an answer joins the end of pending.   *)
LEMMA WaitingAppended ==
  ASSUME IInv, NEW c \in Calls, answer[c] = NoCall,
         \A i \in 1..Len(pending) : pending[i] # c,
         \A s \in Sockets : connector'[s] # c,
         \A s \in Sockets : connector'[s] \in {connector[s], NoCall},
         pending' = Append(pending, c), UNCHANGED answer
  PROVE  Waiting'
<1> USE DEF IInv, TypeOK, Waiting
<1>1. /\ Len(pending') = Len(pending) + 1 /\ Len(pending) \in Nat
      /\ pending'[Len(pending) + 1] = c
      /\ \A i \in 1..Len(pending) : pending'[i] = pending[i] /\ pending[i] \in Calls
  BY AppendKeeps
<1>2. PendingDistinct'
  BY <1>1 DEF PendingDistinct
<1>3. OneConnector'
  BY DEF OneConnector
<1>4. Apart'
  BY <1>1, ClientAssumption DEF Apart
<1>5. Unanswered'
  BY <1>1 DEF Unanswered
<1> QED  BY <1>2, <1>3, <1>4, <1>5

(* The first k of pending leave it and alone get an answer.                *)
LEMMA WaitingServed ==
  ASSUME IInv, NEW k \in 0..Len(pending),
         pending' = SubSeq(pending, k + 1, Len(pending)),
         \A c \in Calls : c \notin Resolved(k) => answer'[c] = answer[c],
         UNCHANGED connector
  PROVE  Waiting'
<1> USE DEF IInv, TypeOK, Waiting
<1>1. /\ Len(pending') = Len(pending) - k /\ Len(pending) \in Nat
      /\ \A i \in 1..Len(pending) - k : i + k \in 1..Len(pending) /\ pending'[i] = pending[i + k]
  BY DropShifts
<1>2. \A i \in 1..Len(pending) : pending[i] \in Calls
  OBVIOUS
<1>3. \A i \in 1..Len(pending') : pending'[i] \in Calls \ Resolved(k)
  <2> SUFFICES ASSUME NEW i \in 1..Len(pending') PROVE pending'[i] \in Calls \ Resolved(k)
    OBVIOUS
  <2>1. i + k \in 1..Len(pending) /\ pending'[i] = pending[i + k] /\ i + k > k
    BY <1>1
  <2>2. \A j \in 1..k : pending[j] # pending[i + k]
    BY <2>1 DEF PendingDistinct
  <2> QED  BY <1>2, <2>1, <2>2 DEF Resolved
<1>4. PendingDistinct'
  <2> SUFFICES ASSUME NEW i \in 1..Len(pending'), NEW j \in 1..Len(pending'), pending'[i] = pending'[j]
               PROVE  i = j
    BY DEF PendingDistinct
  <2>1. i + k = j + k
    BY <1>1 DEF PendingDistinct
  <2> QED  BY <2>1
<1>5. OneConnector'
  BY DEF OneConnector
<1>6. Apart'
  BY <1>1 DEF Apart
<1>7. Unanswered'
  <2>1. \A s \in Sockets : connector[s] # NoCall => connector[s] \in Calls /\ connector[s] \notin Resolved(k)
    BY <1>1 DEF Apart, Resolved
  <2>2. \A i \in 1..Len(pending') : answer[pending'[i]] = NoCall
    BY <1>1 DEF Unanswered
  <2> QED  BY <1>3, <2>1, <2>2 DEF Unanswered
<1> QED  BY <1>4, <1>5, <1>6, <1>7

(* The call that awaited a connection fails, if anything.                  *)
LEMMA WaitingFailed ==
  ASSUME IInv, NEW s \in Sockets, connector[s] \in Calls,
         connector' = Settled(s),
         answer' = [answer EXCEPT ![connector[s]] = Failed],
         UNCHANGED pending
  PROVE  Waiting'
<1> USE DEF IInv, TypeOK, Waiting
<1>1. connector'[s] = NoCall /\ \A t \in Sockets : t # s => connector'[t] = connector[t]
  BY DEF Settled
<1>2. PendingDistinct'
  BY DEF PendingDistinct
<1>3. OneConnector'
  BY <1>1 DEF OneConnector
<1>4. \A i \in 1..Len(pending) : pending[i] \in Calls
  OBVIOUS
<1>5. Apart'
  BY <1>1, <1>4, ClientAssumption DEF Apart
<1>6. Unanswered'
  <2>1. \A t \in Sockets : connector'[t] # NoCall => answer'[connector'[t]] = NoCall
    <3> SUFFICES ASSUME NEW t \in Sockets, connector'[t] # NoCall
                 PROVE  answer'[connector'[t]] = NoCall
      OBVIOUS
    <3>1. t # s /\ connector'[t] = connector[t] /\ connector[t] \in Calls
      BY <1>1
    <3>2. connector[t] # connector[s]
      BY <3>1 DEF OneConnector
    <3> QED  BY <3>1, <3>2 DEF Unanswered
  <2>2. \A i \in 1..Len(pending) : answer'[pending[i]] = NoCall
    BY <1>4 DEF Unanswered, Apart
  <2> QED  BY <2>1, <2>2 DEF Unanswered
<1> QED  BY <1>2, <1>3, <1>5, <1>6

(* Only a call that waits gets an answer.                                  *)
AnswersKept == \A c \in Calls : answer[c] # NoCall => answer'[c] = answer[c]

LEMMA WaitingStep ==
  ASSUME IInv, [Next]_vars
  PROVE  Waiting' /\ AnswersKept
<1> USE DEF IInv, TypeOK
<1>0. ASSUME UNCHANGED <<pending, connector, answer>> PROVE Waiting' /\ AnswersKept
  BY <1>0 DEF Waiting, PendingDistinct, OneConnector, Apart, Unanswered, AnswersKept
<1>1. CASE UNCHANGED vars
  BY <1>0, <1>1 DEF vars
<1>2. ASSUME NEW c \in Calls, Send(c) PROVE Waiting' /\ AnswersKept
  BY <1>2, WaitingAppended DEF Send, Fresh, Waits, AnswersKept
<1>3. ASSUME NEW c \in Calls, Connect(c) PROVE Waiting' /\ AnswersKept
  <2>1. /\ created + 1 \in Sockets /\ connector' = [connector EXCEPT ![created + 1] = c]
        /\ UNCHANGED <<pending, answer>>
        /\ answer[c] = NoCall
    BY <1>3, ClientAssumption DEF Connect, Sockets, Fresh
  <2>2. (\A s \in Sockets : connector[s] # c) /\ \A i \in 1..Len(pending) : pending[i] # c
    BY <1>3 DEF Connect, Fresh, Waits
  <2> QED  BY <2>1, <2>2 DEF Waiting, PendingDistinct, OneConnector, Apart, Unanswered, AnswersKept
<1>4. CASE StopDaemon
  BY <1>0, <1>4 DEF StopDaemon
<1>5. ASSUME NEW s \in Sockets, Connected(s) PROVE Waiting' /\ AnswersKept
  <2>1. connector[s] \in Calls /\ answer[connector[s]] = NoCall
    BY <1>5 DEF Connected, SocketsInOrder, Waiting, Unanswered
  <2>2. CASE socket # NoSocket /\ SendOn(socket, connector[s]) /\ UNCHANGED answer
    <3>1. /\ \A t \in Sockets : connector'[t] # connector[s]
          /\ \A t \in Sockets : connector'[t] \in {connector[t], NoCall}
      BY <1>5, <2>1, ClientAssumption DEF Connected, Settled, Waiting, OneConnector
    <3>2. \A i \in 1..Len(pending) : pending[i] # connector[s]
      BY DEF Waiting, Apart
    <3> QED  BY <2>1, <2>2, <3>1, <3>2, WaitingAppended DEF SendOn, AnswersKept
  <2>3. CASE /\ answer' = [answer EXCEPT ![connector[s]] = Failed]
             /\ UNCHANGED pending
    BY <1>5, <2>1, <2>3, WaitingFailed DEF Connected, AnswersKept
  <2> QED  BY <1>5, <2>2, <2>3 DEF Connected
<1>6. ASSUME NEW s \in Sockets, ConnectFails(s) PROVE Waiting' /\ AnswersKept
  <2>1. connector[s] \in Calls /\ answer[connector[s]] = NoCall
    BY <1>6 DEF ConnectFails, SocketsInOrder, Waiting, Unanswered
  <2> QED  BY <1>6, <2>1, WaitingFailed DEF ConnectFails, AnswersKept
<1>7. ASSUME NEW s \in Sockets, Lost(s) PROVE Waiting' /\ AnswersKept
  BY <1>0, <1>7 DEF Lost
<1>8. ASSUME NEW s \in Sockets, Respond(s) PROVE Waiting' /\ AnswersKept
  <2>1. Served(s) \in 0..Len(pending) /\ Len(pending) \in Nat
    BY ServedType
  <2>2. /\ pending' = SubSeq(pending, Served(s) + 1, Len(pending))
        /\ \A c \in Calls : c \notin Resolved(Served(s)) => answer'[c] = answer[c]
        /\ UNCHANGED connector
    BY <1>8 DEF Respond, Served
  <2>3. Waiting'
    BY <2>1, <2>2, WaitingServed
  <2>4. \A c \in Resolved(Served(s)) : answer[c] = NoCall
    <3>1. \A i \in 1..Served(s) : i \in 1..Len(pending)
      BY <2>1
    <3> QED  BY <3>1 DEF Resolved, Waiting, Unanswered
  <2> QED  BY <2>2, <2>3, <2>4 DEF AnswersKept
<1>9. ASSUME NEW s \in Sockets, CloseEvent(s) PROVE Waiting' /\ AnswersKept
  <2>1. /\ pending' = <<>> /\ UNCHANGED connector
        /\ \A c \in Calls : c \notin SettledByClose => answer'[c] = answer[c]
    BY <1>9 DEF CloseEvent, PendingAfterClose
  <2>2. \A c \in SettledByClose : answer[c] = NoCall
    BY DEF SettledByClose, Waiting, Unanswered
  <2>3. \A t \in Sockets : connector[t] # NoCall => connector[t] \in Calls \ SettledByClose
    BY DEF SettledByClose, Waiting, Apart
  <2> QED  BY <2>1, <2>2, <2>3 DEF Waiting, PendingDistinct, OneConnector, Apart, Unanswered, AnswersKept
<1> QED
  BY <1>1, <1>2, <1>3, <1>4, <1>5, <1>6, <1>7, <1>8, <1>9 DEF Next

LEMMA IInvStep == IInv /\ [Next]_vars => IInv'
BY TypeStep, WaitingStep DEF IInv

(* However connections are lost, refused and stopped, an answer or error   *)
(* of a tool call is final: the listeners shift a resolver off pending     *)
(* before they call it, and the close listener empties pending.            *)
THEOREM CallsSettledOnce == Spec => SettledOnce
<1>1. IInv /\ [Next]_vars => [\A c \in Calls : answer[c] # NoCall => answer'[c] = answer[c]]_vars
  BY WaitingStep DEF AnswersKept
<1> QED  BY TypeInit, IInvStep, <1>1, PTL DEF Spec, SettledOnce

-----------------------------------------------------------------------------
(* Own answers, over one loss.                                             *)

LEMMA OwnInit == Init => OwnInv
<1> SUFFICES ASSUME Init PROVE OwnInv
  OBVIOUS
<1>1. OwnAnswer
  BY DEF Init, OwnAnswer
<1>2. Newest
  BY DEF Init, Newest, Listened, NoSocket
<1>3. Listeners
  BY DEF Init, Listeners
<1>4. InStep
  BY DEF Init, InStep, Listened
<1> QED  BY <1>1, <1>2, <1>3, <1>4 DEF OwnInv, OneLossInv

(* Steps within one loss.                                                  *)
LEMMA OwnSend ==
  ASSUME IInv, Newest, Listeners, InStep, NEW c \in Calls, Send(c)
  PROVE  Newest' /\ Listeners' /\ InStep'
<1> USE DEF IInv, TypeOK
<1>1. socket \in Sockets /\ Reused
  BY DEF Send, Reused
<1>2. /\ pending' = Append(pending, c) /\ written' = [written EXCEPT ![socket] = Append(@, c)]
      /\ UNCHANGED <<created, socket, state, listening, closeDue>>
  BY DEF Send
<1>3. Newest'
  BY <1>2 DEF Newest, Listened, NoCloseDue
<1>4. state[socket] # "unused"
  BY <1>1, ClientAssumption DEF SocketsInOrder, Sockets
<1>5. Listeners'
  BY <1>1, <1>2, <1>4 DEF Listeners
<1>6. InStep'
  BY <1>1, <1>2 DEF InStep, Newest, Listened, NoCloseDue, Reused
<1> QED  BY <1>3, <1>5, <1>6

LEMMA OwnConnect ==
  ASSUME IInv, Newest, Listeners, InStep, NEW c \in Calls, Connect(c), created' <= 2
  PROVE  Newest' /\ Listeners' /\ InStep'
<1> USE DEF IInv, TypeOK
<1> DEFINE new == created + 1
<1>1. /\ new \in Sockets /\ new # NoSocket /\ ~Reused
      /\ created' = new /\ socket' = new
      /\ state' = [state EXCEPT ![new] = "connecting"]
      /\ UNCHANGED <<pending, listening, closeDue, written>>
  BY ClientAssumption DEF Connect, Sockets, NoSocket
<1>2. state[new] = "unused" /\ listening[new] = 0 /\ written[new] = <<>>
  BY <1>1 DEF SocketsInOrder, Listeners
<1>3. \A s \in Sockets : state[s] # "connecting" /\ ~Listened(s)
  <2> SUFFICES ASSUME NEW s \in Sockets, state[s] = "connecting" \/ Listened(s) PROVE FALSE
    OBVIOUS
  <2>1. CASE Listened(s)
    BY <1>1, <2>1 DEF Newest, Listened, Reused, Sockets, NoSocket
  <2>2. CASE state[s] = "connecting"
    <3>1. s = created /\ created = 1
      BY <1>1, <2>2 DEF Newest, Sockets
    <3> QED  BY <1>1, <2>2, <3>1 DEF Newest, Reused, NoSocket
  <2> QED  BY <2>1, <2>2
<1> HIDE DEF new
<1>4. \A s \in Sockets : s # new => state'[s] = state[s]
  BY <1>1
<1>5. state'[new] = "connecting"
  BY <1>1
<1>6. Newest'
  BY <1>1, <1>3, <1>4, <1>5 DEF Newest, Listened, NoCloseDue
<1>7. Listeners'
  <2>1. \A s \in Sockets : closeDue[s] => s # new
    BY <1>2 DEF Listeners
  <2> QED  BY <1>1, <1>2, <1>4, <1>5, <2>1 DEF Listeners
<1>8. InStep'
  BY <1>1, <1>2, <1>3, <1>4, <1>5 DEF InStep, Listened, NoCloseDue, Reused
<1> QED  BY <1>6, <1>7, <1>8

(* The queues of the newest socket were in step before the call that       *)
(* awaited the connection joins them; without a socket nobody listens.     *)
LEMMA OwnConnected ==
  ASSUME IInv, Newest, Listeners, InStep, NEW s \in Sockets, Connected(s)
  PROVE  Newest' /\ Listeners' /\ InStep'
<1> USE DEF IInv, TypeOK
<1>1. /\ state[s] = "connecting" /\ NoCloseDue /\ s = created
      /\ state' = [state EXCEPT ![s] = "open"]
      /\ UNCHANGED <<created, socket, closeDue>>
      /\ listening[s] = 0
  BY DEF Connected, NoCloseDue, Newest, Listeners
<1>2. \A t \in Sockets : t # s => state'[t] = state[t] /\ state[t] # "connecting"
  BY <1>1 DEF Newest
<1>3. state'[s] = "open" /\ socket \in {NoSocket, s}
  BY <1>1 DEF Newest
<1>4. \A t \in Sockets : t # s => ~Listened(t)
  <2> SUFFICES ASSUME NEW t \in Sockets, t # s, Listened(t) PROVE FALSE
    OBVIOUS
  <2> QED  BY <1>3 DEF Newest, Sockets, NoSocket
<1>5. CASE socket # NoSocket /\ SendOn(socket, connector[s])
  <2>1. socket = s
    BY <1>3, <1>5
  <2>2. /\ listening' = [listening EXCEPT ![s] = @ + 1]
        /\ pending' = Append(pending, connector[s])
        /\ written' = [written EXCEPT ![s] = Append(@, connector[s])]
    BY <1>5, <2>1 DEF SendOn
  <2>3. listening'[s] = 1 /\ \A t \in Sockets : t # s => listening'[t] = listening[t]
    BY <1>1, <2>2
  <2>4. pending = written[s]
    BY <1>1, <2>1 DEF InStep
  <2>5. \A t \in Sockets : Listened(t)' => t = s
    BY <1>2, <1>4, <2>3 DEF Listened
  <2>6. Newest'
    BY <1>1, <1>2, <1>3, <2>1, <2>3, <2>5 DEF Newest, Listened, NoCloseDue
  <2>7. Listeners'
    BY <1>1, <1>2, <1>3, <2>2, <2>3 DEF Listeners
  <2>8. InStep'
    <3>1. pending' = written'[s]
      BY <2>2, <2>4
    <3>2. Reused'
      BY <1>1, <1>3, <2>1 DEF Reused, Sockets, NoSocket
    <3> QED  BY <1>2, <1>3, <2>5, <3>1, <3>2 DEF InStep
  <2> QED  BY <2>6, <2>7, <2>8
<1>6. CASE socket = NoSocket /\ UNCHANGED <<listening, pending, written>>
  <2>1. \A t \in Sockets : ~Listened(t)'
    BY <1>1, <1>2, <1>3, <1>4, <1>6 DEF Listened
  <2>2. \A t \in Sockets : socket # t
    BY <1>6 DEF Sockets, NoSocket
  <2>3. Newest'
    BY <1>1, <1>2, <1>3, <1>6, <2>1, <2>2 DEF Newest
  <2>4. Listeners'
    BY <1>1, <1>2, <1>3, <1>6 DEF Listeners
  <2>5. InStep'
    BY <1>1, <1>6, <2>1, <2>2 DEF InStep, Reused, NoCloseDue
  <2> QED  BY <2>3, <2>4, <2>5
<1> QED  BY <1>5, <1>6 DEF Connected

LEMMA OwnLost ==
  ASSUME IInv, Newest, Listeners, InStep, NEW s \in Sockets, Lost(s)
  PROVE  Newest' /\ Listeners' /\ InStep'
<1> USE DEF IInv, TypeOK
<1>1. /\ state[s] = "open" /\ state' = [state EXCEPT ![s] = "destroyed"]
      /\ closeDue' = [closeDue EXCEPT ![s] = listening[s] > 0]
      /\ written' = [written EXCEPT ![s] = <<>>]
      /\ UNCHANGED <<created, socket, pending, listening>>
  BY DEF Lost, Destroy
<1>2. state'[s] = "destroyed" /\ \A t \in Sockets : t # s => state'[t] = state[t]
  BY <1>1
<1>3. /\ closeDue'[s] = (listening[s] > 0)
      /\ \A t \in Sockets : t # s => closeDue'[t] = closeDue[t] /\ written'[t] = written[t]
  BY <1>1
<1>4. \A t \in Sockets : Listened(t)' => Listened(t) /\ ~Listened(s) /\ t # s
  BY <1>1, <1>2 DEF Newest, Listened
<1>5. ~Listened(s) => listening[s] = 0
  BY <1>1 DEF Listened
<1>6. Newest'
  BY <1>1, <1>2, <1>3, <1>4, <1>5 DEF Newest, Listened, NoCloseDue
<1>7. Listeners'
  BY <1>1, <1>2, <1>3 DEF Listeners
<1>8. NoCloseDue' => NoCloseDue
  <2>1. ~closeDue[s]
    BY <1>1 DEF Listeners
  <2> QED  BY <1>3, <2>1 DEF NoCloseDue
<1>9. InStep'
  <2>1. \A t \in Sockets : state'[t] = "connecting" => state[t] = "connecting" /\ t # s
    BY <1>2
  <2>2. ~(Reused') /\ NoCloseDue' => ~Reused
    <3>1. CASE socket = s
      BY <1>1, <1>3, <3>1 DEF Newest, Listened, NoCloseDue
    <3>2. CASE socket # s
      BY <1>1, <1>2, <3>2 DEF Reused
    <3> QED  BY <3>1, <3>2
  <2> QED  BY <1>1, <1>3, <1>4, <1>8, <2>1, <2>2 DEF InStep
<1> QED  BY <1>6, <1>7, <1>9

(* The close listener finds no connection with listeners.                  *)
LEMMA OwnCloseEvent ==
  ASSUME IInv, Newest, Listeners, InStep, NEW s \in Sockets, CloseEvent(s)
  PROVE  Newest' /\ Listeners' /\ InStep'
<1> USE DEF IInv, TypeOK
<1>1. /\ closeDue[s] /\ closeDue' = [closeDue EXCEPT ![s] = FALSE]
      /\ pending' = <<>> /\ socket' = NoSocket
      /\ UNCHANGED <<created, state, listening, written>>
  BY DEF CloseEvent, PendingAfterClose
<1>2. \A t \in Sockets : ~Listened(t)' /\ ~Listened(t)
  BY <1>1 DEF Newest, Listened, NoCloseDue
<1>3. \A t \in Sockets : socket' # t
  BY <1>1 DEF Sockets, NoSocket
<1>4. state[s] = "destroyed"
  BY <1>1 DEF Listeners
<1>5. Listeners'
  BY <1>1 DEF Listeners
<1>6. InStep'
  BY <1>1, <1>2, <1>3 DEF InStep
<1>7. \A t \in Sockets : state[t] = "connecting" => t # 1
  <2> SUFFICES ASSUME 1 \in Sockets, state[1] = "connecting" PROVE FALSE
    OBVIOUS
  <2>1. created = 1
    BY DEF Newest
  <2>2. s <= created /\ s # 1
    BY <1>4, ClientAssumption DEF SocketsInOrder, Sockets
  <2> QED  BY <2>1, <2>2 DEF Sockets
<1>8. Newest'
  BY <1>1, <1>2, <1>3, <1>7 DEF Newest
<1> QED  BY <1>5, <1>6, <1>8

LEMMA OwnRespond ==
  ASSUME IInv, Newest, Listeners, InStep, NEW s \in Sockets, Respond(s)
  PROVE  /\ Newest' /\ Listeners' /\ InStep'
         /\ \A c \in Calls : answer'[c] \in {answer[c], c}
<1> USE DEF IInv, TypeOK
<1>1. Listened(s) /\ listening[s] = 1 /\ pending = written[s] /\ pending # <<>> /\ socket = s
  BY DEF Respond, Listened, Listeners, Newest, InStep
<1>2. Served(s) = 1
  <2>1. Len(pending) \in Nat \ {0}
    BY <1>1
  <2> QED  BY <1>1, <2>1 DEF Served
<1>3. /\ pending' = Tail(pending) /\ written' = [written EXCEPT ![s] = Tail(@)]
      /\ answer' = [c \in Calls |-> IF c \in Resolved(1) THEN Head(pending) ELSE answer[c]]
      /\ UNCHANGED <<created, socket, state, listening, closeDue>>
  <2>1. Tail(pending) = SubSeq(pending, 2, Len(pending))
    BY <1>1, TailIsSubSeq
  <2>2. /\ pending' = SubSeq(pending, Served(s) + 1, Len(pending))
        /\ answer' = [c \in Calls |-> IF c \in Resolved(Served(s)) THEN Head(written[s]) ELSE answer[c]]
        /\ written' = [written EXCEPT ![s] = Tail(@)]
        /\ UNCHANGED <<created, socket, state, listening, closeDue>>
    BY DEF Respond, Served
  <2> QED  BY <1>1, <1>2, <2>1, <2>2
<1>4. Resolved(1) = {Head(pending)}
  BY <1>1 DEF Resolved
<1>5. Newest'
  BY <1>3 DEF Newest, Listened, NoCloseDue
<1>6. Listeners'
  BY <1>1, <1>3 DEF Listeners, Listened
<1>7. InStep'
  BY <1>1, <1>3 DEF InStep, Newest, Listened, Reused, Sockets, NoSocket
<1> QED  BY <1>3, <1>4, <1>5, <1>6, <1>7

LEMMA OwnStep ==
  ASSUME IInv, OwnInv, [Next]_vars
  PROVE  OwnInv'
<1> USE DEF IInv, TypeOK
<1>1. CASE ~OneLoss'
  BY <1>1 DEF OwnInv, OneLossInv, OwnAnswer
<1>2. CASE OneLoss' /\ Next
  <2>1. OneLoss /\ ~StopDaemon /\ \A s \in Sockets : ~ConnectFails(s)
    BY <1>2 DEF OneLoss, Next, Send, Connect, StopDaemon, Connected, ConnectFails, Respond,
                Lost, CloseEvent
  <2>2. Newest /\ Listeners /\ InStep /\ \A c \in Calls : answer[c] \in {c, NoCall, Failed}
    BY <2>1 DEF OwnInv, OneLossInv, OwnAnswer
  <2>3. created' <= 2
    BY <1>2 DEF OneLoss
  <2>4. ASSUME NEW c \in Calls, Send(c) \/ Connect(c) PROVE Newest' /\ Listeners' /\ InStep' /\ UNCHANGED answer
    BY <2>2, <2>3, <2>4, OwnSend, OwnConnect DEF Send, Connect
  <2>5. ASSUME NEW s \in Sockets, Connected(s) PROVE Newest' /\ Listeners' /\ InStep'
    BY <2>2, <2>5, OwnConnected
  <2>6. ASSUME NEW s \in Sockets, Lost(s) PROVE Newest' /\ Listeners' /\ InStep' /\ UNCHANGED answer
    BY <2>2, <2>6, OwnLost DEF Lost
  <2>7. ASSUME NEW s \in Sockets, CloseEvent(s) PROVE Newest' /\ Listeners' /\ InStep'
    BY <2>2, <2>7, OwnCloseEvent
  <2>8. ASSUME NEW s \in Sockets, Respond(s)
        PROVE  /\ Newest' /\ Listeners' /\ InStep'
               /\ \A c \in Calls : answer'[c] \in {answer[c], c}
    BY <2>2, <2>8, OwnRespond
  <2>9. ASSUME NEW s \in Sockets, Connected(s) \/ CloseEvent(s)
        PROVE  \A c \in Calls : answer'[c] \in {answer[c], Failed}
    BY <2>9 DEF Connected, CloseEvent
  <2>10. Newest' /\ Listeners' /\ InStep'
    BY <1>2, <2>1, <2>4, <2>5, <2>6, <2>7, <2>8 DEF Next
  <2>11. \A c \in Calls : answer'[c] \in {answer[c], Failed, c}
    BY <1>2, <2>1, <2>4, <2>6, <2>8, <2>9 DEF Next
  <2> QED  BY <2>2, <2>10, <2>11 DEF OwnInv, OneLossInv, OwnAnswer
<1>3. CASE UNCHANGED vars
  <2>1. OwnAnswer'
    BY <1>3 DEF vars, OwnInv, OwnAnswer, OneLoss
  <2>2. OneLossInv'
    BY <1>3 DEF vars, OwnInv, OneLossInv, OneLoss, Newest, Listeners, InStep, Listened, NoCloseDue, Reused
  <2> QED  BY <2>1, <2>2 DEF OwnInv
<1> QED  BY <1>1, <1>2, <1>3

(* Over one lost connection, for any number of calls that share the socket *)
(* before, during and after the loss, no call gets the response of another *)
(* one: pending and the requests on the newest socket stay in step.        *)
THEOREM OwnAnswers == Spec => []OwnAnswer
<1>1. OwnInv => OwnAnswer
  BY DEF OwnInv
<1>2. IInv /\ OwnInv /\ [Next]_vars => OwnInv'
  BY OwnStep
<1> QED  BY TypeInit, IInvStep, OwnInit, <1>1, <1>2, PTL DEF Spec

(* Over one lost connection no call waits for ever: every pending one has  *)
(* a request under way on the newest socket, or its error.                 *)
THEOREM NoCallForgotten == Spec => []NoOrphanCall
<1>1. IInv /\ OwnInv => NoOrphanCall
  <2> SUFFICES ASSUME IInv, OwnInv, OneLoss, pending # <<>>, NoCloseDue
               PROVE  /\ socket # NoSocket /\ written[socket] = pending
                      /\ state[socket] = "open" => listening[socket] = 1
                      /\ state[socket] \in {"connecting", "open"}
    BY DEF NoOrphanCall, NoCloseDue
  <2>1. Newest /\ Listeners /\ InStep
    BY DEF OwnInv, OneLossInv
  <2>2. socket \in Sockets /\ socket # NoSocket /\ state[socket] # "destroyed"
    BY <2>1 DEF InStep, Reused, IInv, TypeOK
  <2>3. state[socket] \in {"connecting", "open"} /\ socket <= created
    BY <2>2, ClientAssumption DEF IInv, TypeOK, SocketsInOrder, Sockets
  <2>4. CASE state[socket] = "connecting"
    BY <2>1, <2>2, <2>4 DEF InStep
  <2>5. CASE state[socket] = "open"
    <3>1. Listened(socket)
      BY <2>1, <2>2, <2>5 DEF Newest
    <3>2. listening[socket] = 1
      BY <2>1, <2>2, <3>1 DEF Listened, Listeners, IInv, TypeOK
    <3> QED  BY <2>1, <2>2, <2>5, <3>1, <3>2 DEF InStep
  <2> QED  BY <2>3, <2>4, <2>5
<1>2. IInv /\ OwnInv /\ [Next]_vars => OwnInv'
  BY OwnStep
<1> QED  BY TypeInit, IInvStep, OwnInit, <1>1, <1>2, PTL DEF Spec
==============================================================================
