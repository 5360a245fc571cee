-------------------------- MODULE CppRxClientProofs --------------------------
(* Proofs about CppRxClient, for any number of connections and lines.      *)
EXTENDS CppRxClient, SequenceTheorems, TLAPS

Running(t) == thread[t] \notin {"none", "over"}

(* What the application's thread knows of the socket at each point.        *)
AppKnows ==
  /\ app \in {"connect", "close", "forget"} => mSocket # None
  /\ app = "connect" => mThread = None
  /\ mSocket <= made

Typing == TypeOK /\ AppKnows

(* Until a wait expires, the thread that runs is the one that Disconnect   *)
(* would wait for, and its socket is the one that it was created for: the  *)
(* thread may see m_socket after Disconnect has cleared it, but not after  *)
(* a new Connect has set it.                                               *)
OneThread == \A t \in Sockets : Running(t) => mThread = t

OwnSocket ==
  /\ mThread # None => mSocket \in {mThread, None}
  /\ \A t \in Sockets : sock[t] \in {t, None}

(* What a thread has received is what it has passed on and what it holds.  *)
Whole(t, seen, held, passed) ==
  /\ seen = 2 * Len(passed) + Len(held)
  /\ \A i \in 1..Len(held) : held[i] = <<t, 2 * Len(passed) + i>>
  /\ \A n \in 1..Len(passed) : passed[n] = <<<<t, 2 * n - 1>>, <<t, 2 * n>>>>

NothingSkipped == \A t \in Sockets : Whole(t, taken[t], buffer[t], lines[t])

Orderly == OneThread /\ OwnSocket /\ NothingSkipped

IInv == Typing /\ (~expired => Orderly)

-----------------------------------------------------------------------------
(* Lemmas.                                                                 *)

LEMMA AppendKeeps ==
  ASSUME NEW S, NEW s \in Seq(S), NEW x \in S
  PROVE  /\ Append(s, x) \in Seq(S) /\ Len(Append(s, x)) = Len(s) + 1 /\ Len(s) \in Nat
         /\ Append(s, x)[Len(s) + 1] = x
         /\ \A i \in 1..Len(s) : Append(s, x)[i] = s[i]
OBVIOUS

LEMMA PairIsTuple ==
  ASSUME NEW S, NEW s \in Seq(S), Len(s) = 2
  PROVE  s = <<s[1], s[2]>>
OBVIOUS

LEMMA OddIsOdd ==
  ASSUME NEW n \in Nat
  PROVE  (2 * n + 1) % 2 = 1 /\ (2 * n + 2) % 2 = 0
OBVIOUS

LEMMA JoinedAt ==
  ASSUME NEW S, NEW s \in Seq(S), NEW u \in Seq(S)
  PROVE  /\ s \o u \in Seq(S) /\ Len(s \o u) = Len(s) + Len(u)
         /\ Len(s) \in Nat /\ Len(u) \in Nat
         /\ \A i \in 1..Len(s) : (s \o u)[i] = s[i]
         /\ \A i \in Len(s) + 1..Len(s) + Len(u) : (s \o u)[i] = u[i - Len(s)]
OBVIOUS

(* The line that is cut off and what is left of the buffer.                *)
LEMMA CutParts ==
  ASSUME NEW S, NEW s \in Seq(S), NEW i \in 1..Len(s)
  PROVE  /\ SubSeq(s, 1, i) \in Seq(S) /\ Len(SubSeq(s, 1, i)) = i
         /\ \A j \in 1..i : SubSeq(s, 1, i)[j] = s[j]
         /\ SubSeq(s, i + 1, Len(s)) \in Seq(S)
         /\ Len(SubSeq(s, i + 1, Len(s))) = Len(s) - i
         /\ \A j \in 1..Len(s) - i : SubSeq(s, i + 1, Len(s))[j] = s[i + j]
<1>1. /\ \A j \in 1..i : s[j] \in S
      /\ \A j \in i + 1..Len(s) : s[j] \in S
  OBVIOUS
<1>2. SubSeq(s, 1, i) \in Seq(S) /\ Len(SubSeq(s, 1, i)) = i
  BY <1>1, SubSeqProperties
<1>3. \A j \in 1..i : SubSeq(s, 1, i)[j] = s[j]
  OBVIOUS
<1>4. SubSeq(s, i + 1, Len(s)) \in Seq(S) /\ Len(SubSeq(s, i + 1, Len(s))) = Len(s) - i
  BY <1>1, SubSeqProperties
<1>5. \A j \in 1..Len(s) - i : SubSeq(s, i + 1, Len(s))[j] = s[i + j]
  OBVIOUS
<1> QED  BY <1>2, <1>3, <1>4, <1>5

(* A chunk of new pieces.                                                  *)
Chunk(s, m) == [i \in 1..m |-> <<s, taken[s] + i>>]

LEMMA ChunkType ==
  ASSUME TypeOK, NEW s \in Sockets, NEW n \in taken[s] + 1..sent[s]
  PROVE  /\ n - taken[s] \in Nat \ {0} /\ n \in 0..2 * MaxLines
         /\ Chunk(s, n - taken[s]) \in Seq(Pieces)
         /\ Len(Chunk(s, n - taken[s])) = n - taken[s]
         /\ \A i \in 1..n - taken[s] : Chunk(s, n - taken[s])[i] = <<s, taken[s] + i>>
<1>1. /\ taken[s] \in 0..2 * MaxLines /\ sent[s] \in 0..2 * MaxLines /\ 2 * MaxLines \in Nat
  BY ClientAssumption DEF TypeOK
<1>2. n - taken[s] \in Nat \ {0} /\ n \in 0..2 * MaxLines
  BY <1>1
<1>3. \A i \in 1..n - taken[s] : taken[s] + i \in 1..2 * MaxLines
  BY <1>1, <1>2
<1>4. Chunk(s, n - taken[s]) \in [1..n - taken[s] -> Pieces]
  BY <1>3 DEF Chunk, Pieces
<1> HIDE DEF Pieces
<1>5. Chunk(s, n - taken[s]) \in Seq(Pieces) /\ Len(Chunk(s, n - taken[s])) = n - taken[s]
  BY <1>2, <1>4
<1> QED  BY <1>2, <1>5 DEF Chunk

-----------------------------------------------------------------------------
(* Type correctness.                                                       *)

LEMMA TypingInit == Init => Typing
<1> SUFFICES ASSUME Init PROVE Typing
  OBVIOUS
<1>1. /\ buffer \in [Sockets -> Seq(Pieces)] /\ lines \in [Sockets -> Seq(Seq(Pieces))]
  BY EmptySeq DEF Init
<1>2. /\ sent \in [Sockets -> 0..2 * MaxLines] /\ taken = sent
      /\ \A s \in Sockets : taken[s] <= sent[s]
  BY ClientAssumption DEF Init
<1>3. thread \in [Sockets -> {"none", "test", "call", "recv", "cut", "callback", "over"}]
  BY DEF Init
<1>4. sock \in [Sockets -> Sockets \cup {None}] /\ made \in 0..MaxConnects
  BY ClientAssumption DEF Init
<1>5. /\ mSocket = None /\ mRunning = FALSE /\ mThread = None /\ app = "free"
      /\ destroying = FALSE /\ made = 0 /\ expired = FALSE /\ open = {} /\ ended = {}
  BY DEF Init
<1>6. AppKnows
  BY <1>5 DEF AppKnows, None
<1>7. TypeOK
  BY <1>1, <1>2, <1>3, <1>4, <1>5 DEF TypeOK
<1> QED  BY <1>6, <1>7 DEF Typing

LEMMA TypingApplication ==
  ASSUME Typing, ConnectBegin \/ Disconnect \/ Application
  PROVE  Typing'
<1> USE DEF Typing, TypeOK, AppKnows, None
<1>1. CASE ConnectBegin
  <2>1. made + 1 \in Sockets /\ made + 1 # None
    BY <1>1, ClientAssumption DEF ConnectBegin, Sockets
  <2>2. made' \in 0..MaxConnects /\ open' \subseteq 1..made' /\ ended' \subseteq 1..made'
    BY <1>1, ClientAssumption DEF ConnectBegin
  <2> QED  BY SMTT(30), <1>1, <2>1, <2>2 DEF ConnectBegin, threadVars
<1>2. CASE ConnectRefused
  <2>1. /\ mSocket' = None /\ app' = "free" /\ open' \subseteq open
        /\ UNCHANGED <<mRunning, mThread, destroying, made, expired, sent, taken, ended,
                       thread, sock, buffer, lines>>
    BY <1>2 DEF ConnectRefused, threadVars
  <2> QED  BY <2>1
<1>3. CASE ConnectSucceeds
  BY <1>3 DEF ConnectSucceeds, netVars
<1>4. CASE Disconnect
  BY <1>4 DEF Disconnect, members, netVars, threadVars
<1>5. CASE Stop
  BY <1>5 DEF Stop, netVars, threadVars
<1>6. CASE CloseSocket
  BY <1>6 DEF CloseSocket, Closed, members, threadVars
<1>7. CASE ForgetSocket
  BY <1>7 DEF ForgetSocket, Forgotten, netVars, threadVars
<1>8. CASE Join
  <2>1. expired' \in BOOLEAN
    BY <1>8 DEF Join
  <2> QED  BY <1>8, <2>1 DEF Join, netVars, threadVars
<1> QED
  BY <1>1, <1>2, <1>3, <1>4, <1>5, <1>6, <1>7, <1>8 DEF Application

LEMMA TypingThread ==
  ASSUME Typing, NEW t \in Sockets, ReceiveThread(t) \/ CallbackReturns(t) \/ Push(t) \/ DaemonCloses(t)
  PROVE  Typing'
<1> USE DEF Typing, AppKnows
<1>1. CASE TestRunning(t) \/ CallRecv(t) \/ RecvEnds(t) \/ NoLine(t) \/ CallbackReturns(t)
  <2>1. CASE TestRunning(t)
    BY <2>1 DEF TestRunning, TypeOK, members, appVars, netVars
  <2>2. CASE CallRecv(t)
    BY <2>2 DEF CallRecv, TypeOK, members, appVars, netVars
  <2>3. CASE RecvEnds(t)
    BY <2>3 DEF RecvEnds, TypeOK, members, appVars, netVars
  <2>4. CASE NoLine(t)
    BY <2>4 DEF NoLine, TypeOK, members, appVars, netVars
  <2>5. CASE CallbackReturns(t)
    BY <2>5 DEF CallbackReturns, TypeOK, members, appVars, netVars
  <2> QED  BY <1>1, <2>1, <2>2, <2>3, <2>4, <2>5
<1>2. CASE RecvData(t)
  <2>1. PICK n \in taken[sock[t]] + 1..sent[sock[t]] :
          /\ buffer' = [buffer EXCEPT ![t] = @ \o Chunk(sock[t], n - taken[sock[t]])]
          /\ taken' = [taken EXCEPT ![sock[t]] = n]
    BY <1>2 DEF RecvData, Received, Chunk
  <2>2. sock[t] \in Sockets
    <3>1. sock[t] \in 1..made
      BY <1>2 DEF RecvData, TypeOK
    <3>2. made \in 0..MaxConnects
      BY DEF TypeOK
    <3> QED  BY <3>1, <3>2, ClientAssumption DEF Sockets
  <2>3. n \in 0..2 * MaxLines /\ Chunk(sock[t], n - taken[sock[t]]) \in Seq(Pieces)
    BY <2>2, ChunkType
  <2>4. buffer' \in [Sockets -> Seq(Pieces)]
    BY <2>1, <2>3, JoinedAt DEF TypeOK
  <2>5. taken' \in [Sockets -> 0..2 * MaxLines] /\ \A s \in Sockets : taken'[s] <= sent[s]
    <3>1. taken'[sock[t]] = n /\ n <= sent[sock[t]]
      BY <2>1, <2>2, ClientAssumption DEF TypeOK
    <3>2. \A s \in Sockets : s # sock[t] => taken'[s] = taken[s]
      BY <2>1 DEF TypeOK
    <3>3. taken' \in [Sockets -> 0..2 * MaxLines]
      BY <2>1, <2>3 DEF TypeOK
    <3> QED  BY <3>1, <3>2, <3>3 DEF TypeOK
  <2> QED  BY <1>2, <2>4, <2>5 DEF RecvData, TypeOK, members, appVars
<1>3. CASE CutLine(t)
  <2>1. PICK i \in 1..Len(buffer[t]) :
          /\ lines' = [lines EXCEPT ![t] = Append(@, SubSeq(buffer[t], 1, i))]
          /\ buffer' = [buffer EXCEPT ![t] = SubSeq(@, i + 1, Len(@))]
    BY <1>3 DEF CutLine, LineFeeds
  <2>2. SubSeq(buffer[t], 1, i) \in Seq(Pieces) /\ SubSeq(buffer[t], i + 1, Len(buffer[t])) \in Seq(Pieces)
    BY CutParts DEF TypeOK
  <2>3. lines' \in [Sockets -> Seq(Seq(Pieces))] /\ buffer' \in [Sockets -> Seq(Pieces)]
    BY <2>1, <2>2, AppendKeeps DEF TypeOK
  <2> QED  BY <1>3, <2>3 DEF CutLine, TypeOK, members, appVars, netVars
<1>4. CASE Push(t)
  <2>1. sent[t] + 1 \in 0..2 * MaxLines /\ sent' = [sent EXCEPT ![t] = sent[t] + 1]
    BY SMTT(30), <1>4, ClientAssumption DEF Push, TypeOK
  <2>2. sent' \in [Sockets -> 0..2 * MaxLines]
    BY <2>1 DEF TypeOK
  <2>3. \A s \in Sockets : taken[s] <= sent'[s]
    BY <2>1, ClientAssumption DEF TypeOK
  <2> QED  BY <1>4, <2>2, <2>3 DEF Push, TypeOK, members, appVars, threadVars
<1>5. CASE DaemonCloses(t)
  <2>1. t \in 1..made
    BY <1>5 DEF DaemonCloses, Connected, TypeOK
  <2> QED  BY <1>5, <2>1 DEF DaemonCloses, TypeOK, members, appVars, threadVars
<1> QED
  BY <1>1, <1>2, <1>3, <1>4, <1>5 DEF ReceiveThread

LEMMA TypingStep == Typing /\ [Next]_vars => Typing'
<1>1. ASSUME Typing, UNCHANGED vars PROVE Typing'
  BY <1>1 DEF vars, members, appVars, netVars, threadVars, Typing, TypeOK, AppKnows
<1> QED  BY <1>1, TypingApplication, TypingThread DEF Next

(* Every state of CppRxClient is of its type: in particular m_socket is    *)
(* the invalid socket while Disconnect waits for the thread.               *)
THEOREM TypeCorrect == Spec => []TypeOK
<1>1. Typing => TypeOK
  BY DEF Typing
<1> QED  BY TypingInit, TypingStep, <1>1, PTL DEF Spec

-----------------------------------------------------------------------------
(* One thread at a time, with its own socket and the whole of its stream.  *)

LEMMA OrderlyInit == Init => Orderly
<1> SUFFICES ASSUME Init PROVE Orderly
  OBVIOUS
<1>1. OneThread /\ OwnSocket
  BY DEF Init, OneThread, OwnSocket, Running, None
<1>2. NothingSkipped
  BY DEF Init, NothingSkipped, Whole
<1> QED  BY <1>1, <1>2 DEF Orderly

LEMMA OrderlyApplication ==
  ASSUME Typing, Orderly, ConnectBegin \/ Disconnect \/ Application, ~expired'
  PROVE  Orderly'
<1> USE DEF Typing, TypeOK, AppKnows, None
<1>1. UNCHANGED <<taken, sock, buffer, lines>>
  BY DEF ConnectBegin, Disconnect, Application, ConnectRefused, ConnectSucceeds, Stop,
         CloseSocket, ForgetSocket, Join, netVars, threadVars
<1>2. NothingSkipped'
  BY <1>1 DEF Orderly, NothingSkipped
<1>3. CASE UNCHANGED <<thread, mThread>> /\ (mThread # None => mSocket' \in {mSocket, None})
  BY <1>1, <1>2, <1>3 DEF Orderly, OneThread, OwnSocket, Running
<1>4. CASE ConnectBegin
  BY <1>1, <1>2, <1>4 DEF ConnectBegin, threadVars, Orderly, OneThread, OwnSocket, Running
<1>5. CASE ConnectSucceeds
  <2>1. /\ mSocket \in Sockets /\ mThread = None /\ mThread' = mSocket /\ UNCHANGED mSocket
        /\ \A t \in Sockets : t # mSocket => thread'[t] = thread[t]
    BY <1>5 DEF ConnectSucceeds
  <2>2. \A t \in Sockets : ~Running(t)
    BY <2>1 DEF Orderly, OneThread, Sockets
  <2> QED  BY <1>1, <1>2, <2>1, <2>2 DEF Orderly, OneThread, OwnSocket, Running
<1>6. CASE Join
  <2>1. ThreadOver /\ mThread' = None /\ UNCHANGED thread
    BY <1>6 DEF Join, Waited, threadVars
  <2>2. \A t \in Sockets : ~Running(t)
    BY <2>1 DEF Orderly, OneThread, Running, ThreadOver
  <2> QED  BY <1>1, <1>2, <2>1, <2>2 DEF Orderly, OneThread, OwnSocket, Running
<1>7. CASE ConnectRefused \/ Disconnect \/ Stop \/ CloseSocket \/ ForgetSocket
  <2>1. UNCHANGED <<thread, mThread>> /\ mSocket' \in {mSocket, None}
    BY <1>7 DEF ConnectRefused, Disconnect, Stop, CloseSocket, ForgetSocket, Forgotten,
                members, threadVars
  <2> QED  BY <1>3, <2>1
<1> QED  BY <1>4, <1>5, <1>6, <1>7 DEF Application

LEMMA WholeJoined ==
  ASSUME NEW t, NEW S, NEW held \in Seq(S), NEW passed \in Seq(Seq(S)), NEW seen \in Nat,
         NEW chunk \in Seq(S), \A i \in 1..Len(chunk) : chunk[i] = <<t, seen + i>>,
         Whole(t, seen, held, passed)
  PROVE  Whole(t, seen + Len(chunk), held \o chunk, passed)
<1>1. /\ Len(held \o chunk) = Len(held) + Len(chunk)
      /\ Len(held) \in Nat /\ Len(chunk) \in Nat /\ Len(passed) \in Nat
      /\ \A i \in 1..Len(held) : (held \o chunk)[i] = held[i]
      /\ \A i \in Len(held) + 1..Len(held) + Len(chunk) : (held \o chunk)[i] = chunk[i - Len(held)]
  BY JoinedAt
<1>2. ASSUME NEW i \in 1..Len(held) + Len(chunk)
      PROVE  (held \o chunk)[i] = <<t, 2 * Len(passed) + i>>
  <2>1. CASE i <= Len(held)
    BY <1>1, <2>1 DEF Whole
  <2>2. CASE i > Len(held)
    <3>1. i - Len(held) \in 1..Len(chunk) /\ seen + (i - Len(held)) = 2 * Len(passed) + i
      BY <1>1, <2>2 DEF Whole
    <3>2. (held \o chunk)[i] = chunk[i - Len(held)]
      BY <1>1, <2>2
    <3> QED  BY <3>1, <3>2
  <2>3. i <= Len(held) \/ i > Len(held)
    BY <1>1
  <2> QED  BY <2>1, <2>2, <2>3
<1>3. seen + Len(chunk) = 2 * Len(passed) + Len(held \o chunk)
  BY <1>1 DEF Whole
<1>4. \A i \in 1..Len(held \o chunk) : (held \o chunk)[i] = <<t, 2 * Len(passed) + i>>
  BY <1>1, <1>2
<1> QED  BY <1>3, <1>4 DEF Whole

LEMMA WholeCut ==
  ASSUME NEW t, NEW S, NEW held \in Seq(S), NEW passed \in Seq(Seq(S)), NEW seen \in Nat,
         Len(held) >= 2, Whole(t, seen, held, passed)
  PROVE  Whole(t, seen, SubSeq(held, 3, Len(held)), Append(passed, SubSeq(held, 1, 2)))
<1> DEFINE line == SubSeq(held, 1, 2)
           rest == SubSeq(held, 3, Len(held))
           done == Len(passed)
<1>1. /\ line \in Seq(S) /\ Len(line) = 2 /\ line[1] = held[1] /\ line[2] = held[2]
      /\ Len(rest) = Len(held) - 2 /\ Len(held) \in Nat
      /\ \A j \in 1..Len(held) - 2 : rest[j] = held[2 + j]
  <2>1. 2 \in 1..Len(held) /\ Len(held) \in Nat
    OBVIOUS
  <2>2. /\ SubSeq(held, 1, 2) \in Seq(S) /\ Len(SubSeq(held, 1, 2)) = 2
        /\ \A j \in 1..2 : SubSeq(held, 1, 2)[j] = held[j]
        /\ Len(SubSeq(held, 2 + 1, Len(held))) = Len(held) - 2
        /\ \A j \in 1..Len(held) - 2 : SubSeq(held, 2 + 1, Len(held))[j] = held[2 + j]
    BY ZenonT(30), <2>1, CutParts
  <2> QED  BY <2>1, <2>2
<1>2. /\ Len(Append(passed, line)) = done + 1 /\ done \in Nat
      /\ Append(passed, line)[done + 1] = line
      /\ \A n \in 1..done : Append(passed, line)[n] = passed[n]
  BY <1>1, AppendKeeps
<1>3. line = <<line[1], line[2]>>
  BY <1>1, PairIsTuple
<1>4. line = <<<<t, 2 * done + 1>>, <<t, 2 * done + 2>>>>
  <2>1. held[1] = <<t, 2 * done + 1>> /\ held[2] = <<t, 2 * done + 2>>
    BY <1>1 DEF Whole
  <2> QED  BY <1>1, <1>3, <2>1
<1> HIDE DEF line, rest
<1>5. seen = 2 * Len(Append(passed, line)) + Len(rest)
  BY <1>1, <1>2 DEF Whole
<1>6. \A j \in 1..Len(rest) : rest[j] = <<t, 2 * Len(Append(passed, line)) + j>>
  <2> SUFFICES ASSUME NEW j \in 1..Len(held) - 2 PROVE rest[j] = <<t, 2 * (done + 1) + j>>
    BY <1>1, <1>2
  <2>1. 2 + j \in 1..Len(held) /\ 2 * done + (2 + j) = 2 * (done + 1) + j
    BY <1>1, <1>2
  <2>2. held[2 + j] = <<t, 2 * done + (2 + j)>>
    BY <2>1 DEF Whole
  <2> QED  BY <1>1, <2>1, <2>2
<1>7. \A n \in 1..Len(Append(passed, line)) :
        Append(passed, line)[n] = <<<<t, 2 * n - 1>>, <<t, 2 * n>>>>
  <2> SUFFICES ASSUME NEW n \in 1..done + 1
               PROVE  Append(passed, line)[n] = <<<<t, 2 * n - 1>>, <<t, 2 * n>>>>
    BY <1>2
  <2>1. CASE n <= done
    BY <1>2, <2>1 DEF Whole
  <2>2. CASE n = done + 1
    <3>1. 2 * n - 1 = 2 * done + 1 /\ 2 * n = 2 * done + 2
      BY <1>2, <2>2
    <3> QED  BY <1>2, <1>4, <2>2, <3>1
  <2> QED  BY <1>2, <2>1, <2>2
<1>8. Whole(t, seen, rest, Append(passed, line))
  BY <1>5, <1>6, <1>7 DEF Whole
<1> QED  BY <1>8 DEF line, rest

LEMMA StreamTypes ==
  ASSUME Typing
  PROVE  /\ buffer \in [Sockets -> Seq(Pieces)] /\ lines \in [Sockets -> Seq(Seq(Pieces))]
         /\ taken \in [Sockets -> 0..2 * MaxLines] /\ \A s \in Sockets : taken[s] \in Nat
<1>1. /\ buffer \in [Sockets -> Seq(Pieces)] /\ lines \in [Sockets -> Seq(Seq(Pieces))]
      /\ taken \in [Sockets -> 0..2 * MaxLines]
  BY DEF Typing, TypeOK
<1> QED  BY <1>1, ClientAssumption

(* The pieces received continue the ones that the buffer holds.            *)
LEMMA OrderlyRecv ==
  ASSUME Typing, Orderly, NEW t \in Sockets, RecvData(t)
  PROVE  NothingSkipped'
<1>1. /\ buffer \in [Sockets -> Seq(Pieces)] /\ lines[t] \in Seq(Seq(Pieces))
      /\ taken \in [Sockets -> 0..2 * MaxLines] /\ taken[t] \in Nat
      /\ \A s \in Sockets : Whole(s, taken[s], buffer[s], lines[s])
  BY StreamTypes DEF Orderly, NothingSkipped
<1>2. sock[t] = t
  <2>1. sock[t] # None /\ t # None
    BY DEF RecvData, None, Typing, TypeOK, Sockets
  <2> QED  BY <2>1 DEF Orderly, OwnSocket
<1>3. PICK n \in taken[t] + 1..sent[t] :
        /\ buffer' = [buffer EXCEPT ![t] = @ \o Chunk(t, n - taken[t])]
        /\ taken' = [taken EXCEPT ![t] = n]
  BY <1>2 DEF RecvData, Received, Chunk
<1>4. /\ Chunk(t, n - taken[t]) \in Seq(Pieces) /\ n - taken[t] \in Nat /\ n \in Nat
      /\ Len(Chunk(t, n - taken[t])) = n - taken[t]
      /\ \A i \in 1..n - taken[t] : Chunk(t, n - taken[t])[i] = <<t, taken[t] + i>>
  <2>1. TypeOK
    BY DEF Typing
  <2>2. /\ n - taken[t] \in Nat \ {0} /\ n \in 0..2 * MaxLines
        /\ Chunk(t, n - taken[t]) \in Seq(Pieces)
        /\ Len(Chunk(t, n - taken[t])) = n - taken[t]
        /\ \A i \in 1..n - taken[t] : Chunk(t, n - taken[t])[i] = <<t, taken[t] + i>>
    BY <2>1, ChunkType
  <2> QED  BY <2>2, ClientAssumption
<1>5. buffer[t] \in Seq(Pieces) /\ taken[t] + (n - taken[t]) = n
  BY <1>1, <1>4
<1>6. Whole(t, n, buffer[t] \o Chunk(t, n - taken[t]), lines[t])
  BY <1>1, <1>4, <1>5, WholeJoined
<1>7. /\ UNCHANGED lines
      /\ buffer'[t] = buffer[t] \o Chunk(t, n - taken[t]) /\ taken'[t] = n
      /\ \A s \in Sockets : s # t => buffer'[s] = buffer[s] /\ taken'[s] = taken[s]
  BY <1>1, <1>3 DEF RecvData
<1>8. \A s \in Sockets : Whole(s, taken'[s], buffer'[s], lines'[s])
  BY <1>1, <1>6, <1>7
<1> QED  BY <1>8 DEF Whole, NothingSkipped

(* The first line feed ends the line that the buffer begins with.          *)
LEMMA OrderlyCut ==
  ASSUME Typing, Orderly, NEW t \in Sockets, CutLine(t)
  PROVE  NothingSkipped'
<1>1. /\ buffer \in [Sockets -> Seq(Pieces)] /\ lines \in [Sockets -> Seq(Seq(Pieces))]
      /\ buffer[t] \in Seq(Pieces) /\ lines[t] \in Seq(Seq(Pieces)) /\ taken[t] \in Nat
      /\ \A s \in Sockets : Whole(s, taken[s], buffer[s], lines[s])
  BY StreamTypes DEF Orderly, NothingSkipped
<1>2. PICK i \in LineFeeds(t) :
        /\ \A j \in LineFeeds(t) : i <= j
        /\ lines' = [lines EXCEPT ![t] = Append(@, SubSeq(buffer[t], 1, i))]
        /\ buffer' = [buffer EXCEPT ![t] = SubSeq(@, i + 1, Len(@))]
  BY DEF CutLine
<1>3. Len(lines[t]) \in Nat /\ Len(buffer[t]) \in Nat
  BY <1>1
<1>4. \A j \in 1..Len(buffer[t]) : j \in LineFeeds(t) <=> (2 * Len(lines[t]) + j) % 2 = 0
  BY <1>1 DEF LineFeeds, HasLineFeed, Whole
<1>5. i = 2 /\ Len(buffer[t]) >= 2
  <2>1. i \in 1..Len(buffer[t]) /\ (2 * Len(lines[t]) + i) % 2 = 0
    BY <1>4 DEF LineFeeds
  <2>2. i # 1
    <3>1. (2 * Len(lines[t]) + 1) % 2 = 1
      BY <1>3, OddIsOdd
    <3>2. 1 # 0
      OBVIOUS
    <3> QED  BY <2>1, <3>1, <3>2, Zenon
  <2>3. 2 \in 1..Len(buffer[t]) /\ (2 * Len(lines[t]) + 2) % 2 = 0
    <3>1. 2 \in 1..Len(buffer[t])
      BY <1>3, <2>1, <2>2
    <3> QED  BY <1>3, <3>1, OddIsOdd, Zenon
  <2>4. i <= 2
    BY <1>2, <1>4, <2>3
  <2> QED  BY <1>3, <2>1, <2>2, <2>4
<1>6. Whole(t, taken[t], SubSeq(buffer[t], 3, Len(buffer[t])),
            Append(lines[t], SubSeq(buffer[t], 1, 2)))
  BY <1>1, <1>5, WholeCut
<1>7. /\ UNCHANGED taken /\ buffer'[t] = SubSeq(buffer[t], 3, Len(buffer[t]))
      /\ lines'[t] = Append(lines[t], SubSeq(buffer[t], 1, 2))
      /\ \A s \in Sockets : s # t => buffer'[s] = buffer[s] /\ lines'[s] = lines[s]
  BY <1>1, <1>2, <1>5 DEF CutLine, netVars
<1>8. \A s \in Sockets : Whole(s, taken'[s], buffer'[s], lines'[s])
  BY <1>1, <1>6, <1>7
<1> QED  BY <1>8 DEF Whole, NothingSkipped

LEMMA OrderlyThread ==
  ASSUME Typing, Orderly, NEW t \in Sockets,
         ReceiveThread(t) \/ CallbackReturns(t) \/ Push(t) \/ DaemonCloses(t)
  PROVE  Orderly'
<1> USE DEF Typing, TypeOK
<1>1. UNCHANGED members
  BY DEF ReceiveThread, TestRunning, CallRecv, RecvData, RecvEnds, CutLine, NoLine,
         CallbackReturns, Push, DaemonCloses
<1>2. \A s \in Sockets : Running(s)' => Running(s)
  BY DEF ReceiveThread, TestRunning, CallRecv, RecvData, RecvEnds, CutLine, NoLine,
         CallbackReturns, Push, DaemonCloses, threadVars, Running
<1>3. OneThread'
  BY <1>1, <1>2 DEF Orderly, OneThread, members
<1>4. OwnSocket'
  <2>1. CASE CallRecv(t)
    <3>1. mThread = t /\ mThread # None
      BY <2>1 DEF CallRecv, Orderly, OneThread, Running, Sockets, None
    <3>2. mSocket \in {t, None}
      BY <3>1 DEF Orderly, OwnSocket
    <3> QED  BY <1>1, <2>1, <3>2 DEF CallRecv, Orderly, OwnSocket, members
  <2>2. CASE UNCHANGED sock
    BY <1>1, <2>2 DEF Orderly, OwnSocket, members
  <2> QED
    BY <2>1, <2>2 DEF ReceiveThread, TestRunning, RecvData, RecvEnds, CutLine, NoLine,
                      CallbackReturns, Push, DaemonCloses, threadVars
<1>5. NothingSkipped'
  <2>1. CASE RecvData(t)
    BY <2>1, OrderlyRecv
  <2>2. CASE CutLine(t)
    BY <2>2, OrderlyCut
  <2>3. CASE UNCHANGED <<taken, buffer, lines>>
    BY <2>3 DEF Orderly, NothingSkipped
  <2> QED
    BY <2>1, <2>2, <2>3 DEF ReceiveThread, TestRunning, CallRecv, RecvEnds, NoLine,
                            CallbackReturns, Push, DaemonCloses, netVars, threadVars
<1> QED  BY <1>3, <1>4, <1>5 DEF Orderly

LEMMA IInvStep == IInv /\ [Next]_vars => IInv'
<1> SUFFICES ASSUME IInv, [Next]_vars, ~expired' PROVE Orderly'
  BY TypingStep DEF IInv
<1>1. ~expired
  BY DEF Next, Application, vars, appVars, ConnectBegin, Disconnect, ConnectRefused,
         ConnectSucceeds, Stop, CloseSocket, ForgetSocket, Join, ReceiveThread, TestRunning,
         CallRecv, RecvData, RecvEnds, CutLine, NoLine, CallbackReturns, Push, DaemonCloses
<1>2. Typing /\ Orderly
  BY <1>1 DEF IInv
<1>3. CASE UNCHANGED vars
  BY <1>2, <1>3 DEF vars, members, netVars, threadVars, Orderly, OneThread, OwnSocket,
                    NothingSkipped, Running
<1> QED  BY <1>2, <1>3, OrderlyApplication, OrderlyThread DEF Next

LEMMA IInvInit == Init => IInv
BY TypingInit, OrderlyInit DEF IInv

(* When Disconnect or the destructor has returned no receive thread goes   *)
(* on, wherever the thread was when m_running and m_socket changed under   *)
(* it, unless a callback has outlasted the 3 s of the wait.                *)
THEOREM NoThreadLeft == Spec => []NoThreadAfterDisconnect
<1>1. IInv => NoThreadAfterDisconnect
  BY DEF IInv, Orderly, OneThread, Running, NoThreadAfterDisconnect, Disconnected, Sockets, None
<1> QED  BY IInvInit, IInvStep, <1>1, PTL DEF Spec

(* However recv cuts the stream, callbacks get the lines of a connection   *)
(* whole, in order and without holes (RecvLoop).                           *)
THEOREM WholeLines == Spec => []LinesWhole
<1>1. IInv => LinesWhole
  BY DEF IInv, Orderly, NothingSkipped, Whole, LinesWhole
<1> QED  BY IInvInit, IInvStep, <1>1, PTL DEF Spec

-----------------------------------------------------------------------------
(* The thread that Disconnect waits for.                                   *)

(* A thread that is still to be joined reads its own socket or none.  Its  *)
(* socket is the one that Disconnect closes, as long as m_socket names it. *)
Closing ==
  /\ \A s \in Sockets : /\ s > made => thread[s] = "none"
                        /\ thread[s] = "none" => sock[s] = None
  /\ app = "connect" => thread[mSocket] = "none"
  /\ mThread # None => /\ sock[mThread] \in {mThread, None}
                       /\ app # "join" => mSocket = mThread
                       /\ app = "join" => mThread \notin open
  /\ app \in {"close", "forget", "join"} => ~mRunning
  /\ app = "forget" => mSocket \notin open

LEMMA ClosingInit == Init => Closing
BY DEF Init, Closing, None

LEMMA ClosingApplication ==
  ASSUME Typing, Closing, ConnectBegin \/ Disconnect \/ Application
  PROVE  Closing'
<1> USE DEF Typing, TypeOK, AppKnows, Closing
<1>1. CASE ConnectBegin
  <2>1. made + 1 \in Sockets /\ made \in Nat /\ UNCHANGED <<thread, sock, mThread>> /\ mThread = None
    BY <1>1, ClientAssumption DEF ConnectBegin, Sockets, threadVars
  <2>2. made' = made + 1 /\ mSocket' = made + 1 /\ app' = "connect"
    BY <1>1 DEF ConnectBegin
  <2>3. \A s \in Sockets : s > made' => s > made
    BY <2>1, <2>2 DEF Sockets
  <2> QED  BY <2>1, <2>2, <2>3
<1>2. CASE ConnectSucceeds
  <2>1. /\ mSocket \in Sockets /\ mThread' = mSocket /\ app' = "free"
        /\ thread' = [thread EXCEPT ![mSocket] = "test"] /\ UNCHANGED <<mSocket, sock, made>>
        /\ sock[mSocket] = None
    BY <1>2 DEF ConnectSucceeds
  <2>2. mSocket <= made /\ made \in Nat
    BY <1>2 DEF ConnectSucceeds
  <2> QED  BY <2>1, <2>2 DEF Sockets
<1>3. CASE ConnectRefused \/ Disconnect \/ Stop
  BY <1>3 DEF ConnectRefused, Disconnect, Stop, members, threadVars
<1>4. CASE CloseSocket
  BY <1>4 DEF CloseSocket, Closed, members, threadVars
<1>5. CASE ForgetSocket
  BY <1>5 DEF ForgetSocket, Forgotten, threadVars, netVars
<1>6. CASE Join
  BY <1>6 DEF Join, threadVars
<1> QED  BY <1>1, <1>2, <1>3, <1>4, <1>5, <1>6 DEF Application

LEMMA ClosingThread ==
  ASSUME Typing, Closing, NEW t \in Sockets,
         ReceiveThread(t) \/ CallbackReturns(t) \/ Push(t) \/ DaemonCloses(t)
  PROVE  Closing'
<1> USE DEF Typing, TypeOK, AppKnows, Closing
<1>1. UNCHANGED <<members, app, made, open>>
  BY DEF ReceiveThread, TestRunning, CallRecv, RecvData, RecvEnds, CutLine, NoLine,
         CallbackReturns, Push, DaemonCloses, appVars, netVars
<1>2. CASE CallRecv(t)
  <2>1. t <= made /\ thread[t] = "call" /\ thread' = [thread EXCEPT ![t] = "recv"]
        /\ sock' = [sock EXCEPT ![t] = mSocket]
    BY <1>2 DEF CallRecv, Sockets
  <2>2. mThread = t => mSocket \in {t, None}
    BY <2>1 DEF None, Sockets
  <2> QED  BY <1>1, <2>1, <2>2 DEF members
<1>3. CASE ~CallRecv(t)
  <2>1. /\ UNCHANGED sock
        /\ \/ UNCHANGED thread
           \/ /\ thread[t] # "none"
              /\ \E w : w # "none" /\ thread' = [thread EXCEPT ![t] = w]
    BY <1>3 DEF ReceiveThread, TestRunning, RecvData, RecvEnds, CutLine, NoLine,
         CallbackReturns, Push, DaemonCloses, threadVars
  <2> QED  BY <1>1, <2>1 DEF members
<1> QED  BY <1>2, <1>3

LEMMA ClosingStep == Typing /\ Closing /\ [Next]_vars => Closing'
<1>1. ASSUME Closing, UNCHANGED vars PROVE Closing'
  BY <1>1 DEF Closing, vars, members, appVars, netVars, threadVars
<1> QED  BY <1>1, ClosingApplication, ClosingThread DEF Next

(* Whatever the thread was at when Disconnect changed m_running and closed *)
(* the socket, nothing but a callback keeps the wait from ending.          *)
THEOREM JoinEnds == Spec => []JoinedThreadStops
<1>1. Typing /\ Closing => JoinedThreadStops
  BY DEF Typing, TypeOK, Closing, JoinedThreadStops, None
<1> QED  BY TypingInit, TypingStep, ClosingInit, ClosingStep, <1>1, PTL DEF Spec
==============================================================================
