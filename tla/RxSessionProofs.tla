--------------------------- MODULE RxSessionProofs ---------------------------
(* Proofs about RxSession, for any ports, keywords, capacities and bounds. *)
EXTENDS RxSession, FiniteSetTheorems, SequenceTheorems, WellFoundedInduction, TLAPS

(* A port in the map has a channel.                                        *)
OpenHasChannel == \A p \in Ports : inMap[p] => opens[p] > 0

(* The handler sends its commands before it goes on.                       *)
OutboxInUse == outbox # <<>> => pc \in {"sending", "close_sending"}

(* The ports that are left in a part of the loop have a tap there, and     *)
(* each is left once.                                                      *)
TodoTapped ==
  /\ \A i, j \in 1..Len(todo) : todo[i] = todo[j] => i = j
  /\ phase = "rx" => \A i \in 1..Len(todo) : rxTaps[todo[i]] # NoRx
  /\ phase = "filter" => \A i \in 1..Len(todo) : filterTaps[todo[i]] # NoRx

Typing == TypeOK /\ OpenHasChannel /\ OutboxInUse /\ TodoTapped

-----------------------------------------------------------------------------
(* Lemmas about sequences.                                                 *)

LEMMA LargestExists ==
  ASSUME NEW n \in Nat, NEW T \in SUBSET (1..n), T # {}
  PROVE  Max(T) \in T /\ \A y \in T : y <= Max(T)
<1> DEFINE D == {n - x : x \in T}
           Below == OpToRel(<, Nat)
<1>1. IsWellFoundedOn(Below, Nat)
  BY NatLessThanWellFounded
<1>2. D \subseteq Nat /\ D # {}
  <2>1. \A x \in T : n - x \in Nat
    OBVIOUS
  <2> QED  BY <2>1 DEF D
<1>3. \A x, y \in Nat : y < x => <<y, x>> \in Below
  BY DEF OpToRel
<1> HIDE DEF D, Below
<1>4. PICK d \in D : \A e \in D : ~(<<e, d>> \in Below)
  BY <1>1, <1>2, WFMin
<1>5. \A e \in D : ~(e < d)
  BY <1>2, <1>3, <1>4
<1>6. PICK x \in T : d = n - x
  BY DEF D
<1>7. ASSUME NEW y \in T PROVE x >= y
  <2>1. n - y \in D
    BY DEF D
  <2>2. ~(n - y < n - x)
    BY <1>5, <1>6, <2>1
  <2> QED  BY <2>2
<1>8. Max(T) \in T /\ \A y \in T : Max(T) >= y
  BY <1>7 DEF Max
<1> QED  BY <1>8

LEMMA AppendKeeps ==
  ASSUME NEW S, NEW s \in Seq(S), NEW x \in S
  PROVE  /\ Append(s, x) \in Seq(S) /\ Len(Append(s, x)) = Len(s) + 1 /\ Len(s) \in Nat
         /\ Append(s, x)[Len(s) + 1] = x
         /\ \A i \in 1..Len(s) : Append(s, x)[i] = s[i]
OBVIOUS

LEMMA TailShifts ==
  ASSUME NEW S, NEW s \in Seq(S), s # <<>>
  PROVE  /\ Head(s) = s[1] /\ Head(s) \in S
         /\ Tail(s) \in Seq(S) /\ Len(Tail(s)) = Len(s) - 1
         /\ Len(s) \in Nat /\ Len(s) >= 1
         /\ \A i \in 1..Len(Tail(s)) : i + 1 \in 1..Len(s) /\ Tail(s)[i] = s[i + 1]
OBVIOUS

(* Moving the head of one sequence to the end of another.                  *)
LEMMA HeadMoves ==
  ASSUME NEW S, NEW s \in Seq(S), NEW u \in Seq(S), u # <<>>
  PROVE  Append(s, Head(u)) \o Tail(u) = s \o u
OBVIOUS

LEMMA ConcatEmpty ==
  ASSUME NEW S, NEW s \in Seq(S)
  PROVE  s \o <<>> = s /\ <<>> \o s = s
OBVIOUS

LEMMA ConcatTail ==
  ASSUME NEW S, NEW s \in Seq(S), NEW u \in Seq(S), s # <<>>
  PROVE  /\ s \o u # <<>> /\ s \o u \in Seq(S)
         /\ Head(s \o u) = Head(s) /\ Tail(s \o u) = Tail(s) \o u
OBVIOUS

(* A further command decides for the port that it is about.                *)
LEMMA LastAppended ==
  ASSUME NEW s \in Seq(StreamCommands), NEW m \in StreamCommands, NEW p, NEW ops, NEW now
  PROVE  LastAbout(Append(s, m), p, ops, now) =
           IF m.port = p /\ m.op \in ops THEN m ELSE LastAbout(s, p, ops, now)
<1> DEFINE I == About(s, p, ops)
           J == About(Append(s, m), p, ops)
           n == Len(s)
<1>1. /\ n \in Nat /\ Len(Append(s, m)) = n + 1 /\ Append(s, m)[n + 1] = m
      /\ \A i \in 1..n : Append(s, m)[i] = s[i]
  BY AppendKeeps
<1>2. I \in SUBSET (1..n) /\ J \in SUBSET (1..n + 1)
  BY <1>1 DEF About
<1>3. CASE m.port = p /\ m.op \in ops
  <2>1. n + 1 \in J
    BY <1>1, <1>3 DEF About
  <2>2. Max(J) \in J /\ \A y \in J : y <= Max(J)
    <3>1. n + 1 \in Nat /\ J # {} /\ J \in SUBSET (1..n + 1)
      BY <1>1, <1>2, <2>1
    <3> HIDE DEF J, n
    <3> QED  BY <3>1, LargestExists
  <2>3. Max(J) = n + 1
    BY <1>1, <1>2, <2>1, <2>2
  <2> QED  BY <1>1, <1>3, <2>1, <2>3 DEF LastAbout
<1>4. CASE ~(m.port = p /\ m.op \in ops)
  <2>1. I = J
    <3>1. \A i \in 1..n + 1 : i \in J <=> i \in I
      BY <1>1, <1>4 DEF About
    <3>2. I \in SUBSET (1..n + 1)
      <4>1. \A i \in 1..n : i \in 1..n + 1
        BY <1>1
      <4> HIDE DEF I, n
      <4> QED  BY <1>2, <4>1
    <3> HIDE DEF I, J, n
    <3> QED  BY <1>2, <3>1, <3>2
  <2>2. I # {} => Max(I) \in 1..n
    BY <1>1, <1>2, LargestExists
  <2> QED  BY <1>1, <1>4, <2>1, <2>2 DEF LastAbout
<1> QED  BY <1>3, <1>4

(* Applying the first command before the others.                           *)
LEMMA LastOfTail ==
  ASSUME NEW s \in Seq(StreamCommands), s # <<>>, NEW p, NEW ops, NEW now
  PROVE  LastAbout(s, p, ops, now) =
           LastAbout(Tail(s), p, ops,
                     IF Head(s).port = p /\ Head(s).op \in ops THEN Head(s) ELSE now)
<1> DEFINE I == About(s, p, ops)
           J == About(Tail(s), p, ops)
           n == Len(s)
<1>1. /\ Head(s) = s[1] /\ Len(Tail(s)) = n - 1 /\ n \in Nat /\ n >= 1
      /\ \A i \in 1..n - 1 : i + 1 \in 1..n /\ Tail(s)[i] = s[i + 1]
  BY TailShifts
<1>2. I \in SUBSET (1..n) /\ J \in SUBSET (1..n - 1)
  BY <1>1 DEF About
<1>3. \A i \in 1..n - 1 : i \in J <=> i + 1 \in I
  BY <1>1 DEF About
<1>4. CASE J # {}
  <2>1. Max(J) \in J /\ \A y \in J : y <= Max(J)
    <3>1. n - 1 \in Nat
      BY <1>1
    <3> HIDE DEF J, n
    <3> QED  BY <1>2, <1>4, <3>1, LargestExists
  <2>2. Max(J) \in 1..n - 1 /\ Max(J) + 1 \in I
    BY <1>2, <1>3, <2>1
  <2>3. Max(I) \in I /\ \A y \in I : y <= Max(I)
    BY <1>1, <1>2, <2>2, LargestExists
  <2>4. Max(I) \in 1..n /\ Max(I) >= Max(J) + 1
    BY <1>2, <2>2, <2>3
  <2>5. Max(I) - 1 \in 1..n - 1 /\ (Max(I) - 1) + 1 = Max(I)
    BY <1>1, <2>2, <2>4
  <2>6. Max(I) - 1 <= Max(J)
    BY <1>3, <2>1, <2>3, <2>5
  <2>7. Max(I) = Max(J) + 1
    BY <2>2, <2>4, <2>6
  <2> QED  BY <1>1, <1>4, <2>2, <2>7 DEF LastAbout
<1>5. CASE J = {}
  <2>1. \A i \in I : i = 1
    <3> SUFFICES ASSUME NEW i \in I, i # 1 PROVE FALSE
      OBVIOUS
    <3>1. i - 1 \in 1..n - 1 /\ (i - 1) + 1 = i
      BY <1>1, <1>2
    <3> QED  BY <1>3, <1>5, <3>1
  <2>2. 1 \in I <=> s[1].port = p /\ s[1].op \in ops
    BY <1>1 DEF About
  <2>3. I # {} => Max(I) = 1
    BY <1>1, <1>2, <2>1, LargestExists
  <2> QED  BY <1>1, <1>5, <2>1, <2>2, <2>3 DEF LastAbout
<1> QED  BY <1>4, <1>5

-----------------------------------------------------------------------------
(* Type correctness.                                                       *)

TableTyping == TableTypeOK /\ OpenHasChannel

LEMMA TableStepTypes ==
  ASSUME TableTyping, NEW p \in Ports, OpenStream(p) \/ RemovePort(p) \/ ReadTask(p)
  PROVE  TableTyping'
<1> USE TableAssumption DEF TableTyping, OpenHasChannel, TableTypeOK, Channels
<1>1. CASE OpenStream(p)
  BY <1>1 DEF OpenStream
<1>2. CASE RemovePort(p)
  BY <1>2 DEF RemovePort, Aborted
<1>3. CASE ReadData(p)
  <2>1. PICK d \in Data : sent' = [sent EXCEPT ![p][opens[p]] = Append(@, d)]
    BY <1>3 DEF ReadData
  <2>2. \A q \in Seq(Data) : Append(q, d) \in Seq(Data)
    OBVIOUS
  <2>3. [sent[p] EXCEPT ![opens[p]] = Append(@, d)] \in [Channels -> Seq(Data)]
    BY <2>2
  <2>4. sent' \in [Ports -> [Channels -> Seq(Data)]]
    BY <2>1, <2>3
  <2> QED  BY <2>4, <1>3 DEF ReadData
<1>4. CASE ReadFailed(p) \/ ReaderAborted(p)
  BY <1>4 DEF ReadFailed, ReaderAborted
<1> QED  BY <1>1, <1>2, <1>3, <1>4 DEF ReadTask

LEMMA SubscribeType ==
  ASSUME TableTyping, NEW p \in Ports, inMap[p]
  PROVE  Subscribe(p) \in Receivers /\ Subscribe(p) # NoRx
<1>1. opens[p] \in Channels
  BY TableAssumption DEF TableTyping, OpenHasChannel, TableTypeOK, Channels
<1>2. sent[p][opens[p]] \in Seq(Data)
  BY <1>1 DEF TableTyping, TableTypeOK
<1> QED  BY <1>1, <1>2, TableAssumption DEF Subscribe, Receivers

LEMMA EntriesType ==
  ASSUME TableTyping, NEW r \in Receivers
  PROVE  /\ SentTo(r) \in Seq(Data) /\ Len(SentTo(r)) \in Nat
         /\ Overwritten(SentTo(r)) \in Nat /\ r.next \in Nat
<1>1. SentTo(r) \in Seq(Data)
  BY DEF TableTyping, TableTypeOK, SentTo, Receivers
<1> QED  BY <1>1, CapacityAssumption DEF Overwritten, Receivers

(* A cursor that moves stays with its channel.                             *)
LEMMA MovedReceiver ==
  ASSUME NEW r \in Receivers, NEW n \in Nat
  PROVE  [r EXCEPT !.next = n] \in Receivers /\ [r EXCEPT !.next = n] # NoRx
<1>1. [r EXCEPT !.next = n] \in Receivers
  BY DEF Receivers
<1> QED  BY <1>1, TableAssumption

LEMMA CommandTypes ==
  ASSUME NEW p \in Ports
  PROVE  /\ \A op \in {"Unsubscribe", "RemoveFilter"} : Command(op, p) \in StreamCommands
         /\ \A r \in Receivers : [Command("Subscribe", p) EXCEPT !.rx = r] \in StreamCommands
         /\ \A r \in Receivers, k \in SUBSET Keywords :
              [Command("AddFilter", p) EXCEPT !.rx = r, !.keywords = k] \in StreamCommands
         /\ \A k \in SUBSET Keywords :
              [Command("SetFilterKeywords", p) EXCEPT !.keywords = k] \in StreamCommands
BY DEF Command, StreamCommands, NoFilter

LEMMA ClosingTypes ==
  ASSUME NEW p \in Ports
  PROVE  ClosingCommands(p) \in Seq(StreamCommands)
<1> DEFINE unsubscribe == Command("Unsubscribe", p)
           remove == Command("RemoveFilter", p)
<1>1. unsubscribe \in StreamCommands /\ remove \in StreamCommands
  BY CommandTypes
<1>2. \/ ClosingCommands(p) = <<>> \o <<>>
      \/ ClosingCommands(p) = <<unsubscribe>> \o <<>>
      \/ ClosingCommands(p) = <<>> \o <<remove>>
      \/ ClosingCommands(p) = <<unsubscribe>> \o <<remove>>
  BY DEF ClosingCommands
<1> HIDE DEF unsubscribe, remove
<1>3. <<unsubscribe>> \in Seq(StreamCommands) /\ <<remove>> \in Seq(StreamCommands)
  BY <1>1
<1>4. <<>> \in Seq(StreamCommands)
  BY EmptySeq
<1>5. \A u, v \in Seq(StreamCommands) : u \o v \in Seq(StreamCommands)
  OBVIOUS
<1> QED  BY <1>2, <1>3, <1>4, <1>5

(* The order of a part of the loop.                                        *)
LEMMA OrderTypes ==
  ASSUME NEW T \in SUBSET Ports, NEW order \in SetToSeqs(T)
  PROVE  /\ order \in Seq(Ports)
         /\ \A i \in 1..Len(order) : order[i] \in T
         /\ \A i, j \in 1..Len(order) : order[i] = order[j] => i = j
<1>1. Cardinality(T) \in Nat
  BY SessionAssumption, FS_Subset, FS_CardinalityType
<1>2. /\ order \in [1..Cardinality(T) -> T]
      /\ \A i, j \in 1..Cardinality(T) : i # j => order[i] # order[j]
  BY DEF SetToSeqs
<1>3. order \in Seq(T) /\ Len(order) = Cardinality(T)
  BY <1>1, <1>2
<1>4. order \in Seq(Ports)
  BY <1>1, <1>2
<1> QED  BY <1>2, <1>3, <1>4

SessionTypes ==
  /\ receivers \in [Ports -> Receivers \cup {NoRx}]
  /\ buffers \in [Ports -> Seq(Nat)]
  /\ rxSubscriptions \subseteq Ports
  /\ filterSubscriptions \in [Ports -> SUBSET Keywords]

HandlerTypes ==
  /\ conn \in {"up", "eof", "error"}
  /\ pc \in Stretches /\ portArg \in Ports /\ keywordsArg \in KeywordSets

QueueTypes ==
  /\ outbox \in Seq(StreamCommands)
  /\ queue \in Seq(StreamCommands) /\ Len(queue) <= QueueCapacity

StreamTypes ==
  /\ phase \in {"commands", "rx", "filter", "dead"}
  /\ todo \in Seq(Ports)
  /\ rxTaps \in [Ports -> Receivers \cup {NoRx}]
  /\ filterTaps \in [Ports -> Receivers \cup {NoRx}]
  /\ filterKeywords \in [Ports -> SUBSET Keywords]

Parts ==
  /\ TableTyping /\ SessionTypes /\ HandlerTypes /\ QueueTypes /\ StreamTypes
  /\ OutboxInUse /\ TodoTapped

(* The parts that TypeOK falls into.                                       *)
LEMMA TypingParts == (Typing <=> Parts) /\ (Parts' => Typing')
<1>1. Typing <=> Parts
  BY DEF Typing, TypeOK, Parts, TableTyping, SessionTypes, HandlerTypes, QueueTypes, StreamTypes
<1>2. Parts' => Typing'
  BY DEF Typing, TypeOK, Parts, TableTyping, SessionTypes, HandlerTypes, QueueTypes, StreamTypes
<1> QED  BY <1>1, <1>2

LEMMA TypingInit == Init => Typing
<1> SUFFICES ASSUME Init PROVE Typing
  OBVIOUS
<1>1. TableTyping
  <2>1. \A p \in Ports : sent[p] \in [Channels -> Seq(Data)]
    BY EmptySeq DEF Init, TableInit
  <2> QED  BY <2>1, TableAssumption DEF Init, TableInit, TableTyping, TableTypeOK, OpenHasChannel
<1>2. SessionTypes
  BY EmptySeq DEF Init, SessionTypes, NoFilter
<1>3. HandlerTypes
  BY DEF Init, HandlerTypes, Stretches
<1>4. QueueTypes
  BY EmptySeq, SessionAssumption DEF Init, QueueTypes
<1>5. StreamTypes
  BY EmptySeq DEF Init, StreamTypes, NoFilter
<1>6. OutboxInUse /\ TodoTapped
  BY DEF Init, OutboxInUse, TodoTapped
<1> QED  BY <1>1, <1>2, <1>3, <1>4, <1>5, <1>6, TypingParts DEF Parts

(* The end of the stream task leaves empty maps.                           *)
LEMMA DeadTypes ==
  ASSUME StreamDies
  PROVE  /\ StreamTypes' /\ TodoTapped'
         /\ queue' \in Seq(StreamCommands) /\ Len(queue') <= QueueCapacity
<1>1. <<>> \in Seq(Ports) /\ <<>> \in Seq(StreamCommands) /\ Len(<<>>) = 0
  BY EmptySeq
<1>2. StreamTypes'
  BY <1>1 DEF StreamDies, StreamTypes, NoFilter
<1>3. TodoTapped'
  BY DEF StreamDies, TodoTapped
<1> QED  BY <1>1, <1>2, <1>3, SessionAssumption DEF StreamDies

(* What a step leaves alone keeps its type.                                *)
LEMMA KeptTypes ==
  ASSUME Typing
  PROVE  /\ UNCHANGED tableVars => TableTyping'
         /\ UNCHANGED sessionVars => SessionTypes'
         /\ UNCHANGED <<conn, handlerVars>> => HandlerTypes'
         /\ UNCHANGED <<outbox, queue>> => QueueTypes'
         /\ UNCHANGED streamVars => StreamTypes' /\ TodoTapped'
<1> USE TypingParts DEF Parts
<1>1. UNCHANGED tableVars => TableTyping'
  BY DEF tableVars, TableTyping, TableTypeOK, OpenHasChannel
<1>2. UNCHANGED sessionVars => SessionTypes'
  BY DEF sessionVars, SessionTypes
<1>3. UNCHANGED <<conn, handlerVars>> => HandlerTypes'
  BY DEF handlerVars, HandlerTypes
<1>4. UNCHANGED <<outbox, queue>> => QueueTypes'
  BY DEF QueueTypes
<1>5. UNCHANGED streamVars => StreamTypes' /\ TodoTapped'
  BY DEF streamVars, tapVars, StreamTypes, TodoTapped
<1> QED  BY <1>1, <1>2, <1>3, <1>4, <1>5

(* A stretch of the handler that sends nothing.                            *)
LEMMA QuietHandler ==
  ASSUME Typing, pc \notin {"sending", "close_sending"},
         pc' \in Stretches, portArg' \in Ports, keywordsArg' \in KeywordSets,
         UNCHANGED <<conn, outbox, queue, streamVars>>, TableTyping', SessionTypes'
  PROVE  Typing'
<1> USE TypingParts DEF Parts
<1>1. HandlerTypes'
  BY DEF HandlerTypes
<1>2. QueueTypes' /\ StreamTypes' /\ TodoTapped'
  BY KeptTypes
<1>3. OutboxInUse'
  BY DEF OutboxInUse
<1> QED  BY <1>1, <1>2, <1>3

(* A stretch of the handler that goes on to send commands.                 *)
LEMMA SendingHandler ==
  ASSUME Typing, pc' \in {"sending", "close_sending"},
         outbox' \in Seq(StreamCommands),
         UNCHANGED <<conn, portArg, keywordsArg, queue, streamVars>>, TableTyping', SessionTypes'
  PROVE  Typing'
<1> USE TypingParts DEF Parts
<1>1. HandlerTypes'
  BY DEF HandlerTypes, Stretches
<1>2. QueueTypes' /\ StreamTypes' /\ TodoTapped'
  BY KeptTypes DEF QueueTypes
<1>3. OutboxInUse'
  BY DEF OutboxInUse
<1> QED  BY <1>1, <1>2, <1>3

LEMMA EnsuredType ==
  ASSUME TableTyping, SessionTypes, NEW p \in Ports
  PROVE  EnsuredReceiver(p) \in Receivers \cup {NoRx}
BY SubscribeType DEF EnsuredReceiver, SessionTypes

LEMMA DrainedTypes ==
  ASSUME TableTyping, NEW r \in Receivers, NEW b \in Seq(Nat)
  PROVE  /\ DrainedNext(r) \in Nat
         /\ DrainedBuffer(r, b) \in Seq(Nat)
<1> DEFINE s == SentTo(r)
           more == [i \in 1..(Len(s) - r.next) |-> r.next + i]
<1>1. Len(s) \in Nat /\ Overwritten(s) \in Nat /\ r.next \in Nat
  BY EntriesType
<1>2. DrainedNext(r) \in Nat
  BY <1>1 DEF DrainedNext
<1>3. more \in Seq(Nat)
  <2>1. CASE Len(s) - r.next \in Nat
    <3>1. more \in [1..Len(s) - r.next -> Nat]
      BY <1>1
    <3> HIDE DEF more, s
    <3> QED  BY <2>1, <3>1
  <2>2. CASE Len(s) - r.next \notin Nat
    <3>1. 1..(Len(s) - r.next) = 1..0
      BY <1>1, <2>2
    <3>2. more \in [1..0 -> Nat]
      BY <1>1, <3>1
    <3> HIDE DEF more
    <3> QED  BY <3>2
  <2> QED  BY <2>1, <2>2
<1> HIDE DEF more
<1>4. b \o more \in Seq(Nat)
  BY <1>3
<1>5. \A u \in Seq(Nat) : Newest(u) \in Seq(Nat)
  <2> SUFFICES ASSUME NEW u \in Seq(Nat), Len(u) > MaxBuffer
               PROVE  SubSeq(u, Len(u) - MaxBuffer + 1, Len(u)) \in Seq(Nat)
    BY SessionAssumption DEF Newest
  <2>1. Len(u) \in Nat /\ Len(u) - MaxBuffer + 1 \in 1..Len(u)
    BY SessionAssumption
  <2>2. \A i \in (Len(u) - MaxBuffer + 1)..Len(u) : u[i] \in Nat
    BY <2>1
  <2> QED  BY <2>1, <2>2, SubSeqProperties
<1>6. DrainedBuffer(r, b) \in Seq(Nat)
  BY <1>4, <1>5 DEF DrainedBuffer, more
<1> QED  BY <1>2, <1>6

LEMMA TypingReadPort == Typing /\ ReadPort => Typing'
<1> SUFFICES ASSUME Typing, ReadPort PROVE Typing'
  OBVIOUS
<1> USE TypingParts DEF Parts
<1> DEFINE r == EnsuredReceiver(portArg)
<1>1. portArg \in Ports /\ r \in Receivers \cup {NoRx}
  BY EnsuredType DEF HandlerTypes
<1>2. SessionTypes'
  <2>1. CASE r = NoRx
    BY <2>1, TableAssumption DEF ReadPort, SessionTypes
  <2>2. CASE r # NoRx
    <3>1. r \in Receivers /\ buffers[portArg] \in Seq(Nat)
      BY <1>1, <2>2 DEF SessionTypes
    <3>2. DrainedNext(r) \in Nat /\ DrainedBuffer(r, buffers[portArg]) \in Seq(Nat)
      BY <3>1, DrainedTypes
    <3>3. [r EXCEPT !.next = DrainedNext(r)] \in Receivers
      BY <3>1, <3>2, MovedReceiver
    <3>4. /\ receivers' = [receivers EXCEPT ![portArg] = [r EXCEPT !.next = DrainedNext(r)]]
          /\ \/ buffers' = [buffers EXCEPT ![portArg] = <<>>]
             \/ buffers' = [buffers EXCEPT ![portArg] = DrainedBuffer(r, buffers[portArg])]
          /\ UNCHANGED <<rxSubscriptions, filterSubscriptions>>
      BY <2>2 DEF ReadPort
    <3>5. <<>> \in Seq(Nat)
      BY EmptySeq
    <3> HIDE DEF r
    <3> QED  BY <1>1, <3>2, <3>3, <3>4, <3>5 DEF SessionTypes
  <2> QED  BY <2>1, <2>2
<1>3. /\ pc = "read_ensure" /\ pc' = "idle"
      /\ UNCHANGED <<tableVars, conn, portArg, keywordsArg, outbox, queue, streamVars>>
  BY DEF ReadPort, Reply
<1> QED  BY <1>2, <1>3, QuietHandler, KeptTypes DEF HandlerTypes, Stretches

LEMMA TypingSend == Typing /\ SendCommand => Typing'
<1> SUFFICES ASSUME Typing, SendCommand PROVE Typing'
  OBVIOUS
<1> USE TypingParts DEF Parts
<1>1. outbox \in Seq(StreamCommands) /\ outbox # <<>> /\ outbox' = Tail(outbox)
  BY DEF SendCommand, QueueTypes
<1>2. Head(outbox) \in StreamCommands /\ outbox' \in Seq(StreamCommands)
  BY <1>1, TailShifts
<1>3. QueueTypes'
  <2>1. CASE UNCHANGED queue
    BY <1>2, <2>1 DEF QueueTypes
  <2>2. CASE Len(queue) < QueueCapacity /\ queue' = Append(queue, Head(outbox))
    BY <1>2, <2>2, AppendKeeps, SessionAssumption DEF QueueTypes
  <2> QED  BY <2>1, <2>2 DEF SendCommand, Enqueue
<1>4. OutboxInUse'
  BY <1>1 DEF SendCommand, handlerVars, OutboxInUse
<1> QED  BY <1>3, <1>4, KeptTypes DEF SendCommand

LEMMA TypingHandler == Typing /\ Handler => Typing'
<1> SUFFICES ASSUME Typing, Handler PROVE Typing'
  OBVIOUS
<1> USE TypingParts DEF Parts
<1>1. CASE SendCommand
  BY <1>1, TypingSend
<1>2. CASE Sent
  <2>1. /\ outbox = <<>> /\ pc' = "idle"
        /\ UNCHANGED <<tableVars, conn, portArg, keywordsArg, sessionVars, outbox, queue, streamVars>>
    BY <1>2 DEF Sent, Reply
  <2>2. HandlerTypes' /\ OutboxInUse'
    BY <2>1 DEF HandlerTypes, Stretches, OutboxInUse
  <2> QED  BY <2>1, <2>2, KeptTypes
<1>3. CASE OpenPort
  <2>1. TableTyping'
    BY <1>3, TableStepTypes, KeptTypes DEF OpenPort, HandlerTypes
  <2>2. pc = "open_port" /\ pc' \in {"open_ensure", "idle"}
        /\ UNCHANGED <<conn, portArg, keywordsArg, sessionVars, outbox, queue, streamVars>>
    BY <1>3 DEF OpenPort, Goto, Reply
  <2> QED  BY <2>1, <2>2, QuietHandler, KeptTypes DEF HandlerTypes, Stretches
<1>4. CASE OpenEnsure
  <2>1. SessionTypes'
    BY <1>4, EnsuredType DEF OpenEnsure, SessionTypes, HandlerTypes
  <2>2. pc = "open_ensure" /\ pc' = "idle"
        /\ UNCHANGED <<tableVars, conn, portArg, keywordsArg, outbox, queue, streamVars>>
    BY <1>4 DEF OpenEnsure, Reply
  <2> QED  BY <2>1, <2>2, QuietHandler, KeptTypes DEF HandlerTypes, Stretches
<1>5. CASE ClosePort
  <2>1. CASE inMap[portArg]
    <3>1. TableTyping'
      BY <1>5, <2>1, TableStepTypes DEF ClosePort, HandlerTypes
    <3>2. pc' = "close_sending" /\ outbox' = ClosingCommands(portArg)
          /\ UNCHANGED <<conn, portArg, keywordsArg, sessionVars, queue, streamVars>>
      BY <1>5, <2>1 DEF ClosePort, Goto, Send
    <3>3. outbox' \in Seq(StreamCommands)
      BY <3>2, ClosingTypes DEF HandlerTypes
    <3> QED  BY <3>1, <3>2, <3>3, SendingHandler, KeptTypes
  <2>2. CASE ~inMap[portArg]
    <3>1. pc = "close_port" /\ pc' = "idle"
          /\ UNCHANGED <<tableVars, conn, portArg, keywordsArg, sessionVars, outbox, queue, streamVars>>
      BY <1>5, <2>2 DEF ClosePort, Reply
    <3> QED  BY <3>1, QuietHandler, KeptTypes DEF HandlerTypes, Stretches
  <2> QED  BY <2>1, <2>2
<1>6. CASE CloseFinish
  <2>1. SessionTypes'
    BY <1>6, EmptySeq DEF CloseFinish, SessionTypes, NoFilter
  <2>2. /\ outbox = <<>> /\ pc' = "idle"
        /\ UNCHANGED <<tableVars, conn, portArg, keywordsArg, outbox, queue, streamVars>>
    BY <1>6 DEF CloseFinish, Reply
  <2>3. HandlerTypes' /\ OutboxInUse'
    BY <2>2 DEF HandlerTypes, Stretches, OutboxInUse
  <2> QED  BY <2>1, <2>2, <2>3, KeptTypes
<1>7. CASE SubscribeCheck \/ SubscribeRefused \/ FilterCheck \/ FilterExtendRefused \/ ReadCheck
  <2>1. /\ pc \in {"subscribe_rx", "filter_rx", "add_filter_rx", "read_port"}
        /\ pc' \in {"idle", "subscribe_grab", "filter_grab", "read_ensure"}
        /\ UNCHANGED <<tableVars, conn, portArg, keywordsArg, sessionVars, outbox, queue, streamVars>>
    BY <1>7 DEF SubscribeCheck, SubscribeRefused, FilterCheck, FilterExtendRefused, ReadCheck,
                Goto, Reply
  <2> QED  BY <2>1, QuietHandler, KeptTypes DEF HandlerTypes, Stretches
<1>8. CASE SubscribeGrab
  <2>1. CASE inMap[portArg]
    <3>1. /\ pc' = "sending"
          /\ outbox' = <<[Command("Subscribe", portArg) EXCEPT !.rx = Subscribe(portArg)]>>
          /\ rxSubscriptions' = rxSubscriptions \cup {portArg}
          /\ UNCHANGED <<tableVars, conn, portArg, keywordsArg, receivers, buffers,
                         filterSubscriptions, queue, streamVars>>
      BY <1>8, <2>1 DEF SubscribeGrab, Goto, Send
    <3>2. [Command("Subscribe", portArg) EXCEPT !.rx = Subscribe(portArg)] \in StreamCommands
      BY <2>1, SubscribeType, CommandTypes DEF HandlerTypes
    <3>3. outbox' \in Seq(StreamCommands)
      BY <3>1, <3>2
    <3>4. SessionTypes'
      BY <3>1 DEF SessionTypes, HandlerTypes
    <3> QED  BY <3>1, <3>3, <3>4, SendingHandler, KeptTypes
  <2>2. CASE ~inMap[portArg]
    <3>1. /\ pc = "subscribe_grab" /\ pc' = "idle"
          /\ UNCHANGED <<tableVars, conn, portArg, keywordsArg, sessionVars, outbox, queue, streamVars>>
      BY <1>8, <2>2 DEF SubscribeGrab, Reply, sessionVars
    <3> QED  BY <3>1, QuietHandler, KeptTypes DEF HandlerTypes, Stretches
  <2> QED  BY <2>1, <2>2
<1>9. CASE Unsubscribe
  <2>1. /\ pc = "unsubscribe_rx" /\ rxSubscriptions' = rxSubscriptions \ {portArg}
        /\ UNCHANGED <<tableVars, conn, portArg, keywordsArg, receivers, buffers,
                       filterSubscriptions, queue, streamVars>>
        /\ \/ pc' = "sending" /\ outbox' = <<Command("Unsubscribe", portArg)>>
           \/ pc' = "idle" /\ UNCHANGED outbox
    BY <1>9 DEF Unsubscribe, Goto, Send, Reply
  <2>2. SessionTypes'
    BY <2>1 DEF SessionTypes
  <2>3. <<Command("Unsubscribe", portArg)>> \in Seq(StreamCommands)
    <3>1. Command("Unsubscribe", portArg) \in StreamCommands
      BY CommandTypes DEF HandlerTypes
    <3> QED  BY <3>1
  <2>4. CASE pc' = "sending" /\ outbox' = <<Command("Unsubscribe", portArg)>>
    BY <2>1, <2>2, <2>3, <2>4, SendingHandler, KeptTypes
  <2>5. CASE pc' = "idle" /\ UNCHANGED outbox
    BY <2>1, <2>2, <2>5, QuietHandler, KeptTypes DEF HandlerTypes, Stretches
  <2> QED  BY <2>1, <2>4, <2>5
<1>10. CASE FilterGrab
  <2>1. CASE inMap[portArg]
    <3>1. /\ pc' = "sending"
          /\ outbox' = <<[Command("AddFilter", portArg) EXCEPT !.rx = Subscribe(portArg),
                                                               !.keywords = keywordsArg]>>
          /\ filterSubscriptions' = [filterSubscriptions EXCEPT ![portArg] = keywordsArg]
          /\ UNCHANGED <<tableVars, conn, portArg, keywordsArg, receivers, buffers,
                         rxSubscriptions, queue, streamVars>>
      BY <1>10, <2>1 DEF FilterGrab, Goto, Send
    <3>2. keywordsArg \in SUBSET Keywords
      BY DEF HandlerTypes, KeywordSets
    <3>3. [Command("AddFilter", portArg) EXCEPT !.rx = Subscribe(portArg),
                                                !.keywords = keywordsArg] \in StreamCommands
      BY <2>1, <3>2, SubscribeType, CommandTypes DEF HandlerTypes
    <3>4. outbox' \in Seq(StreamCommands)
      BY <3>1, <3>3
    <3>5. SessionTypes'
      BY <3>1, <3>2 DEF SessionTypes
    <3> QED  BY <3>1, <3>4, <3>5, SendingHandler, KeptTypes
  <2>2. CASE ~inMap[portArg]
    <3>1. /\ pc = "filter_grab" /\ pc' = "idle"
          /\ UNCHANGED <<tableVars, conn, portArg, keywordsArg, sessionVars, outbox, queue, streamVars>>
      BY <1>10, <2>2 DEF FilterGrab, Reply, sessionVars
    <3> QED  BY <3>1, QuietHandler, KeptTypes DEF HandlerTypes, Stretches
  <2> QED  BY <2>1, <2>2
<1>11. CASE FilterExtend
  <2>1. /\ pc' = "sending"
        /\ outbox' = <<[Command("SetFilterKeywords", portArg) EXCEPT !.keywords = Merged(portArg)]>>
        /\ filterSubscriptions' = [filterSubscriptions EXCEPT ![portArg] = @ \cup keywordsArg]
        /\ UNCHANGED <<tableVars, conn, portArg, keywordsArg, receivers, buffers,
                       rxSubscriptions, queue, streamVars>>
    BY <1>11 DEF FilterExtend, Goto, Send
  <2>2. Merged(portArg) \in SUBSET Keywords /\ portArg \in Ports /\ keywordsArg \in SUBSET Keywords
    BY DEF Merged, HandlerTypes, SessionTypes, KeywordSets
  <2>3. outbox' \in Seq(StreamCommands)
    <3>1. [Command("SetFilterKeywords", portArg) EXCEPT !.keywords = Merged(portArg)] \in StreamCommands
      BY <2>2, CommandTypes
    <3> QED  BY <2>1, <3>1
  <2>4. SessionTypes'
    BY <2>1, <2>2 DEF SessionTypes
  <2> QED  BY <2>1, <2>3, <2>4, SendingHandler, KeptTypes
<1>12. CASE Unfilter
  <2>1. /\ pc = "unfilter_rx"
        /\ filterSubscriptions' = [filterSubscriptions EXCEPT ![portArg] = NoFilter]
        /\ UNCHANGED <<tableVars, conn, portArg, keywordsArg, receivers, buffers,
                       rxSubscriptions, queue, streamVars>>
        /\ \/ pc' = "sending" /\ outbox' = <<Command("RemoveFilter", portArg)>>
           \/ pc' = "idle" /\ UNCHANGED outbox
    BY <1>12 DEF Unfilter, Goto, Send, Reply
  <2>2. SessionTypes'
    BY <2>1 DEF SessionTypes, NoFilter
  <2>3. <<Command("RemoveFilter", portArg)>> \in Seq(StreamCommands)
    <3>1. Command("RemoveFilter", portArg) \in StreamCommands
      BY CommandTypes DEF HandlerTypes
    <3> QED  BY <3>1
  <2>4. CASE pc' = "sending" /\ outbox' = <<Command("RemoveFilter", portArg)>>
    BY <2>1, <2>2, <2>3, <2>4, SendingHandler, KeptTypes
  <2>5. CASE pc' = "idle" /\ UNCHANGED outbox
    BY <2>1, <2>2, <2>5, QuietHandler, KeptTypes DEF HandlerTypes, Stretches
  <2> QED  BY <2>1, <2>4, <2>5
<1>13. CASE ReadPort
  BY <1>13, TypingReadPort
<1> QED
  BY <1>1, <1>2, <1>3, <1>4, <1>5, <1>6, <1>7, <1>8, <1>9, <1>10, <1>11, <1>12, <1>13 DEF Handler

(* A tap that moves or is dropped is still a tap of its port.              *)
LEMMA AdvancedTypes ==
  ASSUME TableTyping, NEW taps \in [Ports -> Receivers \cup {NoRx}],
         NEW p \in Ports, taps[p] # NoRx
  PROVE  /\ Advanced(taps, p) \in [Ports -> Receivers \cup {NoRx}]
         /\ \A q \in Ports : Advanced(taps, p)[q] = NoRx <=> taps[q] = NoRx
<1>1. taps[p] \in Receivers
  OBVIOUS
<1>2. NextAfterPoll(taps[p]) \in Nat
  BY <1>1, EntriesType DEF NextAfterPoll
<1>3. /\ [taps[p] EXCEPT !.next = NextAfterPoll(taps[p])] \in Receivers
      /\ [taps[p] EXCEPT !.next = NextAfterPoll(taps[p])] # NoRx
  BY <1>1, <1>2, MovedReceiver
<1>4. Advanced(taps, p) = [taps EXCEPT ![p] = [taps[p] EXCEPT !.next = NextAfterPoll(taps[p])]]
  BY DEF Advanced
<1> QED  BY <1>3, <1>4

(* The port that the loop looks at has a tap.                              *)
LEMMA PolledTap ==
  ASSUME Typing, NEW p, todo # <<>>, p = Head(todo)
  PROVE  /\ p \in Ports
         /\ phase = "rx" => rxTaps[p] # NoRx
         /\ phase = "filter" => filterTaps[p] # NoRx
<1>1. Head(todo) = todo[1] /\ Head(todo) \in Ports /\ Len(todo) \in Nat /\ Len(todo) >= 1
  BY TypingParts, TailShifts DEF Parts, StreamTypes
<1> QED  BY <1>1, TypingParts DEF Parts, TodoTapped

LEMMA TypingApply == Typing /\ ApplyCommand => Typing'
<1> SUFFICES ASSUME Typing, ApplyCommand PROVE Typing'
  OBVIOUS
<1> USE TypingParts DEF Parts
<1>1. /\ queue # <<>> /\ queue \in Seq(StreamCommands) /\ queue' = Tail(queue)
      /\ phase = "commands" /\ UNCHANGED <<tableVars, conn, handlerVars, sessionVars, outbox, phase, todo>>
  BY DEF ApplyCommand, QueueTypes
<1>2. Head(queue) \in StreamCommands /\ queue' \in Seq(StreamCommands) /\ Len(queue') <= QueueCapacity
  BY <1>1, TailShifts, SessionAssumption DEF QueueTypes
<1>3. StreamTypes'
  BY <1>1, <1>2 DEF ApplyCommand, StreamTypes, StreamCommands
<1>4. QueueTypes' /\ TodoTapped' /\ OutboxInUse'
  BY <1>1, <1>2 DEF QueueTypes, TodoTapped, OutboxInUse, handlerVars
<1> QED  BY <1>1, <1>3, <1>4, KeptTypes

LEMMA TypingPoll ==
  ASSUME Typing, NEW p \in Ports, PushRx(p) \/ CheckFilter(p) \/ SkipLost(p) \/ PollDone(p)
  PROVE  Typing'
<1> USE TypingParts DEF Parts
<1>1. /\ todo # <<>> /\ p = Head(todo)
      /\ UNCHANGED <<tableVars, conn, handlerVars, sessionVars, outbox, queue, phase>>
      /\ phase \in {"rx", "filter"}
  BY DEF PushRx, CheckFilter, SkipLost, PollDone, PollValue, PollLagged, PollEnd
<1>2. /\ phase = "rx" => rxTaps[p] # NoRx
      /\ phase = "filter" => filterTaps[p] # NoRx
  BY <1>1, PolledTap
<1>3. TableTyping' /\ SessionTypes' /\ HandlerTypes' /\ QueueTypes' /\ OutboxInUse'
  BY <1>1, KeptTypes DEF OutboxInUse, handlerVars
<1>4. CASE PushRx(p) \/ CheckFilter(p) \/ SkipLost(p)
  <2>1. /\ UNCHANGED <<todo, filterKeywords>>
        /\ \/ phase = "rx" /\ rxTaps' = Advanced(rxTaps, p) /\ UNCHANGED filterTaps
           \/ phase = "filter" /\ filterTaps' = Advanced(filterTaps, p) /\ UNCHANGED rxTaps
    BY <1>4 DEF PushRx, CheckFilter, SkipLost
  <2>2. StreamTypes' /\ \A q \in Ports : /\ rxTaps'[q] = NoRx <=> rxTaps[q] = NoRx
                                         /\ filterTaps'[q] = NoRx <=> filterTaps[q] = NoRx
    BY <1>1, <1>2, <2>1, AdvancedTypes DEF StreamTypes
  <2>3. \A i \in 1..Len(todo) : todo[i] \in Ports
    BY DEF StreamTypes
  <2>4. TodoTapped'
    BY <1>1, <2>1, <2>2, <2>3 DEF TodoTapped
  <2> QED  BY <1>3, <2>2, <2>4
<1>5. CASE PollDone(p)
  <2>1. /\ todo' = Tail(todo)
        /\ \/ /\ phase = "rx" /\ rxTaps' = AfterEnd(rxTaps, p) /\ UNCHANGED <<filterTaps, filterKeywords>>
           \/ /\ phase = "filter" /\ filterTaps' = AfterEnd(filterTaps, p) /\ UNCHANGED rxTaps
              /\ filterKeywords' = [filterKeywords EXCEPT ![p] =
                                      IF filterTaps'[p] = NoRx THEN NoFilter ELSE @]
    BY <1>5 DEF PollDone
  <2>2. /\ Len(todo) \in Nat /\ todo' \in Seq(Ports) /\ Len(todo') = Len(todo) - 1 /\ p = todo[1]
        /\ \A i \in 1..Len(todo') : i + 1 \in 1..Len(todo) /\ todo'[i] = todo[i + 1]
    BY <1>1, <2>1, TailShifts DEF StreamTypes
  <2>3. StreamTypes'
    BY <1>1, <2>1, <2>2 DEF StreamTypes, AfterEnd, NoFilter
  <2>4. \A i \in 1..Len(todo') : todo'[i] # p /\ todo'[i] \in Ports
    BY <2>2 DEF TodoTapped, StreamTypes
  <2>5. /\ \A q \in Ports \ {p} : rxTaps'[q] = rxTaps[q] /\ filterTaps'[q] = filterTaps[q]
    BY <2>1 DEF AfterEnd, StreamTypes
  <2>6. \A i, j \in 1..Len(todo') : todo'[i] = todo'[j] => i = j
    BY <2>2 DEF TodoTapped
  <2>7. ASSUME NEW i \in 1..Len(todo')
        PROVE  /\ rxTaps'[todo'[i]] = rxTaps[todo[i + 1]]
               /\ filterTaps'[todo'[i]] = filterTaps[todo[i + 1]]
               /\ i + 1 \in 1..Len(todo)
    BY <2>2, <2>4, <2>5
  <2>8. TodoTapped'
    BY <1>1, <2>6, <2>7 DEF TodoTapped
  <2> QED  BY <1>3, <2>3, <2>8
<1> QED  BY <1>4, <1>5

LEMMA TypingLoop ==
  ASSUME Typing, BeginRx \/ BeginFilter \/ BeginCommands
  PROVE  Typing'
<1> USE TypingParts DEF Parts
<1>1. UNCHANGED <<tableVars, conn, handlerVars, sessionVars, outbox, queue, tapVars>>
  BY DEF BeginRx, BeginFilter, BeginCommands
<1>2. TableTyping' /\ SessionTypes' /\ HandlerTypes' /\ QueueTypes' /\ OutboxInUse'
  BY <1>1, KeptTypes DEF OutboxInUse, handlerVars
<1>3. CASE BeginRx
  <2>1. phase' = "rx" /\ todo' \in SetToSeqs(Tapped(rxTaps)) /\ Tapped(rxTaps) \in SUBSET Ports
    BY <1>3 DEF BeginRx, Tapped
  <2>2. /\ todo' \in Seq(Ports)
        /\ \A i \in 1..Len(todo') : rxTaps[todo'[i]] # NoRx
        /\ \A i, j \in 1..Len(todo') : todo'[i] = todo'[j] => i = j
    BY <2>1, OrderTypes DEF Tapped
  <2>3. StreamTypes' /\ TodoTapped'
    BY <1>1, <2>1, <2>2 DEF StreamTypes, TodoTapped, tapVars
  <2> QED  BY <1>2, <2>3
<1>4. CASE BeginFilter
  <2>1. phase' = "filter" /\ todo' \in SetToSeqs(Tapped(filterTaps)) /\ Tapped(filterTaps) \in SUBSET Ports
    BY <1>4 DEF BeginFilter, Tapped
  <2>2. /\ todo' \in Seq(Ports)
        /\ \A i \in 1..Len(todo') : filterTaps[todo'[i]] # NoRx
        /\ \A i, j \in 1..Len(todo') : todo'[i] = todo'[j] => i = j
    BY <2>1, OrderTypes DEF Tapped
  <2>3. StreamTypes' /\ TodoTapped'
    BY <1>1, <2>1, <2>2 DEF StreamTypes, TodoTapped, tapVars
  <2> QED  BY <1>2, <2>3
<1>5. CASE BeginCommands
  <2>1. phase' = "commands" /\ UNCHANGED todo
    BY <1>5 DEF BeginCommands
  <2>2. StreamTypes' /\ TodoTapped'
    BY <1>1, <2>1 DEF StreamTypes, TodoTapped, tapVars
  <2> QED  BY <1>2, <2>2
<1> QED  BY <1>3, <1>4, <1>5

LEMMA TypingRest ==
  ASSUME Typing,
         \/ Request \/ Eof \/ SessionError \/ StreamEnds \/ StreamAborted
         \/ \E p \in Ports : WriteFails(p) \/ OtherOpens(p) \/ OtherCloses(p) \/ ReadStep(p)
  PROVE  Typing'
<1> USE TypingParts DEF Parts
<1>1. CASE Request
  <2>1. HandlerTypes' /\ OutboxInUse'
    BY <1>1, SessionAssumption DEF Request, HandlerTypes, Stretches, OutboxInUse
  <2> QED  BY <1>1, <2>1, KeptTypes DEF Request
<1>2. CASE StreamAborted \/ StreamEnds \/ \E p \in Ports : WriteFails(p)
  <2>1. StreamDies /\ UNCHANGED <<tableVars, conn, handlerVars, sessionVars, outbox>>
    BY <1>2 DEF StreamAborted, StreamEnds, WriteFails
  <2>2. HandlerTypes' /\ OutboxInUse'
    BY <2>1 DEF HandlerTypes, handlerVars, OutboxInUse
  <2>3. QueueTypes'
    BY <2>1, DeadTypes DEF QueueTypes
  <2> QED  BY <2>1, <2>2, <2>3, DeadTypes, KeptTypes
<1>3. CASE Eof \/ SessionError
  <2>1. HandlerTypes' /\ OutboxInUse'
    BY <1>3 DEF Eof, SessionError, HandlerTypes, handlerVars, OutboxInUse
  <2> QED  BY <1>3, <2>1, KeptTypes DEF Eof, SessionError
<1>4. CASE \E p \in Ports : OtherOpens(p) \/ OtherCloses(p) \/ ReadStep(p)
  <2>1. TableTyping' /\ UNCHANGED connectionVars
    BY <1>4, TableStepTypes DEF OtherOpens, OtherCloses, ReadStep
  <2>2. OutboxInUse'
    BY <2>1 DEF connectionVars, handlerVars, OutboxInUse
  <2> QED  BY <2>1, <2>2, KeptTypes DEF connectionVars
<1> QED  BY <1>1, <1>2, <1>3, <1>4

LEMMA TypingStep == Typing /\ [Next]_vars => Typing'
<1> SUFFICES ASSUME Typing, [Next]_vars PROVE Typing'
  OBVIOUS
<1>1. CASE Handler
  BY <1>1, TypingHandler
<1>2. CASE StreamTask
  BY <1>2, TypingApply, TypingLoop, TypingPoll, TypingRest DEF StreamTask
<1>3. CASE UNCHANGED vars
  <2>1. OutboxInUse'
    BY <1>3, TypingParts DEF vars, handlerVars, OutboxInUse, Parts
  <2> QED  BY <1>3, <2>1, KeptTypes, TypingParts DEF vars, Parts
<1> QED  BY <1>1, <1>2, <1>3, TypingRest DEF Next

(* The variables keep their types whatever the client, the other           *)
(* connections and the devices do; in particular the handler and the       *)
(* stream task never hold more commands than the queue has room for.       *)
THEOREM TypeCorrect == Spec => []TypeOK
<1>1. Typing => TypeOK
  BY DEF Typing
<1> QED  BY <1>1, TypingInit, TypingStep, PTL DEF Spec

-----------------------------------------------------------------------------
(* The session and the stream task agree.                                  *)

(* What is known of a session without a subscription, of one with, and     *)
(* while close_port sends: the commands under way end every stream of the  *)
(* port, although the session forgets the port only afterwards.            *)
Matched(p) ==
  /\ RxTapSoon(p) # NoRx => p \in rxSubscriptions
  /\ p \in rxSubscriptions /\ NeverClosed(p) => RxTapSoon(p) # NoRx
  /\ FilterTapSoon(p) # NoRx =>
       filterSubscriptions[p] # NoFilter /\ KeywordsSoon(p) = filterSubscriptions[p]
  /\ filterSubscriptions[p] # NoFilter /\ NeverClosed(p) => FilterTapSoon(p) # NoRx
  /\ pc = "close_sending" /\ p = portArg => RxTapSoon(p) = NoRx /\ FilterTapSoon(p) = NoRx

(* Only a port that has been open is subscribed to, so that a port cannot  *)
(* become one that was never closed under a subscription.                  *)
SubscribedOnce ==
  \A p \in Ports : p \in rxSubscriptions \/ filterSubscriptions[p] # NoFilter => opens[p] > 0

Live == conn = "up" /\ phase # "dead"

Agreement == Typing /\ SubscribedOnce /\ (Live => \A p \in Ports : Matched(p))

(* A command about the stream of the port is under way.                    *)
Deciding(p) == About(UnderWay, p, RxOps) # {}

(* The default decides exactly when no command is about the port.          *)
LEMMA DefaultDecides ==
  ASSUME NEW s, NEW p, NEW ops, NEW now, NEW then
  PROVE  /\ About(s, p, ops) = {} => LastAbout(s, p, ops, now) = now
         /\ About(s, p, ops) # {} => LastAbout(s, p, ops, now) = LastAbout(s, p, ops, then)
BY DEF LastAbout

(* A command that is sent is about its port, and the others still are.     *)
LEMMA AboutAppended ==
  ASSUME NEW s \in Seq(StreamCommands), NEW m \in StreamCommands, NEW p, NEW ops
  PROVE  About(Append(s, m), p, ops) # {} <=> (m.port = p /\ m.op \in ops) \/ About(s, p, ops) # {}
<1> DEFINE n == Len(s)
<1>1. /\ n \in Nat /\ Len(Append(s, m)) = n + 1 /\ Append(s, m)[n + 1] = m
      /\ \A i \in 1..n : Append(s, m)[i] = s[i]
  BY AppendKeeps
<1>2. \A i : i \in 1..n + 1 <=> i \in 1..n \/ i = n + 1
  BY <1>1
<1> HIDE DEF n
<1>3. \A i : i \in About(Append(s, m), p, ops) <=>
               i \in About(s, p, ops) \/ (i = n + 1 /\ m.port = p /\ m.op \in ops)
  BY <1>1, <1>2 DEF About, n
<1> QED  BY <1>3

LEMMA AboutTail ==
  ASSUME NEW s \in Seq(StreamCommands), s # <<>>, NEW p, NEW ops, About(Tail(s), p, ops) # {}
  PROVE  About(s, p, ops) # {}
<1>1. \A i \in 1..Len(Tail(s)) : i + 1 \in 1..Len(s) /\ Tail(s)[i] = s[i + 1]
  BY TailShifts
<1>2. PICK i \in 1..Len(Tail(s)) : Tail(s)[i].port = p /\ Tail(s)[i].op \in ops
  BY DEF About
<1> QED  BY <1>1, <1>2 DEF About

LEMMA AboutHead ==
  ASSUME NEW s \in Seq(StreamCommands), s # <<>>, NEW p, NEW ops,
         About(s, p, ops) # {}, About(Tail(s), p, ops) = {}
  PROVE  Head(s).port = p /\ Head(s).op \in ops
<1> DEFINE n == Len(s)
<1>1. /\ Head(s) = s[1] /\ Len(Tail(s)) = n - 1 /\ n \in Nat /\ n >= 1
      /\ \A i \in 1..n - 1 : Tail(s)[i] = s[i + 1]
  BY TailShifts
<1>2. PICK i \in 1..n : s[i].port = p /\ s[i].op \in ops
  BY DEF About
<1>3. CASE i = 1
  BY <1>1, <1>2, <1>3
<1>4. CASE i # 1
  <2>1. i - 1 \in 1..n - 1 /\ (i - 1) + 1 = i
    BY <1>1, <1>4
  <2>2. Tail(s)[i - 1] = s[i]
    BY <1>1, <2>1
  <2>3. i - 1 \in About(Tail(s), p, ops)
    BY <1>1, <1>2, <2>1, <2>2 DEF About
  <2> QED  BY <2>3
<1> QED  BY <1>3, <1>4

LEMMA FilterOpsAbout ==
  ASSUME NEW s, NEW p, About(s, p, KeywordOps) = {}
  PROVE  About(s, p, FilterOps) = {}
BY DEF About, FilterOps, KeywordOps

(* What the commands about a port come to, when one more is sent.          *)
LEMMA SoonSent ==
  ASSUME NEW p, NEW m \in StreamCommands, queue \in Seq(StreamCommands), outbox = <<>>,
         outbox' = <<m>>, UNCHANGED <<queue, tapVars>>
  PROVE  /\ RxTapSoon(p)' = IF m.port = p /\ m.op \in RxOps THEN m.rx ELSE RxTapSoon(p)
         /\ FilterTapSoon(p)' =
              IF m.port = p /\ m.op \in FilterOps THEN m.rx ELSE FilterTapSoon(p)
         /\ KeywordsSoon(p)' =
              IF m.port = p /\ m.op \in KeywordOps THEN m.keywords ELSE KeywordsSoon(p)
         /\ Deciding(p)' <=> Deciding(p) \/ (m.port = p /\ m.op \in RxOps)
<1>1. UnderWay = queue /\ UnderWay' = Append(queue, m)
  BY ConcatEmpty DEF UnderWay
<1>2. UnderWay \in Seq(StreamCommands)
  BY <1>1
<1>3. \A ops, now : LastAbout(Append(queue, m), p, ops, now) =
                      IF m.port = p /\ m.op \in ops THEN m ELSE LastAbout(queue, p, ops, now)
  BY LastAppended
<1>4. Deciding(p)' <=> Deciding(p) \/ (m.port = p /\ m.op \in RxOps)
  BY <1>1, AboutAppended DEF Deciding
<1> QED
  BY <1>1, <1>3, <1>4 DEF RxTapSoon, FilterTapSoon, KeywordsSoon, tapVars

LEMMA SoonKept ==
  ASSUME NEW p, UNCHANGED <<UnderWay, tapVars>>
  PROVE  UNCHANGED <<RxTapSoon(p), FilterTapSoon(p), KeywordsSoon(p)>>
BY DEF RxTapSoon, FilterTapSoon, KeywordsSoon, tapVars

(* A port that has been closed remains one that was closed.                *)
LEMMA NeverClosedBefore ==
  ASSUME TableTyping, NEW q \in Ports,
         UNCHANGED tableVars \/ \E p \in Ports : OpenStream(p) \/ RemovePort(p) \/ ReadTask(p)
  PROVE  /\ NeverClosed(q)' => NeverClosed(q) \/ opens[q] = 0
         /\ opens[q] > 0 => opens'[q] > 0
<1> USE DEF NeverClosed, TableTyping, TableTypeOK
<1>1. CASE UNCHANGED tableVars
  BY <1>1 DEF tableVars
<1>2. ASSUME NEW p \in Ports, OpenStream(p) PROVE NeverClosed(q)' => NeverClosed(q) \/ opens[q] = 0
  BY <1>2, TableAssumption DEF OpenStream
<1>3. ASSUME NEW p \in Ports, OpenStream(p) PROVE opens[q] > 0 => opens'[q] > 0
  BY <1>3, TableAssumption DEF OpenStream
<1>4. ASSUME NEW p \in Ports, RemovePort(p) \/ ReadTask(p)
      PROVE  UNCHANGED opens /\ (inMap'[q] => inMap[q])
  BY <1>4 DEF RemovePort, ReadTask, ReadData, ReadFailed, ReaderAborted
<1> QED  BY <1>1, <1>2, <1>3, <1>4

(* A step at which neither side changes what it says of the port.          *)
LEMMA MatchKept ==
  ASSUME NEW p \in Ports, Matched(p), SubscribedOnce,
         UNCHANGED <<rxSubscriptions, filterSubscriptions>>,
         NeverClosed(p)' => NeverClosed(p) \/ opens[p] = 0,
         pc' = "close_sending" /\ p = portArg' => pc = "close_sending" /\ p = portArg,
         RxTapSoon(p)' # NoRx => RxTapSoon(p) # NoRx,
         FilterTapSoon(p)' # NoRx => FilterTapSoon(p) # NoRx /\ KeywordsSoon(p)' = KeywordsSoon(p),
         NeverClosed(p) => (RxTapSoon(p)' = NoRx => RxTapSoon(p) = NoRx),
         NeverClosed(p) => (FilterTapSoon(p)' = NoRx => FilterTapSoon(p) = NoRx)
  PROVE  Matched(p)'
<1>1. (p \in rxSubscriptions \/ filterSubscriptions[p] # NoFilter) /\ NeverClosed(p)' => NeverClosed(p)
  BY DEF SubscribedOnce
<1> QED  BY <1>1 DEF Matched

(* Steps that leave the subscriptions, the commands and the taps alone.    *)
LEMMA MatchQuiet ==
  ASSUME Agreement, Live,
         UNCHANGED tableVars \/ \E q \in Ports : OpenStream(q) \/ RemovePort(q) \/ ReadTask(q),
         UNCHANGED <<rxSubscriptions, filterSubscriptions, UnderWay, tapVars>>,
         pc' = "close_sending" => pc = "close_sending" /\ portArg' = portArg,
         NEW p \in Ports
  PROVE  Matched(p)'
<1>1. TableTyping /\ SubscribedOnce /\ Matched(p)
  BY TypingParts DEF Agreement, Parts
<1>2. UNCHANGED <<RxTapSoon(p), FilterTapSoon(p), KeywordsSoon(p)>>
  BY SoonKept
<1> QED  BY <1>1, <1>2, NeverClosedBefore, MatchKept

LEMMA MatchSend ==
  ASSUME Agreement, Live, SendCommand, NEW p \in Ports
  PROVE  Matched(p)'
<1>1. queue \in Seq(StreamCommands) /\ outbox \in Seq(StreamCommands) /\ outbox # <<>>
  BY TypingParts DEF Agreement, Parts, QueueTypes, SendCommand
<1>2. queue' = Append(queue, Head(outbox)) /\ outbox' = Tail(outbox)
  BY DEF SendCommand, Enqueue, Live
<1>3. UNCHANGED UnderWay
  BY <1>1, <1>2, HeadMoves DEF UnderWay
<1> QED  BY <1>3, MatchQuiet DEF SendCommand, sessionVars, streamVars, handlerVars

(* The stream task applies the head of the queue: it becomes the default   *)
(* for the commands that remain.                                           *)
LEMMA SoonApplied ==
  ASSUME Typing, ApplyCommand, NEW p \in Ports
  PROVE  /\ RxTapSoon(p)' = RxTapSoon(p) /\ FilterTapSoon(p)' = FilterTapSoon(p)
         /\ FilterTapSoon(p)' # NoRx => KeywordsSoon(p)' = KeywordsSoon(p)
         /\ Deciding(p)' => Deciding(p)
         /\ ~Deciding(p)' => RxTapSoon(p)' = rxTaps'[p]
         /\ rxTaps'[p] # rxTaps[p] => Deciding(p) /\ Head(queue).port = p
         /\ Deciding(p) /\ ~Deciding(p)' => Head(queue).port = p
<1> DEFINE m == Head(queue)
           s == UnderWay'
<1>1. /\ queue \in Seq(StreamCommands) /\ outbox \in Seq(StreamCommands) /\ queue # <<>>
      /\ queue' = Tail(queue) /\ UNCHANGED outbox /\ StreamTypes
  BY TypingParts DEF Parts, QueueTypes, ApplyCommand
<1>2. m \in StreamCommands
  BY <1>1, TailShifts
<1>3. /\ UnderWay # <<>> /\ UnderWay \in Seq(StreamCommands)
      /\ Head(UnderWay) = m /\ Tail(UnderWay) = s
  BY <1>1, ConcatTail DEF UnderWay
<1>4. \A ops, now : LastAbout(UnderWay, p, ops, now) =
                      LastAbout(s, p, ops, IF m.port = p /\ m.op \in ops THEN m ELSE now)
  <2>1. \A u \in Seq(StreamCommands) : u # <<>> => \A ops, now :
          LastAbout(u, p, ops, now) =
            LastAbout(Tail(u), p, ops, IF Head(u).port = p /\ Head(u).op \in ops THEN Head(u) ELSE now)
    BY LastOfTail
  <2> HIDE DEF m, s
  <2> QED  BY <1>3, <2>1
<1> HIDE DEF s
<1>5. /\ RxTapSoon(p)' = LastAbout(s, p, RxOps, [rx |-> rxTaps'[p]]).rx
      /\ FilterTapSoon(p)' = LastAbout(s, p, FilterOps, [rx |-> filterTaps'[p]]).rx
      /\ KeywordsSoon(p)' = LastAbout(s, p, KeywordOps, [keywords |-> filterKeywords'[p]]).keywords
  BY DEF s, RxTapSoon, FilterTapSoon, KeywordsSoon, RxOps, FilterOps, KeywordOps
<1>6. RxTapSoon(p)' = RxTapSoon(p)
  <2>1. RxTapSoon(p) = LastAbout(s, p, RxOps, IF m.port = p /\ m.op \in RxOps THEN m
                                              ELSE [rx |-> rxTaps[p]]).rx
    BY <1>4 DEF RxTapSoon, RxOps
  <2>2. rxTaps'[p] = IF m.port = p /\ m.op \in RxOps THEN m.rx ELSE rxTaps[p]
    BY <1>1, <1>2 DEF ApplyCommand, StreamTypes, StreamCommands, RxOps
  <2> QED  BY <1>5, <2>1, <2>2, DefaultDecides
<1>7. FilterTapSoon(p)' = FilterTapSoon(p)
  <2>1. FilterTapSoon(p) = LastAbout(s, p, FilterOps, IF m.port = p /\ m.op \in FilterOps THEN m
                                                      ELSE [rx |-> filterTaps[p]]).rx
    BY <1>4 DEF FilterTapSoon, FilterOps
  <2>2. filterTaps'[p] = IF m.port = p /\ m.op \in FilterOps THEN m.rx ELSE filterTaps[p]
    BY <1>1, <1>2 DEF ApplyCommand, StreamTypes, StreamCommands, FilterOps
  <2> QED  BY <1>5, <2>1, <2>2, DefaultDecides
<1>8. FilterTapSoon(p)' # NoRx => KeywordsSoon(p)' = KeywordsSoon(p)
  <2>1. KeywordsSoon(p) = LastAbout(s, p, KeywordOps, IF m.port = p /\ m.op \in KeywordOps THEN m
                                                      ELSE [keywords |-> filterKeywords[p]]).keywords
    BY <1>4 DEF KeywordsSoon, KeywordOps
  <2>2. CASE About(s, p, KeywordOps) # {}
    BY <1>5, <2>1, <2>2, DefaultDecides
  <2>3. CASE About(s, p, KeywordOps) = {}
    <3>1. /\ KeywordsSoon(p)' = filterKeywords'[p]
          /\ KeywordsSoon(p) = IF m.port = p /\ m.op \in KeywordOps THEN m.keywords
                               ELSE filterKeywords[p]
          /\ FilterTapSoon(p)' = filterTaps'[p]
      BY <1>5, <2>1, <2>3, DefaultDecides, FilterOpsAbout
    <3>2. filterTaps'[p] # NoRx =>
            filterKeywords'[p] = IF m.port = p /\ m.op \in KeywordOps THEN m.keywords
                                 ELSE filterKeywords[p]
      BY <1>1, <1>2 DEF ApplyCommand, StreamTypes, StreamCommands, FilterOps, KeywordOps
    <3> QED  BY <3>1, <3>2
  <2> QED  BY <2>2, <2>3
<1>9. /\ Deciding(p)' => Deciding(p)
      /\ m.port = p /\ m.op \in RxOps => Deciding(p)
      /\ Deciding(p) /\ ~Deciding(p)' => m.port = p
  <2>1. \A u \in Seq(StreamCommands) : u # <<>> =>
          /\ About(Tail(u), p, RxOps) # {} => About(u, p, RxOps) # {}
          /\ About(u, p, RxOps) # {} /\ About(Tail(u), p, RxOps) = {} => Head(u).port = p
    BY AboutTail, AboutHead
  <2>2. \A u \in Seq(StreamCommands) :
          u # <<>> /\ Head(u).port = p /\ Head(u).op \in RxOps => 1 \in About(u, p, RxOps)
    BY TailShifts DEF About
  <2> HIDE DEF m
  <2> QED  BY <1>3, <2>1, <2>2 DEF Deciding, s
<1>10. ~Deciding(p)' => RxTapSoon(p)' = rxTaps'[p]
  BY <1>5, DefaultDecides DEF Deciding, s
<1>11. rxTaps'[p] # rxTaps[p] => m.port = p /\ m.op \in RxOps
  BY <1>1, <1>2 DEF ApplyCommand, StreamTypes, StreamCommands, RxOps
<1> QED  BY <1>6, <1>7, <1>8, <1>9, <1>10, <1>11

LEMMA MatchApply ==
  ASSUME Agreement, Live, ApplyCommand, NEW p \in Ports
  PROVE  Matched(p)'
<1>1. /\ Typing /\ TableTyping /\ SubscribedOnce /\ Matched(p)
      /\ UNCHANGED <<tableVars, handlerVars, sessionVars>>
  BY TypingParts DEF Agreement, Parts, ApplyCommand
<1> QED
  BY <1>1, SoonApplied, NeverClosedBefore, MatchKept DEF handlerVars, sessionVars

(* A tap is dropped only when its channel is closed.                       *)
LEMMA DroppedTap ==
  ASSUME TableTyping, NEW taps \in [Ports -> Receivers \cup {NoRx}],
         NEW q \in Ports, taps[q] # NoRx, NEW p \in Ports
  PROVE  LET after == AfterEnd(taps, q)
         IN  /\ after[p] # NoRx => taps[p] # NoRx
             /\ NeverClosed(p) => (after[p] = NoRx => taps[p] = NoRx)
<1>1. CASE p # q
  BY <1>1 DEF AfterEnd
<1>2. CASE p = q /\ NeverClosed(p)
  <2>1. taps[q].gen \in Channels
    BY DEF Receivers
  <2>2. ~ChannelClosed(q, taps[q].gen)
    BY <1>2, <2>1, TableAssumption DEF ChannelClosed, NeverClosed, Channels
  <2> QED  BY <1>2, <2>2 DEF AfterEnd
<1>3. CASE p = q /\ ~NeverClosed(p)
  BY <1>3 DEF AfterEnd
<1> QED  BY <1>1, <1>2, <1>3

LEMMA MatchPoll ==
  ASSUME Agreement, Live, NEW q \in Ports,
         PushRx(q) \/ CheckFilter(q) \/ SkipLost(q) \/ PollDone(q),
         NEW p \in Ports
  PROVE  Matched(p)'
<1>1. /\ todo # <<>> /\ q = Head(todo)
      /\ UNCHANGED <<tableVars, conn, handlerVars, sessionVars, outbox, queue, phase>>
      /\ phase \in {"rx", "filter"}
  BY DEF PushRx, CheckFilter, SkipLost, PollDone, PollValue, PollLagged, PollEnd
<1>2. /\ Typing /\ TableTyping /\ StreamTypes /\ SubscribedOnce /\ Matched(p)
  BY TypingParts DEF Agreement, Parts
<1>3. /\ phase = "rx" => rxTaps[q] # NoRx
      /\ phase = "filter" => filterTaps[q] # NoRx
  BY <1>1, <1>2, PolledTap
<1>4. /\ rxTaps'[p] # NoRx => rxTaps[p] # NoRx
      /\ NeverClosed(p) => (rxTaps'[p] = NoRx => rxTaps[p] = NoRx)
  <2>1. \/ UNCHANGED rxTaps
        \/ phase = "rx" /\ rxTaps' = Advanced(rxTaps, q)
        \/ phase = "rx" /\ rxTaps' = AfterEnd(rxTaps, q)
    BY DEF PushRx, CheckFilter, SkipLost, PollDone
  <2> QED  BY <1>2, <1>3, <2>1, AdvancedTypes, DroppedTap DEF StreamTypes
<1>5. /\ filterTaps'[p] # NoRx => filterTaps[p] # NoRx /\ filterKeywords'[p] = filterKeywords[p]
      /\ NeverClosed(p) => (filterTaps'[p] = NoRx => filterTaps[p] = NoRx)
  <2>1. \/ UNCHANGED <<filterTaps, filterKeywords>>
        \/ phase = "filter" /\ filterTaps' = Advanced(filterTaps, q) /\ UNCHANGED filterKeywords
        \/ phase = "filter" /\ filterTaps' = AfterEnd(filterTaps, q)
           /\ filterKeywords' = [filterKeywords EXCEPT ![q] =
                                   IF filterTaps'[q] = NoRx THEN NoFilter ELSE @]
    BY DEF PushRx, CheckFilter, SkipLost, PollDone
  <2>2. CASE \/ UNCHANGED <<filterTaps, filterKeywords>>
             \/ phase = "filter" /\ filterTaps' = Advanced(filterTaps, q) /\ UNCHANGED filterKeywords
    BY <1>2, <1>3, <2>2, AdvancedTypes DEF StreamTypes
  <2>3. CASE phase = "filter" /\ filterTaps' = AfterEnd(filterTaps, q)
             /\ filterKeywords' = [filterKeywords EXCEPT ![q] =
                                     IF filterTaps'[q] = NoRx THEN NoFilter ELSE @]
    <3>1. filterTaps'[p] # NoRx => filterKeywords'[p] = filterKeywords[p]
      BY <1>2, <2>3 DEF StreamTypes
    <3>2. /\ filterTaps'[p] # NoRx => filterTaps[p] # NoRx
          /\ NeverClosed(p) => (filterTaps'[p] = NoRx => filterTaps[p] = NoRx)
      BY <1>2, <1>3, <2>3, DroppedTap DEF StreamTypes
    <3> QED  BY <3>1, <3>2
  <2> QED  BY <2>1, <2>2, <2>3
<1> DEFINE s == UnderWay
<1>6. UNCHANGED s
  BY <1>1 DEF UnderWay
<1>7. /\ RxTapSoon(p)' = LastAbout(s, p, RxOps, [rx |-> rxTaps'[p]]).rx
      /\ RxTapSoon(p) = LastAbout(s, p, RxOps, [rx |-> rxTaps[p]]).rx
      /\ FilterTapSoon(p)' = LastAbout(s, p, FilterOps, [rx |-> filterTaps'[p]]).rx
      /\ FilterTapSoon(p) = LastAbout(s, p, FilterOps, [rx |-> filterTaps[p]]).rx
      /\ KeywordsSoon(p)' = LastAbout(s, p, KeywordOps, [keywords |-> filterKeywords'[p]]).keywords
      /\ KeywordsSoon(p) = LastAbout(s, p, KeywordOps, [keywords |-> filterKeywords[p]]).keywords
  BY <1>6 DEF RxTapSoon, FilterTapSoon, KeywordsSoon, RxOps, FilterOps, KeywordOps
<1> HIDE DEF s
<1>8. /\ RxTapSoon(p)' # NoRx => RxTapSoon(p) # NoRx
      /\ NeverClosed(p) => (RxTapSoon(p)' = NoRx => RxTapSoon(p) = NoRx)
  BY <1>4, <1>7, DefaultDecides
<1>9. /\ FilterTapSoon(p)' # NoRx => FilterTapSoon(p) # NoRx
      /\ NeverClosed(p) => (FilterTapSoon(p)' = NoRx => FilterTapSoon(p) = NoRx)
  BY <1>5, <1>7, DefaultDecides
<1>10. FilterTapSoon(p)' # NoRx => KeywordsSoon(p)' = KeywordsSoon(p)
  <2>1. CASE About(s, p, KeywordOps) # {}
    BY <1>7, <2>1, DefaultDecides
  <2>2. CASE About(s, p, KeywordOps) = {}
    BY <1>5, <1>7, <2>2, DefaultDecides, FilterOpsAbout
  <2> QED  BY <2>1, <2>2
<1> QED
  BY <1>1, <1>2, <1>8, <1>9, <1>10, NeverClosedBefore, MatchKept DEF handlerVars, sessionVars

(* close_port has removed the port, and the commands that it sends end the *)
(* streams that the session knows of.                                      *)
LEMMA SoonClosed ==
  ASSUME Typing, ClosePort, inMap[portArg], NEW p \in Ports
  PROVE  /\ RxTapSoon(p)' =
              IF p = portArg /\ portArg \in rxSubscriptions THEN NoRx ELSE RxTapSoon(p)
         /\ FilterTapSoon(p)' =
              IF p = portArg /\ filterSubscriptions[portArg] # NoFilter THEN NoRx ELSE FilterTapSoon(p)
         /\ p # portArg => KeywordsSoon(p)' = KeywordsSoon(p)
         /\ Deciding(p)' <=> Deciding(p) \/ (p = portArg /\ portArg \in rxSubscriptions)
<1> DEFINE unsubscribe == Command("Unsubscribe", portArg)
           remove == Command("RemoveFilter", portArg)
<1>1. /\ portArg \in Ports
      /\ queue \in Seq(StreamCommands) /\ outbox = <<>>
  BY TypingParts DEF Parts, HandlerTypes, QueueTypes, OutboxInUse, ClosePort
<1>2. /\ RemovePort(portArg) /\ pc = "close_port" /\ pc' = "close_sending"
      /\ outbox' = ClosingCommands(portArg)
      /\ UNCHANGED <<portArg, sessionVars, queue, tapVars>>
  BY DEF ClosePort, Goto, Send, streamVars
<1>3. /\ unsubscribe \in StreamCommands /\ remove \in StreamCommands
      /\ unsubscribe.port = portArg /\ unsubscribe.op = "Unsubscribe" /\ unsubscribe.rx = NoRx
      /\ remove.port = portArg /\ remove.op = "RemoveFilter" /\ remove.rx = NoRx
  BY <1>1, CommandTypes DEF Command
<1> DEFINE first == IF portArg \in rxSubscriptions THEN Append(queue, unsubscribe) ELSE queue
           all == IF filterSubscriptions[portArg] # NoFilter THEN Append(first, remove) ELSE first
<1> HIDE DEF unsubscribe, remove
<1>4. UnderWay = queue /\ first \in Seq(StreamCommands)
  BY <1>1, <1>3, ConcatEmpty DEF UnderWay
<1>5. UnderWay' = all
  <2>1. \/ ClosingCommands(portArg) = <<>> \o <<>> /\ all = queue
        \/ ClosingCommands(portArg) = <<unsubscribe>> \o <<>> /\ all = Append(queue, unsubscribe)
        \/ ClosingCommands(portArg) = <<>> \o <<remove>> /\ all = Append(queue, remove)
        \/ ClosingCommands(portArg) = <<unsubscribe>> \o <<remove>>
           /\ all = Append(Append(queue, unsubscribe), remove)
    BY DEF ClosingCommands, unsubscribe, remove
  <2>2. /\ queue \o (<<>> \o <<>>) = queue
        /\ queue \o (<<unsubscribe>> \o <<>>) = Append(queue, unsubscribe)
        /\ queue \o (<<>> \o <<remove>>) = Append(queue, remove)
        /\ queue \o (<<unsubscribe>> \o <<remove>>) = Append(Append(queue, unsubscribe), remove)
    BY <1>1, <1>3
  <2> HIDE DEF all
  <2> QED  BY <1>2, <2>1, <2>2 DEF UnderWay
<1>6. \A ops, now :
        /\ LastAbout(first, p, ops, now) =
             IF portArg \in rxSubscriptions /\ portArg = p /\ "Unsubscribe" \in ops
               THEN unsubscribe ELSE LastAbout(queue, p, ops, now)
        /\ LastAbout(all, p, ops, now) =
             IF filterSubscriptions[portArg] # NoFilter /\ portArg = p /\ "RemoveFilter" \in ops
               THEN remove ELSE LastAbout(first, p, ops, now)
  <2>1. \A u \in Seq(StreamCommands), m \in StreamCommands : \A ops, now :
          LastAbout(Append(u, m), p, ops, now) =
            IF m.port = p /\ m.op \in ops THEN m ELSE LastAbout(u, p, ops, now)
    BY LastAppended
  <2> TAKE ops, now
  <2>2. LastAbout(first, p, ops, now) =
          IF portArg \in rxSubscriptions /\ portArg = p /\ "Unsubscribe" \in ops
            THEN unsubscribe ELSE LastAbout(queue, p, ops, now)
    BY <1>1, <1>3, <2>1
  <2> HIDE DEF first
  <2>3. LastAbout(all, p, ops, now) =
          IF filterSubscriptions[portArg] # NoFilter /\ portArg = p /\ "RemoveFilter" \in ops
            THEN remove ELSE LastAbout(first, p, ops, now)
    BY <1>3, <1>4, <2>1
  <2> QED  BY <2>2, <2>3
<1>7. About(all, p, RxOps) # {} <=>
        About(queue, p, RxOps) # {} \/ (p = portArg /\ portArg \in rxSubscriptions)
  <2>1. \A u \in Seq(StreamCommands), m \in StreamCommands :
          About(Append(u, m), p, RxOps) # {} <=>
            (m.port = p /\ m.op \in RxOps) \/ About(u, p, RxOps) # {}
    BY AboutAppended
  <2>2. About(first, p, RxOps) # {} <=>
          About(queue, p, RxOps) # {} \/ (p = portArg /\ portArg \in rxSubscriptions)
    BY <1>1, <1>3, <2>1 DEF RxOps
  <2> HIDE DEF first
  <2>3. About(all, p, RxOps) # {} <=> About(first, p, RxOps) # {}
    BY <1>3, <1>4, <2>1 DEF RxOps
  <2> QED  BY <2>2, <2>3
<1> HIDE DEF first, all
<1>8. Deciding(p)' <=> Deciding(p) \/ (p = portArg /\ portArg \in rxSubscriptions)
  BY <1>4, <1>5, <1>7 DEF Deciding
<1> QED
  BY <1>2, <1>3, <1>4, <1>5, <1>6, <1>8
     DEF RxTapSoon, FilterTapSoon, KeywordsSoon, RxOps, FilterOps, KeywordOps, tapVars

LEMMA MatchClose ==
  ASSUME Agreement, Live, ClosePort, inMap[portArg], NEW p \in Ports
  PROVE  Matched(p)'
<1>1. /\ Typing /\ TableTyping /\ SubscribedOnce /\ Matched(p) /\ portArg \in Ports
  BY TypingParts DEF Agreement, Parts, HandlerTypes
<1>2. /\ RemovePort(portArg) /\ pc = "close_port" /\ pc' = "close_sending"
      /\ UNCHANGED <<portArg, sessionVars>>
  BY DEF ClosePort, Goto
<1>3. CASE p # portArg
  BY <1>1, <1>2, <1>3, SoonClosed, NeverClosedBefore, MatchKept DEF sessionVars
<1>4. CASE p = portArg
  <2>1. ~NeverClosed(p)'
    BY <1>1, <1>2, <1>4 DEF RemovePort, NeverClosed, TableTyping, TableTypeOK
  <2>2. RxTapSoon(p)' = NoRx /\ FilterTapSoon(p)' = NoRx
    BY <1>1, <1>4, SoonClosed DEF Matched
  <2> QED  BY <2>1, <2>2 DEF Matched
<1> QED  BY <1>3, <1>4

(* The handler changes its session and sends the command that makes the    *)
(* stream task follow, or has nothing to send.                             *)
LEMMA MatchChange ==
  ASSUME Agreement, Live,
         SubscribeGrab \/ Unsubscribe \/ FilterGrab \/ FilterExtend \/ Unfilter,
         NEW p \in Ports
  PROVE  Matched(p)'
<1>1. /\ TableTyping /\ SubscribedOnce /\ Matched(p) /\ Matched(portArg)
      /\ portArg \in Ports /\ keywordsArg \in SUBSET Keywords /\ keywordsArg # NoFilter
      /\ queue \in Seq(StreamCommands) /\ SessionTypes /\ outbox = <<>>
  <2>1. /\ TableTyping /\ SessionTypes /\ HandlerTypes /\ QueueTypes /\ OutboxInUse
        /\ SubscribedOnce /\ \A q \in Ports : Matched(q)
    BY TypingParts DEF Agreement, Parts
  <2>2. pc \notin {"sending", "close_sending"}
    BY DEF SubscribeGrab, Unsubscribe, FilterGrab, FilterExtend, Unfilter
  <2>3. outbox = <<>>
    BY <2>1, <2>2 DEF OutboxInUse
  <2>4. portArg \in Ports /\ keywordsArg \in SUBSET Keywords /\ keywordsArg # NoFilter
    BY <2>1 DEF HandlerTypes, KeywordSets, NoFilter
  <2> QED  BY <2>1, <2>3, <2>4 DEF QueueTypes
<1>2. /\ UNCHANGED <<tableVars, portArg, queue, tapVars>> /\ pc' # "close_sending"
      /\ pc # "close_sending"
  BY DEF SubscribeGrab, Unsubscribe, FilterGrab, FilterExtend, Unfilter, Goto, Reply, streamVars
<1>3. UNCHANGED NeverClosed(p)
  BY <1>2 DEF NeverClosed, tableVars
<1>4. ASSUME UNCHANGED <<rxSubscriptions, filterSubscriptions, outbox>>
      PROVE  Matched(p)'
  <2>1. UNCHANGED UnderWay
    BY <1>2, <1>4 DEF UnderWay
  <2> QED  BY <1>2, <1>4, <2>1, MatchQuiet
<1>5. ASSUME NEW m \in StreamCommands, outbox' = <<m>>
      PROVE  /\ RxTapSoon(p)' = IF m.port = p /\ m.op \in RxOps THEN m.rx ELSE RxTapSoon(p)
             /\ FilterTapSoon(p)' =
                  IF m.port = p /\ m.op \in FilterOps THEN m.rx ELSE FilterTapSoon(p)
             /\ KeywordsSoon(p)' =
                  IF m.port = p /\ m.op \in KeywordOps THEN m.keywords ELSE KeywordsSoon(p)
  BY <1>1, <1>2, <1>5, SoonSent
<1>6. CASE SubscribeGrab /\ inMap[portArg]
  <2> DEFINE m == [Command("Subscribe", portArg) EXCEPT !.rx = Subscribe(portArg)]
  <2>1. m \in StreamCommands /\ m.port = portArg /\ m.op = "Subscribe" /\ m.rx # NoRx
    BY <1>1, <1>6, SubscribeType, CommandTypes DEF Command
  <2>2. /\ outbox' = <<m>> /\ rxSubscriptions' = rxSubscriptions \cup {portArg}
        /\ UNCHANGED filterSubscriptions
    BY <1>6 DEF SubscribeGrab, Send
  <2> HIDE DEF m
  <2>3. /\ RxTapSoon(p)' = IF portArg = p THEN m.rx ELSE RxTapSoon(p)
        /\ FilterTapSoon(p)' = FilterTapSoon(p) /\ KeywordsSoon(p)' = KeywordsSoon(p)
    BY <1>5, <2>1, <2>2 DEF RxOps, FilterOps, KeywordOps
  <2> QED  BY <1>1, <1>2, <1>3, <2>1, <2>2, <2>3 DEF Matched
<1>7. CASE Unsubscribe /\ portArg \in rxSubscriptions
  <2> DEFINE m == Command("Unsubscribe", portArg)
  <2>1. m \in StreamCommands /\ m.port = portArg /\ m.op = "Unsubscribe" /\ m.rx = NoRx
    BY <1>1, CommandTypes DEF Command
  <2>2. /\ outbox' = <<m>> /\ rxSubscriptions' = rxSubscriptions \ {portArg}
        /\ UNCHANGED filterSubscriptions
    BY <1>7 DEF Unsubscribe, Send
  <2> HIDE DEF m
  <2>3. /\ RxTapSoon(p)' = IF portArg = p THEN NoRx ELSE RxTapSoon(p)
        /\ FilterTapSoon(p)' = FilterTapSoon(p) /\ KeywordsSoon(p)' = KeywordsSoon(p)
    BY <1>5, <2>1, <2>2 DEF RxOps, FilterOps, KeywordOps
  <2> QED  BY <1>1, <1>2, <1>3, <2>2, <2>3 DEF Matched
<1>8. CASE FilterGrab /\ inMap[portArg]
  <2> DEFINE m == [Command("AddFilter", portArg) EXCEPT !.rx = Subscribe(portArg),
                                                        !.keywords = keywordsArg]
  <2>1. /\ m \in StreamCommands /\ m.port = portArg /\ m.op = "AddFilter"
        /\ m.rx # NoRx /\ m.keywords = keywordsArg
    BY <1>1, <1>8, SubscribeType, CommandTypes DEF Command
  <2>2. /\ outbox' = <<m>> /\ UNCHANGED rxSubscriptions
        /\ filterSubscriptions' = [filterSubscriptions EXCEPT ![portArg] = keywordsArg]
    BY <1>8 DEF FilterGrab, Send
  <2> HIDE DEF m
  <2>3. /\ RxTapSoon(p)' = RxTapSoon(p)
        /\ FilterTapSoon(p)' = IF portArg = p THEN m.rx ELSE FilterTapSoon(p)
        /\ KeywordsSoon(p)' = IF portArg = p THEN keywordsArg ELSE KeywordsSoon(p)
    BY <1>5, <2>1, <2>2 DEF RxOps, FilterOps, KeywordOps
  <2>4. filterSubscriptions'[p] = IF portArg = p THEN keywordsArg ELSE filterSubscriptions[p]
    BY <1>1, <2>2 DEF SessionTypes
  <2> QED  BY <1>1, <1>2, <1>3, <2>1, <2>2, <2>3, <2>4 DEF Matched
<1>9. CASE FilterExtend
  <2> DEFINE m == [Command("SetFilterKeywords", portArg) EXCEPT !.keywords = Merged(portArg)]
  <2>1. Merged(portArg) \in SUBSET Keywords /\ Merged(portArg) # NoFilter
    BY <1>1 DEF Merged, SessionTypes, NoFilter
  <2>2. /\ m \in StreamCommands /\ m.port = portArg /\ m.op = "SetFilterKeywords"
        /\ m.keywords = Merged(portArg)
    BY <1>1, <2>1, CommandTypes DEF Command
  <2>3. /\ outbox' = <<m>> /\ UNCHANGED rxSubscriptions
        /\ filterSubscriptions' = [filterSubscriptions EXCEPT ![portArg] = @ \cup keywordsArg]
        /\ filterSubscriptions[portArg] # NoFilter
    BY <1>9 DEF FilterExtend, Send
  <2> HIDE DEF m
  <2>4. /\ RxTapSoon(p)' = RxTapSoon(p) /\ FilterTapSoon(p)' = FilterTapSoon(p)
        /\ KeywordsSoon(p)' = IF portArg = p THEN Merged(portArg) ELSE KeywordsSoon(p)
    BY <1>5, <2>2, <2>3 DEF RxOps, FilterOps, KeywordOps
  <2>5. filterSubscriptions'[p] = IF portArg = p THEN Merged(portArg) ELSE filterSubscriptions[p]
    BY <1>1, <2>3 DEF SessionTypes, Merged
  <2> QED  BY <1>1, <1>2, <1>3, <2>1, <2>3, <2>4, <2>5 DEF Matched
<1>10. CASE Unfilter /\ filterSubscriptions[portArg] # NoFilter
  <2> DEFINE m == Command("RemoveFilter", portArg)
  <2>1. m \in StreamCommands /\ m.port = portArg /\ m.op = "RemoveFilter" /\ m.rx = NoRx
    BY <1>1, CommandTypes DEF Command
  <2>2. /\ outbox' = <<m>> /\ UNCHANGED rxSubscriptions
        /\ filterSubscriptions' = [filterSubscriptions EXCEPT ![portArg] = NoFilter]
    BY <1>10 DEF Unfilter, Send
  <2> HIDE DEF m
  <2>3. /\ RxTapSoon(p)' = RxTapSoon(p)
        /\ FilterTapSoon(p)' = IF portArg = p THEN NoRx ELSE FilterTapSoon(p)
        /\ p # portArg => KeywordsSoon(p)' = KeywordsSoon(p)
    BY <1>5, <2>1, <2>2 DEF RxOps, FilterOps, KeywordOps
  <2>4. filterSubscriptions'[p] = IF portArg = p THEN NoFilter ELSE filterSubscriptions[p]
    BY <1>1, <2>2 DEF SessionTypes
  <2> QED  BY <1>1, <1>2, <1>3, <2>2, <2>3, <2>4 DEF Matched
<1>11. CASE \/ (SubscribeGrab \/ FilterGrab) /\ ~inMap[portArg]
            \/ Unsubscribe /\ portArg \notin rxSubscriptions
            \/ Unfilter /\ filterSubscriptions[portArg] = NoFilter
  <2>1. UNCHANGED <<rxSubscriptions, filterSubscriptions, outbox>>
    BY <1>1, <1>11 DEF SubscribeGrab, FilterGrab, Unsubscribe, Unfilter, SessionTypes
  <2> QED  BY <1>4, <2>1
<1> QED  BY <1>6, <1>7, <1>8, <1>9, <1>10, <1>11

(* on_port_closed: the session forgets a port that no command under way    *)
(* will have streamed.                                                     *)
LEMMA MatchForget ==
  ASSUME Agreement, Live, CloseFinish, NEW p \in Ports
  PROVE  Matched(p)'
<1>1. /\ Matched(p) /\ SubscribedOnce /\ TableTyping /\ SessionTypes /\ portArg \in Ports
  BY TypingParts DEF Agreement, Parts, HandlerTypes
<1>2. /\ UNCHANGED <<tableVars, UnderWay, tapVars>>
      /\ pc = "close_sending" /\ pc' = "idle"
      /\ rxSubscriptions' = rxSubscriptions \ {portArg}
      /\ filterSubscriptions' = [filterSubscriptions EXCEPT ![portArg] = NoFilter]
  BY DEF CloseFinish, Reply, streamVars, UnderWay
<1>3. UNCHANGED <<RxTapSoon(p), FilterTapSoon(p), KeywordsSoon(p)>>
  BY <1>2, SoonKept
<1>4. UNCHANGED NeverClosed(p)
  BY <1>2 DEF NeverClosed, tableVars
<1>5. filterSubscriptions'[p] = IF portArg = p THEN NoFilter ELSE filterSubscriptions[p]
  BY <1>1, <1>2 DEF SessionTypes
<1> QED  BY <1>1, <1>2, <1>3, <1>4, <1>5 DEF Matched

(* Every step changes the port table by one operation, if at all.          *)
LEMMA TableSteps ==
  ASSUME portArg \in Ports, [Next]_vars
  PROVE  UNCHANGED tableVars \/ \E q \in Ports : OpenStream(q) \/ RemovePort(q) \/ ReadTask(q)
BY DEF Next, vars, Request, Eof, SessionError, Handler, StreamTask, OtherOpens, OtherCloses,
   ReadStep, SendCommand, Sent, OpenPort, OpenEnsure, ClosePort, CloseFinish, SubscribeCheck,
   SubscribeRefused, SubscribeGrab, Unsubscribe, FilterCheck, FilterGrab, FilterExtend,
   FilterExtendRefused, Unfilter, ReadCheck, ReadPort, ApplyCommand, BeginRx, BeginFilter,
   BeginCommands, StreamEnds, StreamAborted, PushRx, CheckFilter, SkipLost, PollDone, WriteFails

(* A port is subscribed to while it is in the map.                         *)
LEMMA SubscribedOnceStep ==
  ASSUME Agreement, [Next]_vars
  PROVE  SubscribedOnce'
<1>1. TableTyping /\ SessionTypes /\ SubscribedOnce /\ portArg \in Ports
  BY TypingParts DEF Agreement, Parts, HandlerTypes
<1>2. UNCHANGED tableVars \/ \E q \in Ports : OpenStream(q) \/ RemovePort(q) \/ ReadTask(q)
  BY <1>1, TableSteps
<1>3. \A q \in Ports : opens[q] > 0 => opens'[q] > 0
  BY <1>1, <1>2, NeverClosedBefore
<1>4. \A q \in Ports : /\ q \in rxSubscriptions' => q \in rxSubscriptions \/ inMap[q]
                       /\ filterSubscriptions'[q] # NoFilter =>
                            filterSubscriptions[q] # NoFilter \/ inMap[q]
  BY <1>1 DEF Next, vars, connectionVars, sessionVars, Request, Eof, SessionError, Handler, StreamTask,
     OtherOpens, OtherCloses,
     ReadStep, SendCommand, Sent, OpenPort, OpenEnsure, ClosePort, CloseFinish, SubscribeCheck,
     SubscribeRefused, SubscribeGrab, Unsubscribe, FilterCheck, FilterGrab, FilterExtend,
     FilterExtendRefused, Unfilter, ReadCheck, ReadPort, ApplyCommand, BeginRx, BeginFilter,
     BeginCommands, StreamEnds, StreamAborted, PushRx, CheckFilter, SkipLost, PollDone, WriteFails, SessionTypes
<1> QED  BY <1>1, <1>3, <1>4 DEF SubscribedOnce, TableTyping, OpenHasChannel

LEMMA AgreementInit == Init => Agreement
<1> SUFFICES ASSUME Init PROVE Agreement
  OBVIOUS
<1>1. ASSUME NEW p \in Ports PROVE Matched(p)
  <2>1. UnderWay = <<>>
    BY ConcatEmpty, EmptySeq DEF Init, UnderWay
  <2>2. \A ops : About(UnderWay, p, ops) = {}
    BY <2>1 DEF About
  <2>3. RxTapSoon(p) = NoRx /\ FilterTapSoon(p) = NoRx
    BY <2>2, DefaultDecides DEF Init, RxTapSoon, FilterTapSoon
  <2> QED  BY <2>3 DEF Init, Matched
<1>2. SubscribedOnce
  BY DEF Init, SubscribedOnce
<1> QED  BY <1>1, <1>2, TypingInit DEF Agreement

LEMMA AgreementStep == Agreement /\ [Next]_vars => Agreement'
<1> SUFFICES ASSUME Agreement, [Next]_vars PROVE Agreement'
  OBVIOUS
<1>1. Typing' /\ SubscribedOnce'
  BY TypingStep, SubscribedOnceStep DEF Agreement
<1>2. ASSUME Live', NEW p \in Ports PROVE Matched(p)'
  <2>1. portArg \in Ports
    BY TypingParts DEF Agreement, Parts, HandlerTypes
  <2>2. CASE Handler
    <3>1. Live
      BY <1>2, <2>2 DEF Live, Handler, streamVars,
         SendCommand, Sent, OpenPort, OpenEnsure, ClosePort, CloseFinish, SubscribeCheck,
         SubscribeRefused, SubscribeGrab, Unsubscribe, FilterCheck, FilterGrab, FilterExtend,
         FilterExtendRefused, Unfilter, ReadCheck, ReadPort
    <3>2. ASSUME UNCHANGED tableVars \/ \E q \in Ports : OpenStream(q) \/ RemovePort(q) \/ ReadTask(q),
                 UNCHANGED <<rxSubscriptions, filterSubscriptions, outbox, queue, streamVars>>,
                 pc' # "close_sending"
          PROVE  Matched(p)'
      BY <3>1, <3>2, MatchQuiet DEF UnderWay, streamVars
    <3>3. CASE \/ Sent \/ OpenPort \/ OpenEnsure \/ SubscribeCheck \/ SubscribeRefused
               \/ FilterCheck \/ FilterExtendRefused \/ ReadCheck \/ ReadPort
      BY <2>1, <3>2, <3>3 DEF Sent, OpenPort, OpenEnsure, SubscribeCheck, SubscribeRefused,
         FilterCheck, FilterExtendRefused, ReadCheck, ReadPort, Goto, Reply, sessionVars
    <3>4. CASE SendCommand
      BY <3>1, <3>4, MatchSend
    <3>5. CASE ClosePort
      <4>1. CASE inMap[portArg]
        BY <3>1, <3>5, <4>1, MatchClose
      <4>2. CASE ~inMap[portArg]
        BY <3>2, <3>5, <4>2 DEF ClosePort, Reply, sessionVars
      <4> QED  BY <4>1, <4>2
    <3>6. CASE CloseFinish
      BY <3>1, <3>6, MatchForget
    <3>7. CASE SubscribeGrab \/ Unsubscribe \/ FilterGrab \/ FilterExtend \/ Unfilter
      BY <3>1, <3>7, MatchChange
    <3> QED  BY <2>2, <3>3, <3>4, <3>5, <3>6, <3>7 DEF Handler
  <2>3. CASE ApplyCommand
    BY <1>2, <2>3, MatchApply DEF Live, ApplyCommand
  <2>4. CASE \E q \in Ports : PushRx(q) \/ CheckFilter(q) \/ SkipLost(q) \/ PollDone(q)
    <3>1. Live
      BY <1>2, <2>4 DEF Live, PushRx, CheckFilter, SkipLost, PollDone
    <3> QED  BY <2>4, <3>1, MatchPoll
  <2>5. CASE \/ Request \/ BeginRx \/ BeginFilter \/ BeginCommands \/ UNCHANGED vars
             \/ \E q \in Ports : OtherOpens(q) \/ OtherCloses(q) \/ ReadStep(q)
    <3>1. Live
      BY <1>2, <2>5 DEF Live, Request, BeginRx, BeginFilter, BeginCommands, OtherOpens, OtherCloses,
         ReadStep, vars, connectionVars, streamVars
    <3>2. UNCHANGED tableVars \/ \E q \in Ports : OpenStream(q) \/ RemovePort(q) \/ ReadTask(q)
      BY <2>5 DEF Request, BeginRx, BeginFilter, BeginCommands, OtherOpens, OtherCloses, ReadStep, vars
    <3>3. UNCHANGED <<rxSubscriptions, filterSubscriptions, UnderWay, tapVars>>
      BY <2>5 DEF Request, BeginRx, BeginFilter, BeginCommands, OtherOpens, OtherCloses, ReadStep,
         vars, connectionVars, sessionVars, streamVars, UnderWay
    <3>4. pc' = "close_sending" => pc = "close_sending" /\ portArg' = portArg
      BY <2>5, SessionAssumption DEF Request, BeginRx, BeginFilter, BeginCommands, OtherOpens,
         OtherCloses, ReadStep, vars, connectionVars, handlerVars, AllRequests
    <3> QED  BY <3>1, <3>2, <3>3, <3>4, MatchQuiet
  <2>6. ~(Eof \/ SessionError \/ StreamEnds \/ StreamAborted \/ \E q \in Ports : WriteFails(q))
    BY <1>2 DEF Live, Eof, SessionError, StreamEnds, StreamAborted, WriteFails, StreamDies
  <2> QED  BY <2>2, <2>3, <2>4, <2>5, <2>6 DEF Next, StreamTask
<1> QED  BY <1>1, <1>2 DEF Agreement

LEMMA AlwaysAgreement == Spec => []Agreement
BY AgreementInit, AgreementStep, PTL DEF Spec

(* The session and the stream task agree on who is subscribed, once the    *)
(* commands under way are applied, for any number of ports, of requests    *)
(* and of other connections and whatever the capacity of the queue:        *)
(* unsubscribe_rx and close_port reach every stream.                       *)
THEOREM SubscriptionsMatch == Spec => []StreamMatchesSubscriptions
<1>1. Agreement => StreamMatchesSubscriptions
  BY DEF Agreement, Live, Matched, StreamMatchesSubscriptions
<1> QED  BY <1>1, AlwaysAgreement, PTL

(* The same for filters and the keywords that add_filter_rx merges.        *)
THEOREM FiltersMatch == Spec => []StreamMatchesFilters
<1>1. Agreement => StreamMatchesFilters
  BY DEF Agreement, Live, Matched, StreamMatchesFilters
<1> QED  BY <1>1, AlwaysAgreement, PTL

-----------------------------------------------------------------------------
(* What read_port finds.                                                   *)

(* b numbers entries in order and up to next, and lacks only entries that  *)
(* were lost.  In order is said of all pairs, not of neighbours only: so   *)
(* it passes to what the buffer keeps of its newest entries.               *)
Gapless(b, next, lost) ==
  /\ \A i \in 1..Len(b) : b[i] <= next
  /\ \A i, j \in 1..Len(b) : i < j => b[i] < b[j]
  /\ b # <<>> => \A n \in b[1]..next : (\E i \in 1..Len(b) : b[i] = n) \/ n <= lost

(* The buffer of a receiver, whose cursor lies within its channel.         *)
Buffered(r, b) ==
  /\ r = NoRx => b = <<>>
  /\ r # NoRx => r.next <= Len(SentTo(r)) /\ Gapless(b, r.next, Overwritten(SentTo(r)))
  /\ Len(b) <= MaxBuffer

Buffers == \A p \in Ports : Buffered(receivers[p], buffers[p])

(* The newest entries of a sequence.                                       *)
LEMMA NewestGapless ==
  ASSUME NEW u \in Seq(Nat), NEW next \in Nat, NEW lost \in Nat, Gapless(u, next, lost)
  PROVE  Gapless(Newest(u), next, lost) /\ Len(Newest(u)) <= MaxBuffer
<1>1. CASE Len(u) <= MaxBuffer
  BY <1>1 DEF Newest
<1>2. CASE Len(u) > MaxBuffer
  <2> DEFINE k == Len(u) - MaxBuffer
             v == SubSeq(u, k + 1, Len(u))
  <2>1. k \in Nat /\ Len(u) \in Nat /\ k + 1 \in 1..Len(u) /\ Len(u) - k = MaxBuffer
        /\ MaxBuffer \in Nat /\ MaxBuffer >= 1
    BY <1>2, SessionAssumption
  <2>2. /\ Len(v) = MaxBuffer /\ \A i \in 1..MaxBuffer : v[i] = u[k + i] /\ k + i \in 1..Len(u)
    <3>1. \A i \in (k + 1)..Len(u) : u[i] \in Nat
      BY <2>1
    <3> QED  BY <2>1, <3>1, SubSeqProperties
  <2>3. Newest(u) = v
    BY <1>2, <2>1 DEF Newest
  <2> HIDE DEF v, k
  <2>4. \A i \in 1..Len(v) : v[i] <= next
    BY <2>2 DEF Gapless
  <2>5. \A i, j \in 1..Len(v) : i < j => v[i] < v[j]
    BY <2>1, <2>2 DEF Gapless
  <2>6. ASSUME NEW n \in v[1]..next, ~(n <= lost) PROVE \E i \in 1..Len(v) : v[i] = n
    <3>1. v[1] = u[k + 1] /\ k + 1 \in 1..Len(u) /\ v[1] \in Nat /\ u[1] \in Nat
          /\ 1 \in 1..Len(u) /\ n \in Nat
      BY <2>1, <2>2
    <3>2. u[1] <= u[k + 1]
      BY <2>1, <3>1 DEF Gapless
    <3>3. PICK i \in 1..Len(u) : u[i] = n
      BY SMTT(30), <2>6, <3>1, <3>2 DEF Gapless
    <3>4. i >= k + 1
      BY <2>1, <3>1, <3>3 DEF Gapless
    <3>5. i - k \in 1..Len(v) /\ k + (i - k) = i
      BY <2>1, <2>2, <3>4
    <3> QED  BY <2>2, <3>3, <3>5
  <2> QED  BY <2>2, <2>3, <2>4, <2>5, <2>6 DEF Gapless
<1>3. Len(u) <= MaxBuffer \/ Len(u) > MaxBuffer
  BY SessionAssumption
<1> QED  BY <1>1, <1>2, <1>3

(* drain_receiver.                                                         *)
LEMMA DrainKeeps ==
  ASSUME TableTyping, NEW r \in Receivers, NEW b \in Seq(Nat), Buffered(r, b)
  PROVE  LET after == [r EXCEPT !.next = DrainedNext(r)]
         IN  Buffered(after, DrainedBuffer(r, b)) /\ Buffered(after, <<>>)
<1> DEFINE s == SentTo(r)
           lost == Overwritten(s)
           after == [r EXCEPT !.next = DrainedNext(r)]
           more == [i \in 1..(Len(s) - r.next) |-> r.next + i]
           u == b \o more
<1>1. /\ Len(s) \in Nat /\ lost \in Nat /\ r.next \in Nat
      /\ lost <= Len(s)
  BY EntriesType, CapacityAssumption DEF Overwritten
<1>2. r # NoRx /\ r.next <= Len(s) /\ Gapless(b, r.next, lost) /\ Len(b) <= MaxBuffer
  BY TableAssumption DEF Buffered
<1>3. /\ DrainedNext(r) \in Nat /\ DrainedNext(r) <= Len(s)
      /\ DrainedNext(r) = IF r.next < lost THEN lost ELSE Len(s)
  BY <1>1 DEF DrainedNext, Lagged
<1>4. after \in Receivers /\ after # NoRx /\ after.next = DrainedNext(r) /\ SentTo(after) = s
  BY <1>3, MovedReceiver DEF Receivers, SentTo
<1>5. Len(<<>>) = 0 /\ Gapless(<<>>, DrainedNext(r), lost)
  BY DEF Gapless
<1>6. CASE r.next < lost
  <2>1. DrainedBuffer(r, b) = b
    BY <1>6 DEF DrainedBuffer, Lagged
  <2>2. Gapless(b, lost, lost)
    <3>1. \A i \in 1..Len(b) : b[i] \in Nat
      OBVIOUS
    <3>2. \A n : n \in b[1]..lost => n <= lost
      OBVIOUS
    <3> QED  BY <1>1, <1>2, <1>6, <3>1, <3>2 DEF Gapless
  <2> QED  BY <1>1, <1>2, <1>3, <1>4, <1>5, <1>6, <2>1, <2>2, SessionAssumption DEF Buffered
<1>7. CASE ~(r.next < lost)
  <2>1. DrainedBuffer(r, b) = Newest(u)
    BY <1>7 DEF DrainedBuffer, Lagged
  <2>2. PICK m \in Nat : m = Len(s) - r.next
    BY <1>1, <1>2
  <2>3. more = [i \in 1..m |-> r.next + i] /\ r.next + m = Len(s)
    BY <1>1, <2>2
  <2> HIDE DEF s, lost
  <2>4. more \in Seq(Nat) /\ Len(more) = m /\ \A i \in 1..m : more[i] = r.next + i
    <3>1. more \in [1..m -> Nat]
      BY <1>1, <2>3
    <3>2. \A i \in 1..m : more[i] = r.next + i
      BY <2>3
    <3> HIDE DEF more
    <3> QED  BY <3>1, <3>2
  <2> HIDE DEF more
  <2>5. /\ u \in Seq(Nat) /\ Len(u) = Len(b) + m /\ Len(b) \in Nat
        /\ \A i \in 1..Len(b) : u[i] = b[i] /\ b[i] \in Nat
        /\ \A i \in 1..m : u[Len(b) + i] = r.next + i
    BY <2>4
  <2> HIDE DEF u
  <2>6. Gapless(u, Len(s), lost)
    <3>1. \A i \in 1..Len(u) : \/ i \in 1..Len(b) /\ u[i] = b[i]
                               \/ /\ i > Len(b) /\ i - Len(b) \in 1..m
                                  /\ u[i] = r.next + (i - Len(b))
      <4> TAKE i \in 1..Len(u)
      <4>1. i > Len(b) => i - Len(b) \in 1..m /\ Len(b) + (i - Len(b)) = i
        BY <2>5
      <4> QED  BY <2>5, <4>1
    <3>0. \A i \in 1..Len(b) : b[i] \in Nat /\ b[i] <= r.next
      BY <1>2, <2>5 DEF Gapless
    <3>2. ASSUME NEW i \in 1..Len(u) PROVE u[i] <= Len(s)
      <4>1. CASE i \in 1..Len(b) /\ u[i] = b[i]
        <5>1. b[i] \in Nat /\ b[i] <= r.next
          BY <3>0, <4>1
        <5> QED  BY <1>1, <1>2, <4>1, <5>1
      <4>2. CASE i - Len(b) \in 1..m /\ u[i] = r.next + (i - Len(b))
        <5>1. i - Len(b) <= m /\ i - Len(b) \in Nat
          BY <4>2
        <5> QED  BY <1>1, <2>2, <2>3, <4>2, <5>1
      <4> QED  BY <3>1, <4>1, <4>2
    <3>3. ASSUME NEW i \in 1..Len(u), NEW j \in 1..Len(u), i < j PROVE u[i] < u[j]
      <4>1. CASE j \in 1..Len(b) /\ u[j] = b[j]
        <5>1. i \in 1..Len(b) /\ u[i] = b[i]
          BY SMTT(30), <2>5, <3>3, <4>1
        <5> QED  BY <1>2, <3>3, <4>1, <5>1 DEF Gapless
      <4>2. CASE j > Len(b) /\ u[j] = r.next + (j - Len(b))
        <5>1. CASE i \in 1..Len(b) /\ u[i] = b[i]
          <6>1. b[i] \in Nat /\ b[i] <= r.next
            BY <3>0, <5>1
          <6>2. j - Len(b) \in Nat /\ j - Len(b) > 0
            BY <2>5, <4>2
          <6> QED  BY <1>1, <4>2, <5>1, <6>1, <6>2
        <5>2. CASE u[i] = r.next + (i - Len(b))
          BY SMTT(30), <1>1, <2>5, <3>3, <4>2, <5>2
        <5> QED  BY <3>1, <5>1, <5>2
      <4> QED  BY <3>1, <4>1, <4>2
    <3>4. ASSUME u # <<>>, NEW n \in u[1]..Len(s), ~(n <= lost)
          PROVE  \E i \in 1..Len(u) : u[i] = n
      <4>0. 1 \in 1..Len(u) /\ u[1] \in Nat /\ n \in Nat
        BY <1>1, <2>5, <3>4
      <4>1. CASE n > r.next
        <5>1. n - r.next \in 1..m /\ r.next + (n - r.next) = n
          BY <1>1, <2>3, <3>4, <4>0, <4>1
        <5>2. Len(b) + (n - r.next) \in 1..Len(u)
          BY SMTT(30), <2>5, <5>1
        <5> QED  BY <2>5, <5>1, <5>2
      <4>2. CASE n <= r.next
        <5>1. b # <<>> /\ u[1] = b[1]
          <6>1. CASE Len(b) = 0
            BY <1>1, <2>5, <3>4, <4>0, <4>2, <6>1
          <6>2. CASE Len(b) # 0
            BY <2>5, <6>2
          <6> QED  BY <6>1, <6>2
        <5>2. PICK i \in 1..Len(b) : b[i] = n
          BY <1>1, <1>2, <3>4, <4>0, <4>2, <5>1 DEF Gapless
        <5>3. i \in 1..Len(u)
          BY <2>5
        <5> QED  BY <2>5, <5>2, <5>3
      <4> QED  BY <1>1, <4>0, <4>1, <4>2
    <3> QED  BY <3>2, <3>3, <3>4 DEF Gapless
  <2>7. Gapless(Newest(u), Len(s), lost) /\ Len(Newest(u)) <= MaxBuffer
    BY <1>1, <2>5, <2>6, NewestGapless
  <2> QED  BY <1>1, <1>3, <1>4, <1>5, <1>7, <2>1, <2>7, SessionAssumption DEF Buffered, s, lost
<1> QED  BY <1>6, <1>7

(* More entries on the channel leave the buffer what it was.               *)
LEMMA BufferedStays ==
  ASSUME TableTyping, TableTyping', NEW r \in Receivers \cup {NoRx}, NEW b \in Seq(Nat),
         Buffered(r, b), r # NoRx => Len(SentTo(r)) <= Len(SentTo(r)')
  PROVE  Buffered(r, b)'
<1>1. CASE r = NoRx
  BY <1>1 DEF Buffered
<1>2. CASE r \in Receivers
  <2>1. SentTo(r) \in Seq(Data) /\ SentTo(r)' \in Seq(Data) /\ r.next \in Nat
    BY <1>2 DEF TableTyping, TableTypeOK, SentTo, Receivers
  <2>2. /\ Len(SentTo(r)) \in Nat /\ Len(SentTo(r)') \in Nat
        /\ Overwritten(SentTo(r)) <= Overwritten(SentTo(r)')
        /\ Overwritten(SentTo(r)) \in Nat /\ Overwritten(SentTo(r)') \in Nat
    <3>1. Len(SentTo(r)) \in Nat /\ Len(SentTo(r)') \in Nat
      BY <2>1
    <3> QED  BY <1>2, <3>1, CapacityAssumption, TableAssumption DEF Overwritten
  <2>3. r # NoRx /\ r.next <= Len(SentTo(r)) /\ Gapless(b, r.next, Overwritten(SentTo(r)))
        /\ Len(b) <= MaxBuffer
    BY <1>2, TableAssumption DEF Buffered
  <2>4. r.next <= Len(SentTo(r)')
    BY <1>2, <2>1, <2>2, <2>3
  <2>5. Gapless(b, r.next, Overwritten(SentTo(r)'))
    <3>1. \A i \in 1..Len(b) : b[i] \in Nat
      OBVIOUS
    <3>2. \A n \in Nat : n <= Overwritten(SentTo(r)) => n <= Overwritten(SentTo(r)')
      BY <2>2
    <3>3. b # <<>> => 1 \in 1..Len(b) /\ b[1] \in Nat
      OBVIOUS
    <3>4. b # <<>> => \A n \in b[1]..r.next : n \in Nat
      BY <2>1, <3>3
    <3> QED  BY <2>3, <3>2, <3>4 DEF Gapless
  <2> QED  BY <2>3, <2>4, <2>5 DEF Buffered
<1> QED  BY <1>1, <1>2

(* Entries are only ever added to a channel.                               *)
LEMMA ChannelsGrow ==
  ASSUME TableTyping, NEW r \in Receivers,
         UNCHANGED tableVars \/ \E q \in Ports : OpenStream(q) \/ RemovePort(q) \/ ReadTask(q)
  PROVE  Len(SentTo(r)) <= Len(SentTo(r)')
<1>1. SentTo(r) \in Seq(Data) /\ Len(SentTo(r)) \in Nat
  BY EntriesType
<1>2. CASE UNCHANGED sent
  BY <1>1, <1>2 DEF SentTo
<1>3. ASSUME NEW q \in Ports, NEW d \in Data, sent' = [sent EXCEPT ![q][opens[q]] = Append(@, d)]
      PROVE  SentTo(r)' = SentTo(r) \/ SentTo(r)' = Append(SentTo(r), d)
  BY <1>3 DEF SentTo, TableTyping, TableTypeOK, Receivers
<1>4. \A d \in Data : Len(Append(SentTo(r), d)) = Len(SentTo(r)) + 1
  BY <1>1
<1>5. UNCHANGED sent \/ \E q \in Ports, d \in Data : sent' = [sent EXCEPT ![q][opens[q]] = Append(@, d)]
  BY DEF tableVars, OpenStream, RemovePort, ReadTask, ReadData, ReadFailed, ReaderAborted
<1> QED  BY <1>1, <1>2, <1>3, <1>4, <1>5

(* ensure_subscribed gives a port without a receiver, whose buffer is      *)
(* empty, one that has nothing to catch up with.                           *)
LEMMA EnsuredBuffered ==
  ASSUME TableTyping, SessionTypes, NEW p \in Ports, Buffered(receivers[p], buffers[p])
  PROVE  Buffered(EnsuredReceiver(p), buffers[p])
<1>1. CASE receivers[p] = NoRx /\ inMap[p]
  <2>1. EnsuredReceiver(p) = Subscribe(p) /\ Subscribe(p) \in Receivers /\ Subscribe(p) # NoRx
    BY <1>1, SubscribeType DEF EnsuredReceiver
  <2>2. Subscribe(p).next = Len(SentTo(Subscribe(p)))
    BY DEF Subscribe, SentTo
  <2>3. buffers[p] = <<>> /\ Len(<<>>) = 0 /\ Len(SentTo(Subscribe(p))) \in Nat
    BY <1>1, <2>1, EntriesType DEF Buffered
  <2>4. Gapless(<<>>, Subscribe(p).next, Overwritten(SentTo(Subscribe(p))))
    BY <2>3 DEF Gapless
  <2> QED  BY <2>1, <2>2, <2>3, <2>4, SessionAssumption DEF Buffered
<1>2. CASE ~(receivers[p] = NoRx /\ inMap[p])
  BY <1>2 DEF EnsuredReceiver
<1> QED  BY <1>1, <1>2

(* The steps that touch neither the receivers nor the buffers of a port.   *)
LEMMA OtherSteps ==
  ASSUME SessionTypes, portArg \in Ports, [Next]_vars, NEW p \in Ports
  PROVE  \/ receivers'[p] = receivers[p] /\ buffers'[p] = buffers[p]
         \/ p = portArg /\ (OpenEnsure \/ CloseFinish \/ ReadPort)
<1>1. CASE OpenEnsure \/ CloseFinish \/ ReadPort
  BY <1>1 DEF OpenEnsure, CloseFinish, ReadPort, SessionTypes
<1>2. CASE UNCHANGED <<receivers, buffers>>
  BY <1>2
<1>3. \/ UNCHANGED <<receivers, buffers>>
      \/ OpenEnsure \/ CloseFinish \/ ReadPort
  BY DEF Next, vars, connectionVars, sessionVars, Request, Eof, SessionError, Handler, StreamTask,
     OtherOpens, OtherCloses, ReadStep, SendCommand, Sent, OpenPort, ClosePort, SubscribeCheck,
     SubscribeRefused, SubscribeGrab, Unsubscribe, FilterCheck, FilterGrab, FilterExtend,
     FilterExtendRefused, Unfilter, ReadCheck, ApplyCommand, BeginRx, BeginFilter,
     BeginCommands, StreamEnds, StreamAborted, PushRx, CheckFilter, SkipLost, PollDone, WriteFails
<1> QED  BY <1>1, <1>2, <1>3

LEMMA BuffersStep == Typing /\ Buffers /\ [Next]_vars => Buffers'
<1> SUFFICES ASSUME Typing, Buffers, [Next]_vars, NEW p \in Ports
             PROVE  Buffered(receivers[p], buffers[p])'
  BY DEF Buffers
<1>1. /\ TableTyping /\ TableTyping' /\ SessionTypes /\ portArg \in Ports
      /\ receivers[p] \in Receivers \cup {NoRx} /\ buffers[p] \in Seq(Nat)
      /\ Buffered(receivers[p], buffers[p])
  BY TypingParts, TypingStep DEF Parts, HandlerTypes, SessionTypes, Buffers, Typing, TypeOK,
     TableTyping
<1>2. ASSUME NEW r, NEW b, receivers'[p] = r, buffers'[p] = b, Buffered(r, b)'
      PROVE  Buffered(receivers[p], buffers[p])'
  BY <1>2 DEF Buffered, SentTo
<1>3. CASE receivers'[p] = receivers[p] /\ buffers'[p] = buffers[p]
  <2>1. PICK r \in Receivers \cup {NoRx} : r = receivers[p]
    BY <1>1
  <2>2. PICK b \in Seq(Nat) : b = buffers[p]
    BY <1>1
  <2>3. r # NoRx => Len(SentTo(r)) <= Len(SentTo(r)')
    BY <1>1, ChannelsGrow, TableSteps
  <2>4. Buffered(r, b)'
    BY <1>1, <2>1, <2>2, <2>3, BufferedStays
  <2> QED  BY <1>2, <1>3, <2>1, <2>2, <2>4
<1>4. ASSUME UNCHANGED tableVars, NEW r, NEW b, Buffered(r, b) PROVE Buffered(r, b)'
  BY <1>4 DEF Buffered, SentTo, tableVars
<1>5. CASE p = portArg /\ OpenEnsure
  <2>1. PICK r, b : r = EnsuredReceiver(p) /\ b = buffers[p]
    OBVIOUS
  <2>2. Buffered(r, b)
    BY <1>1, <2>1, EnsuredBuffered
  <2>3. UNCHANGED tableVars /\ receivers'[p] = r /\ buffers'[p] = b
    BY <1>1, <1>5, <2>1 DEF OpenEnsure, SessionTypes
  <2> QED  BY <1>2, <1>4, <2>2, <2>3
<1>6. CASE p = portArg /\ CloseFinish
  <2>1. UNCHANGED tableVars /\ receivers'[p] = NoRx /\ buffers'[p] = <<>>
    BY <1>1, <1>6 DEF CloseFinish, SessionTypes
  <2>2. Buffered(NoRx, <<>>)
    BY SessionAssumption DEF Buffered
  <2> QED  BY <1>2, <1>4, <2>1, <2>2
<1>7. CASE p = portArg /\ ReadPort
  <2>1. PICK r \in Receivers \cup {NoRx} : r = EnsuredReceiver(p)
    BY <1>1, EnsuredType
  <2>2. PICK b \in Seq(Nat) : b = buffers[p]
    BY <1>1
  <2>3. Buffered(r, b)
    BY <1>1, <2>1, <2>2, EnsuredBuffered
  <2>4. CASE r = NoRx
    <3>1. UNCHANGED tableVars /\ receivers'[p] = r /\ buffers'[p] = b
      <4>1. receivers[p] = NoRx
        BY <2>1, <2>4 DEF EnsuredReceiver
      <4> QED  BY <1>7, <2>1, <2>2, <2>4, <4>1, TableAssumption DEF ReadPort
    <3> QED  BY <1>2, <1>4, <2>3, <3>1
  <2>5. CASE r \in Receivers
    <3>1. PICK after : after = [r EXCEPT !.next = DrainedNext(r)]
      OBVIOUS
    <3>2. PICK drained : drained = DrainedBuffer(r, b)
      OBVIOUS
    <3>3. Buffered(after, drained) /\ Buffered(after, <<>>)
      BY <1>1, <2>3, <2>5, <3>1, <3>2, DrainKeeps
    <3>4. /\ UNCHANGED tableVars /\ receivers'[p] = after
          /\ buffers'[p] = <<>> \/ buffers'[p] = drained
      <4>1. r # NoRx
        BY <2>5, TableAssumption
      <4> QED  BY <1>1, <1>7, <2>1, <2>2, <3>1, <3>2, <4>1 DEF ReadPort, SessionTypes
    <3>5. Buffered(after, drained)' /\ Buffered(after, <<>>)'
      BY <1>4, <3>3, <3>4
    <3> QED  BY <1>2, <3>4, <3>5
  <2> QED  BY <2>4, <2>5
<1> QED  BY <1>1, <1>3, <1>5, <1>6, <1>7, OtherSteps

(* What read_port finds lacks only entries that the ring had overwritten,  *)
(* for any capacities and after any reads, opens and closes.               *)
THEOREM BuffersWithoutHoles == Spec => []BufferHasNoHoles
<1>1. Init => Buffers
  <2> SUFFICES ASSUME Init, NEW p \in Ports PROVE Buffered(receivers[p], buffers[p])
    BY DEF Buffers
  <2> QED  BY SessionAssumption DEF Init, Buffered
<1>2. Typing /\ Buffers => BufferHasNoHoles
  <2> SUFFICES ASSUME Typing, Buffers, NEW p \in Ports, buffers[p] # <<>>
               PROVE  LET b == buffers[p]
                          r == receivers[p]
                      IN  /\ r # NoRx /\ Len(b) <= MaxBuffer
                          /\ \A i \in 2..Len(b) : b[i - 1] < b[i]
                          /\ \A n \in b[1]..r.next :
                               n \in {b[i] : i \in 1..Len(b)} \/ n <= Overwritten(SentTo(r))
    BY DEF BufferHasNoHoles
  <2> DEFINE b == buffers[p]
             r == receivers[p]
  <2>1. /\ r # NoRx /\ Len(b) <= MaxBuffer /\ Gapless(b, r.next, Overwritten(SentTo(r)))
        /\ b \in Seq(Nat)
    BY TypingParts DEF Parts, SessionTypes, Buffers, Buffered
  <2> HIDE DEF b, r
  <2>2. \A i \in 2..Len(b) : i - 1 \in 1..Len(b) /\ i \in 1..Len(b) /\ i - 1 < i
    BY <2>1
  <2>3. \A i \in 2..Len(b) : b[i - 1] < b[i]
    BY <2>1, <2>2 DEF Gapless
  <2>4. b # <<>>
    BY DEF b
  <2>5. \A n \in b[1]..r.next : n \in {b[i] : i \in 1..Len(b)} \/ n <= Overwritten(SentTo(r))
    BY <2>1, <2>4 DEF Gapless
  <2> QED  BY <2>1, <2>3, <2>5 DEF b, r
<1> QED  BY <1>1, <1>2, TypingInit, TypingStep, BuffersStep, PTL DEF Spec

-----------------------------------------------------------------------------
(* The queue cannot be seen in what is streamed: the refinement of         *)
(* Subscription.                                                           *)

(* Every receiver in s is of a channel that its port has, or has had.      *)
Reached(s, last) == \A i \in 1..Len(s) : s[i].rx # NoRx => s[i].rx.gen <= last[s[i].port]

(* The same of the taps and of the commands under way; between its two     *)
(* looks at the port, subscribe_rx is about a port without a subscription. *)
Reach ==
  /\ \A p \in Ports : rxTaps[p] # NoRx => rxTaps[p].gen <= opens[p]
  /\ Reached(queue, opens) /\ Reached(outbox, opens)
  /\ pc = "subscribe_grab" => portArg \notin rxSubscriptions

(* Channels are only added, and one that has ended has ended for good.     *)
LEMMA TableOnlyGrows ==
  ASSUME Typing, [Next]_vars
  PROVE  /\ \A p \in Ports : opens[p] <= opens'[p] /\ opens[p] \in Nat /\ opens'[p] \in Nat
         /\ ended \subseteq ended'
         /\ UNCHANGED tableVars => UNCHANGED ended
<1>1. TableTyping /\ portArg \in Ports
  BY TypingParts DEF Parts, HandlerTypes
<1>2. UNCHANGED tableVars \/ \E q \in Ports : OpenStream(q) \/ RemovePort(q) \/ ReadTask(q)
  BY <1>1, TableSteps
<1>3. UNCHANGED tableVars => UNCHANGED ended
  BY DEF tableVars, ended, ChannelClosed
<1>4. CASE UNCHANGED tableVars
  BY <1>1, <1>3, <1>4, TableAssumption DEF tableVars, TableTyping, TableTypeOK
<1>5. ASSUME NEW q \in Ports, OpenStream(q) \/ RemovePort(q) \/ ReadTask(q), NEW p \in Ports
      PROVE  /\ opens[p] <= opens'[p] /\ opens[p] \in Nat /\ opens'[p] \in Nat
             /\ opens'[p] > opens[p] => ~inMap[p] /\ reader[p] = "none"
             /\ opens'[p] = opens[p] /\ ~inMap[p] /\ reader[p] = "none" => ~inMap'[p] /\ reader'[p] = "none"
  <2>1. opens[p] \in Nat /\ opens[q] \in Nat
    BY <1>1, TableAssumption DEF TableTyping, TableTypeOK
  <2>2. CASE OpenStream(q)
    BY <1>1, <2>1, <2>2 DEF OpenStream, TableTyping, TableTypeOK
  <2>3. CASE RemovePort(q)
    BY <1>1, <2>1, <2>3 DEF RemovePort, Aborted, TableTyping, TableTypeOK
  <2>4. CASE ReadTask(q)
    BY <1>1, <2>1, <2>4 DEF ReadTask, ReadData, ReadFailed, ReaderAborted, TableTyping, TableTypeOK
  <2> QED  BY <1>5, <2>2, <2>3, <2>4
<1>6. CASE \E q \in Ports : OpenStream(q) \/ RemovePort(q) \/ ReadTask(q)
  <2>1. ASSUME NEW p \in Ports, NEW g \in Channels, g <= opens[p], ChannelClosed(p, g)
        PROVE  g <= opens'[p] /\ ChannelClosed(p, g)'
    <3>1. g \in Nat
      BY TableAssumption DEF Channels
    <3>2. /\ opens[p] <= opens'[p] /\ opens[p] \in Nat /\ opens'[p] \in Nat
          /\ opens'[p] = opens[p] /\ ~inMap[p] /\ reader[p] = "none" => ~inMap'[p] /\ reader'[p] = "none"
      BY <1>5, <1>6
    <3> QED  BY <2>1, <3>1, <3>2 DEF ChannelClosed
  <2>2. ended \subseteq ended'
    BY <2>1 DEF ended
  <2> QED  BY <1>3, <1>5, <1>6, <2>2
<1> QED  BY <1>2, <1>4, <1>6

LEMMA ReachInit == Init => Reach
BY DEF Init, Reach, Reached

(* What happens to a sequence of commands whose receivers are all known.   *)
LEMMA ReachedMoves ==
  ASSUME NEW s \in Seq(StreamCommands), NEW last, NEW then,
         \A p \in Ports : last[p] <= then[p] /\ last[p] \in Nat /\ then[p] \in Nat,
         Reached(s, last)
  PROVE  /\ Reached(s, then)
         /\ s # <<>> => /\ Reached(Tail(s), then)
                        /\ Head(s).rx # NoRx => Head(s).rx.gen <= then[Head(s).port]
         /\ \A m \in StreamCommands :
              (m.rx # NoRx => m.rx.gen <= then[m.port]) => Reached(Append(s, m), then)
<1>1. ASSUME NEW i \in 1..Len(s), s[i].rx # NoRx PROVE s[i].rx.gen <= then[s[i].port]
  <2>1. s[i] \in StreamCommands
    OBVIOUS
  <2>2. s[i].port \in Ports /\ s[i].rx \in Receivers
    BY <1>1, <2>1 DEF StreamCommands
  <2>3. s[i].rx.gen \in Nat
    BY <2>2, TableAssumption DEF Receivers, Channels
  <2> QED  BY <1>1, <2>2, <2>3 DEF Reached
<1>2. Reached(s, then)
  BY <1>1 DEF Reached
<1>3. s # <<>> => /\ Reached(Tail(s), then)
                  /\ Head(s).rx # NoRx => Head(s).rx.gen <= then[Head(s).port]
  <2> SUFFICES ASSUME s # <<>>
               PROVE  /\ Reached(Tail(s), then)
                      /\ Head(s).rx # NoRx => Head(s).rx.gen <= then[Head(s).port]
    OBVIOUS
  <2>1. /\ Head(s) = s[1] /\ Len(s) \in Nat /\ Len(s) >= 1
        /\ \A i \in 1..Len(Tail(s)) : i + 1 \in 1..Len(s) /\ Tail(s)[i] = s[i + 1]
    BY TailShifts
  <2> QED  BY <1>1, <2>1 DEF Reached
<1>4. ASSUME NEW m \in StreamCommands, m.rx # NoRx => m.rx.gen <= then[m.port]
      PROVE  Reached(Append(s, m), then)
  <2>1. /\ Len(Append(s, m)) = Len(s) + 1 /\ Len(s) \in Nat
        /\ Append(s, m)[Len(s) + 1] = m
        /\ \A i \in 1..Len(s) : Append(s, m)[i] = s[i]
    BY AppendKeeps
  <2> QED  BY <1>1, <1>4, <2>1 DEF Reached
<1> QED  BY <1>2, <1>3, <1>4

(* The commands that a handler sends name the port's newest channel or no  *)
(* receiver.                                                               *)
LEMMA SentReached ==
  ASSUME Typing, Handler
  PROVE  \/ outbox' = outbox
         \/ outbox # <<>> /\ outbox' = Tail(outbox)
         \/ Reached(outbox', opens) /\ UNCHANGED opens
<1>1. TableTyping /\ portArg \in Ports /\ opens[portArg] \in Nat
  BY TypingParts, TableAssumption DEF Parts, HandlerTypes, TableTyping, TableTypeOK
<1>2. ASSUME NEW m, m.rx # NoRx => m.rx.gen <= opens[m.port]
      PROVE  Reached(<<m>>, opens)
  BY <1>2 DEF Reached
<1>3. CASE SubscribeGrab \/ FilterGrab
  <2>1. CASE inMap[portArg]
    <3>1. \/ outbox' = <<[Command("Subscribe", portArg) EXCEPT !.rx = Subscribe(portArg)]>>
          \/ outbox' = <<[Command("AddFilter", portArg) EXCEPT !.rx = Subscribe(portArg),
                                                               !.keywords = keywordsArg]>>
      BY <1>3, <2>1 DEF SubscribeGrab, FilterGrab, Send
    <3>2. opens[portArg] <= opens[portArg]
      BY <1>1
    <3>3. UNCHANGED opens
      BY <1>3 DEF SubscribeGrab, FilterGrab, tableVars
    <3> QED  BY <1>2, <3>1, <3>2, <3>3 DEF Command, Subscribe
  <2>2. CASE ~inMap[portArg]
    BY <1>3, <2>2 DEF SubscribeGrab, FilterGrab
  <2> QED  BY <2>1, <2>2
<1>4. CASE Unsubscribe
  <2>1. outbox' = outbox \/ outbox' = <<Command("Unsubscribe", portArg)>>
    BY <1>4 DEF Unsubscribe, Send
  <2> QED  BY <1>2, <1>4, <2>1 DEF Command, Unsubscribe, tableVars
<1>5. CASE Unfilter
  <2>1. outbox' = outbox \/ outbox' = <<Command("RemoveFilter", portArg)>>
    BY <1>5 DEF Unfilter, Send
  <2> QED  BY <1>2, <1>5, <2>1 DEF Command, Unfilter, tableVars
<1>6. CASE FilterExtend
  BY <1>2, <1>6 DEF FilterExtend, Send, Command, tableVars
<1>7. CASE ClosePort
  <2>1. CASE ~inMap[portArg]
    BY <1>7, <2>1 DEF ClosePort
  <2>2. CASE inMap[portArg]
    <3>1. outbox' = ClosingCommands(portArg) /\ UNCHANGED opens
      BY <1>7, <2>2 DEF ClosePort, Send, RemovePort
    <3>2. ClosingCommands(portArg) \in Seq(StreamCommands)
      BY <1>1, ClosingTypes
    <3>3. \A i \in 1..Len(ClosingCommands(portArg)) : ClosingCommands(portArg)[i].rx = NoRx
      BY DEF ClosingCommands, Command
    <3> QED  BY <3>1, <3>3 DEF Reached
  <2> QED  BY <2>1, <2>2
<1>8. CASE SendCommand
  BY <1>8 DEF SendCommand
<1>9. CASE \/ Sent \/ OpenPort \/ OpenEnsure \/ CloseFinish \/ SubscribeCheck \/ SubscribeRefused
           \/ FilterCheck \/ FilterExtendRefused \/ ReadCheck \/ ReadPort
  BY <1>9 DEF Sent, OpenPort, OpenEnsure, CloseFinish, SubscribeCheck, SubscribeRefused,
     FilterCheck, FilterExtendRefused, ReadCheck, ReadPort
<1> QED  BY <1>3, <1>4, <1>5, <1>6, <1>7, <1>8, <1>9 DEF Handler

(* Where the queue and the taps of the stream task come from.              *)
LEMMA TapsFrom ==
  ASSUME Typing, [Next]_vars, NEW p \in Ports, rxTaps'[p] # NoRx
  PROVE  \/ rxTaps[p] # NoRx /\ rxTaps'[p].gen = rxTaps[p].gen
         \/ queue # <<>> /\ Head(queue).port = p /\ rxTaps'[p] = Head(queue).rx
<1>1. TableTyping /\ StreamTypes /\ QueueTypes
  BY TypingParts DEF Parts
<1>2. CASE ApplyCommand
  <2>1. Head(queue) \in StreamCommands /\ queue # <<>>
    BY <1>1, <1>2, TailShifts DEF QueueTypes, ApplyCommand
  <2>2. UNCHANGED rxTaps \/ rxTaps' = [rxTaps EXCEPT ![Head(queue).port] = Head(queue).rx]
    BY <1>2 DEF ApplyCommand
  <2> QED  BY <1>1, <2>1, <2>2 DEF StreamTypes
<1>3. ASSUME NEW q \in Ports, PushRx(q) \/ SkipLost(q) \/ PollDone(q)
      PROVE  rxTaps[p] # NoRx /\ rxTaps'[p].gen = rxTaps[p].gen
  <2>1. todo # <<>> /\ q = Head(todo)
    BY <1>3 DEF PushRx, SkipLost, PollDone, PollValue, PollLagged, PollEnd
  <2>2. phase = "rx" => rxTaps[q] # NoRx /\ rxTaps[q] \in Receivers
    BY <1>1, <2>1, PolledTap DEF StreamTypes
  <2>3. \/ UNCHANGED rxTaps
        \/ phase = "rx" /\ rxTaps' = Advanced(rxTaps, q)
        \/ phase = "rx" /\ rxTaps' = AfterEnd(rxTaps, q)
    BY <1>3 DEF PushRx, SkipLost, PollDone
  <2>4. CASE phase = "rx" /\ rxTaps' = Advanced(rxTaps, q)
    <3>1. rxTaps' = [rxTaps EXCEPT ![q] = [rxTaps[q] EXCEPT !.next = NextAfterPoll(rxTaps[q])]]
      BY <2>4 DEF Advanced
    <3>2. [rxTaps[q] EXCEPT !.next = NextAfterPoll(rxTaps[q])].gen = rxTaps[q].gen
      BY <2>2, <2>4 DEF Receivers
    <3> QED  BY <1>1, <2>2, <2>4, <3>1, <3>2 DEF StreamTypes
  <2>5. CASE phase = "rx" /\ rxTaps' = AfterEnd(rxTaps, q)
    BY <1>1, <2>5 DEF AfterEnd, StreamTypes
  <2> QED  BY <2>3, <2>4, <2>5
<1>4. CASE StreamAborted \/ StreamEnds \/ \E q \in Ports : WriteFails(q)
  BY <1>4 DEF StreamAborted, StreamEnds, WriteFails, StreamDies
<1>5. CASE UNCHANGED rxTaps
  BY <1>5
<1> QED
  BY <1>2, <1>3, <1>4, <1>5 DEF Next, vars, connectionVars, streamVars, tapVars, Request, Eof, SessionError,
     Handler, StreamTask, OtherOpens, OtherCloses, ReadStep, CheckFilter, BeginRx, BeginFilter,
     BeginCommands, SendCommand, Sent, OpenPort, OpenEnsure, ClosePort, CloseFinish, SubscribeCheck,
     SubscribeRefused, SubscribeGrab, Unsubscribe, FilterCheck, FilterGrab, FilterExtend,
     FilterExtendRefused, Unfilter, ReadCheck, ReadPort

LEMMA QueueFrom ==
  ASSUME [Next]_vars
  PROVE  \/ queue' = queue
         \/ queue' = <<>>
         \/ queue # <<>> /\ queue' = Tail(queue)
         \/ outbox # <<>> /\ queue' = Append(queue, Head(outbox))
BY DEF Next, vars, connectionVars, Request, Eof, SessionError,
   Handler, StreamTask, OtherOpens, OtherCloses, ReadStep, PushRx, CheckFilter, SkipLost, PollDone,
   WriteFails, StreamEnds, StreamAborted, StreamDies, ApplyCommand, BeginRx, BeginFilter, BeginCommands,
   SendCommand, Enqueue, Sent, OpenPort, OpenEnsure, ClosePort, CloseFinish, SubscribeCheck,
   SubscribeRefused, SubscribeGrab, Unsubscribe, FilterCheck, FilterGrab, FilterExtend,
   FilterExtendRefused, Unfilter, ReadCheck, ReadPort

LEMMA ReachStep ==
  ASSUME Typing, Reach, [Next]_vars
  PROVE  Reach'
<1>1. /\ queue \in Seq(StreamCommands) /\ outbox \in Seq(StreamCommands)
      /\ StreamTypes /\ StreamTypes'
  BY TypingStep, TypingParts DEF Parts, QueueTypes, Typing, TypeOK, StreamTypes
<1>2. /\ Reached(queue, opens') /\ Reached(outbox, opens')
      /\ queue # <<>> => /\ Reached(Tail(queue), opens')
                         /\ Head(queue).rx # NoRx => Head(queue).rx.gen <= opens'[Head(queue).port]
      /\ outbox # <<>> => /\ Reached(Tail(outbox), opens')
                          /\ Head(outbox).rx # NoRx => Head(outbox).rx.gen <= opens'[Head(outbox).port]
      /\ \A m \in StreamCommands :
           (m.rx # NoRx => m.rx.gen <= opens'[m.port]) => Reached(Append(queue, m), opens')
  BY <1>1, TableOnlyGrows, ReachedMoves DEF Reach
<1>3. Reached(queue, opens)'
  <2>1. outbox # <<>> => Head(outbox) \in StreamCommands
    BY <1>1, TailShifts
  <2>2. Reached(<<>>, opens')
    BY DEF Reached
  <2>3. Reached(queue', opens')
    BY <1>2, <2>1, <2>2, QueueFrom
  <2> QED  BY <2>3 DEF Reached
<1>4. Reached(outbox, opens)'
  <2>1. CASE Handler
    <3>1. Reached(outbox', opens')
      BY <1>2, <2>1, SentReached
    <3> QED  BY <3>1 DEF Reached
  <2>2. CASE UNCHANGED outbox
    BY <1>2, <2>2 DEF Reached
  <2> QED
    BY <2>1, <2>2 DEF Next, vars, connectionVars, Request, Eof, SessionError, StreamTask, OtherOpens,
       OtherCloses, ReadStep, PushRx, CheckFilter, SkipLost, PollDone, WriteFails, StreamEnds, StreamAborted,
       ApplyCommand, BeginRx, BeginFilter, BeginCommands
<1>5. ASSUME NEW p \in Ports, rxTaps'[p] # NoRx PROVE rxTaps'[p].gen <= opens'[p]
  <2>1. CASE rxTaps[p] # NoRx /\ rxTaps'[p].gen = rxTaps[p].gen
    <3>1. rxTaps[p].gen \in Nat /\ rxTaps[p].gen <= opens[p]
      BY <1>1, <2>1, TableAssumption DEF StreamTypes, Receivers, Channels, Reach
    <3> QED  BY <2>1, <3>1, TableOnlyGrows
  <2>2. CASE queue # <<>> /\ Head(queue).port = p /\ rxTaps'[p] = Head(queue).rx
    BY <1>2, <1>5, <2>2
  <2> QED  BY <1>5, <2>1, <2>2, TapsFrom
<1>6. pc' = "subscribe_grab" => portArg' \notin rxSubscriptions'
  BY SessionAssumption DEF Reach, Next, vars, connectionVars, sessionVars, handlerVars, Request, Eof,
     SessionError, Handler, StreamTask, OtherOpens, OtherCloses, ReadStep, PushRx, CheckFilter,
     SkipLost, PollDone, WriteFails, StreamEnds, StreamAborted, ApplyCommand, BeginRx, BeginFilter, BeginCommands,
     SendCommand, Sent, OpenPort, OpenEnsure, ClosePort, CloseFinish, SubscribeCheck, SubscribeRefused,
     SubscribeGrab, Unsubscribe, FilterCheck, FilterGrab, FilterExtend, FilterExtendRefused, Unfilter,
     ReadCheck, ReadPort, Goto, Reply, AllRequests
<1> QED  BY <1>3, <1>4, <1>5, <1>6 DEF Reach

(* A new connection has no subscriptions, and nothing has ended for it.    *)
LEMMA SubInit == Init => Sub!Init
<1> SUFFICES ASSUME Init PROVE Sub!Init
  OBVIOUS
<1>1. subscribed = {} /\ up = TRUE
  BY DEF Init, subscribed, up
<1>2. /\ stream = [p \in Ports |-> NoStream]
      /\ decided = [p \in Ports |-> NoStream] /\ settling = {}
  <2>1. ASSUME NEW p \in Ports PROVE RxTapSoon(p) = NoRx /\ rxTaps[p] = NoRx /\ ~Deciding(p)
    <3>1. About(UnderWay, p, RxOps) = {}
      BY ConcatEmpty, EmptySeq DEF Init, UnderWay, About
    <3> QED  BY <3>1, DefaultDecides DEF Init, RxTapSoon, Deciding
  <2> QED  BY <2>1 DEF stream, decided, settling, Deciding, ChannelOf
<1>3. ended = {}
  <2>1. \A p \in Ports, g \in Channels : ~(g <= opens[p])
    BY TableAssumption DEF Init, TableInit, Channels
  <2> QED  BY <2>1 DEF ended
<1> QED  BY <1>1, <1>2, <1>3 DEF Sub!Init

(* The states of Subscription that a step leaves alone.                    *)
LEMMA StreamKept ==
  ASSUME UNCHANGED rxTaps,
         \/ UNCHANGED phase /\ \A p \in Ports : UNCHANGED RxTapSoon(p) /\ (Deciding(p)' <=> Deciding(p))
         \/ phase = "dead" /\ phase' = "dead"
  PROVE  UNCHANGED <<decided, settling, stream, up>>
BY DEF decided, settling, stream, up, Deciding

LEMMA SubscribedKept ==
  ASSUME UNCHANGED rxSubscriptions,
         \/ UNCHANGED <<pc, portArg>>
         \/ pc # "close_sending" /\ pc' # "close_sending"
  PROVE  UNCHANGED subscribed
BY DEF subscribed

LEMMA SubKept ==
  ASSUME Typing, [Next]_vars, UNCHANGED <<subscribed, decided, settling, stream, up>>
  PROVE  Sub!Next
<1>1. Sub!ChannelsEnd
  BY TableOnlyGrows DEF Sub!ChannelsEnd
<1> QED  BY <1>1 DEF Sub!Next

(* Steps that concern neither the subscriptions nor the taps.              *)
LEMMA SubQuiet ==
  ASSUME Typing, [Next]_vars,
         UNCHANGED <<rxSubscriptions, outbox, queue, rxTaps, phase>>,
         \/ UNCHANGED <<pc, portArg>>
         \/ pc # "close_sending" /\ pc' # "close_sending"
  PROVE  Sub!Next
<1>1. \A p \in Ports : UNCHANGED RxTapSoon(p) /\ (Deciding(p)' <=> Deciding(p))
  BY DEF RxTapSoon, Deciding, UnderWay
<1> QED  BY <1>1, StreamKept, SubscribedKept, SubKept

LEMMA SubDies ==
  ASSUME Typing, [Next]_vars, StreamDies, phase # "dead",
         UNCHANGED <<tableVars, pc, portArg, rxSubscriptions>>
  PROVE  Sub!Next
<1>1. UNCHANGED <<subscribed, ended>>
  BY SubscribedKept, TableOnlyGrows
<1>2. /\ up /\ up' = FALSE /\ settling' = {}
      /\ stream' = [p \in Ports |-> NoStream] /\ decided' = [p \in Ports |-> NoStream]
  BY DEF up, stream, decided, settling, ChannelOf, StreamDies
<1> QED  BY <1>1, <1>2 DEF Sub!StreamTaskEnds, Sub!Next

LEMMA SubSend ==
  ASSUME Typing, [Next]_vars, SendCommand
  PROVE  Sub!Next
<1>1. UNCHANGED subscribed
  BY SubscribedKept DEF SendCommand, handlerVars, sessionVars
<1>2. UNCHANGED <<decided, settling, stream, up>>
  <2>1. CASE phase = "dead"
    BY <2>1, StreamKept DEF SendCommand, streamVars, tapVars
  <2>2. CASE phase # "dead"
    <3>1. queue \in Seq(StreamCommands) /\ outbox \in Seq(StreamCommands) /\ outbox # <<>>
      BY TypingParts DEF Parts, QueueTypes, SendCommand
    <3>2. queue' = Append(queue, Head(outbox)) /\ outbox' = Tail(outbox)
      BY <2>2 DEF SendCommand, Enqueue
    <3>3. UNCHANGED UnderWay
      BY <3>1, <3>2, HeadMoves DEF UnderWay
    <3>4. \A p \in Ports : UNCHANGED RxTapSoon(p) /\ (Deciding(p)' <=> Deciding(p))
      BY <3>3, SoonKept DEF SendCommand, streamVars, Deciding
    <3> QED  BY <3>4, StreamKept DEF SendCommand, streamVars, tapVars
  <2> QED  BY <2>1, <2>2
<1> QED  BY <1>1, <1>2, SubKept

(* The port of the command settles, or another command about it remains.   *)
LEMMA SubApply ==
  ASSUME Typing, [Next]_vars, ApplyCommand
  PROVE  Sub!Next
<1>1. /\ UNCHANGED <<subscribed, ended, up>> /\ up
      /\ UNCHANGED <<tableVars, phase>>
  BY SubscribedKept, TableOnlyGrows DEF ApplyCommand, handlerVars, sessionVars, up
<1>2. StreamTypes' /\ queue \in Seq(StreamCommands) /\ queue # <<>>
  BY TypingStep, TypingParts DEF Parts, QueueTypes, ApplyCommand, Typing, TypeOK, StreamTypes
<1>3. PICK q \in Ports : q = Head(queue).port
  <2>1. Head(queue) \in StreamCommands
    BY <1>2, TailShifts
  <2> QED  BY <2>1 DEF StreamCommands
<1>4. \A p \in Ports : /\ RxTapSoon(p)' = RxTapSoon(p)
                       /\ Deciding(p)' => Deciding(p)
                       /\ ~Deciding(p)' => RxTapSoon(p)' = rxTaps'[p]
                       /\ rxTaps'[p] # rxTaps[p] => Deciding(p) /\ q = p
                       /\ Deciding(p) /\ ~Deciding(p)' => q = p
  BY <1>3, SoonApplied
<1>5. UNCHANGED decided
  BY <1>1, <1>4 DEF decided
<1>6. ASSUME NEW p \in Ports PROVE (p \in settling <=> Deciding(p)) /\ (p \in settling' <=> Deciding(p)')
  BY <1>1 DEF settling, Deciding
<1>7. settling \subseteq Ports /\ settling' \subseteq Ports
  BY DEF settling
<1>8. CASE ~Deciding(q)
  <2>1. UNCHANGED <<stream, settling>>
    BY <1>4, <1>6, <1>7, <1>8 DEF stream
  <2> QED  BY <1>1, <1>5, <2>1, SubKept
<1>9. CASE Deciding(q)
  <2>1. stream' = [stream EXCEPT ![q] = ChannelOf(rxTaps'[q])]
    BY <1>3, <1>4 DEF stream
  <2>2. ChannelOf(rxTaps'[q]) \in Channels \cup {NoStream}
    BY <1>2, <1>3 DEF StreamTypes, Receivers, ChannelOf
  <2>3. CASE Deciding(q)'
    <3>1. UNCHANGED settling
      BY <1>4, <1>6, <1>7, <2>3
    <3>2. Sub!Overtaken(q)
      BY <1>1, <1>3, <1>5, <1>6, <1>9, <2>1, <2>2, <3>1 DEF Sub!Overtaken
    <3> QED  BY <1>3, <3>2 DEF Sub!Next
  <2>4. CASE ~Deciding(q)'
    <3>1. settling' = settling \ {q}
      BY <1>3, <1>4, <1>6, <1>7, <2>4
    <3>2. decided[q] = ChannelOf(rxTaps'[q])
      BY <1>1, <1>3, <1>4, <2>4 DEF decided
    <3>3. Sub!Settle(q)
      BY <1>1, <1>3, <1>5, <1>6, <1>9, <2>1, <3>1, <3>2 DEF Sub!Settle
    <3> QED  BY <1>3, <3>3 DEF Sub!Next
  <2> QED  BY <2>3, <2>4
<1> QED  BY <1>8, <1>9

(* A tap moves on, or is dropped with its channel; nothing else is decided *)
(* while a command about the port is under way.                            *)
LEMMA SubPoll ==
  ASSUME Typing, Reach, [Next]_vars, NEW q \in Ports,
         PushRx(q) \/ CheckFilter(q) \/ SkipLost(q) \/ PollDone(q)
  PROVE  Sub!Next
<1>1. /\ todo # <<>> /\ q = Head(todo) /\ phase \in {"rx", "filter"}
      /\ UNCHANGED <<tableVars, handlerVars, sessionVars, outbox, queue, phase>>
  BY DEF PushRx, CheckFilter, SkipLost, PollDone, PollValue, PollLagged, PollEnd
<1>2. TableTyping /\ StreamTypes
  BY TypingParts DEF Parts
<1>3. phase = "rx" => rxTaps[q] # NoRx /\ rxTaps[q] \in Receivers
  BY <1>1, <1>2, PolledTap DEF StreamTypes
<1>4. UNCHANGED <<subscribed, ended, up>> /\ up
  BY <1>1, SubscribedKept, TableOnlyGrows DEF handlerVars, sessionVars, up
<1>5. UNCHANGED UnderWay
  BY <1>1 DEF UnderWay
<1>6. ASSUME NEW p \in Ports
      PROVE  /\ Deciding(p)' <=> Deciding(p)
             /\ Deciding(p) => UNCHANGED RxTapSoon(p)
             /\ ~Deciding(p) => RxTapSoon(p) = rxTaps[p] /\ RxTapSoon(p)' = rxTaps'[p]
  <2> DEFINE s == UnderWay
  <2>1. UNCHANGED s
    BY <1>5
  <2>2. /\ RxTapSoon(p)' = LastAbout(s, p, RxOps, [rx |-> rxTaps'[p]]).rx
        /\ RxTapSoon(p) = LastAbout(s, p, RxOps, [rx |-> rxTaps[p]]).rx
        /\ Deciding(p) <=> About(s, p, RxOps) # {}
        /\ Deciding(p)' <=> About(s, p, RxOps) # {}
    BY <2>1 DEF RxTapSoon, Deciding
  <2> HIDE DEF s
  <2> QED  BY <2>2, DefaultDecides
<1>7. UNCHANGED settling
  BY <1>4, <1>6 DEF settling, Deciding
<1>8. \/ UNCHANGED rxTaps
      \/ phase = "rx" /\ rxTaps' = Advanced(rxTaps, q)
      \/ phase = "rx" /\ rxTaps' = AfterEnd(rxTaps, q)
  BY DEF PushRx, CheckFilter, SkipLost, PollDone
<1>9. ASSUME \A p \in Ports : ChannelOf(rxTaps'[p]) = ChannelOf(rxTaps[p])
      PROVE  Sub!Next
  <2>1. UNCHANGED <<stream, decided>>
    BY <1>4, <1>6, <1>9 DEF stream, decided
  <2> QED  BY <1>4, <1>7, <2>1, SubKept
<1>10. CASE UNCHANGED rxTaps
  BY <1>9, <1>10
<1>11. CASE phase = "rx" /\ rxTaps' = Advanced(rxTaps, q)
  <2>1. rxTaps' = [rxTaps EXCEPT ![q] = [rxTaps[q] EXCEPT !.next = NextAfterPoll(rxTaps[q])]]
    BY <1>11 DEF Advanced
  <2>2. [rxTaps[q] EXCEPT !.next = NextAfterPoll(rxTaps[q])].gen = rxTaps[q].gen
    BY <1>3, <1>11 DEF Receivers
  <2>3. rxTaps'[q] # NoRx
    BY <1>2, <1>3, <1>11, AdvancedTypes DEF StreamTypes
  <2>4. \A p \in Ports : (rxTaps'[p] # NoRx <=> rxTaps[p] # NoRx) /\ (rxTaps[p] # NoRx => rxTaps'[p].gen = rxTaps[p].gen)
    BY <1>2, <1>3, <1>11, <2>1, <2>2, <2>3 DEF StreamTypes
  <2> QED  BY <1>9, <2>4 DEF ChannelOf
<1>12. CASE phase = "rx" /\ rxTaps' = AfterEnd(rxTaps, q) /\ rxTaps' # rxTaps
  <2>1. ChannelClosed(q, rxTaps[q].gen) /\ rxTaps' = [rxTaps EXCEPT ![q] = NoRx]
    BY <1>12 DEF AfterEnd
  <2>2. stream[q] = rxTaps[q].gen
    BY <1>3, <1>12 DEF stream, ChannelOf
  <2>3. <<q, stream[q]>> \in ended
    <3>1. rxTaps[q].gen \in Channels /\ rxTaps[q].gen <= opens[q]
      BY <1>3, <1>12 DEF Receivers, Reach
    <3> QED  BY <2>1, <2>2, <3>1 DEF ended
  <2>4. rxTaps'[q] = NoRx /\ \A p \in Ports : p # q => rxTaps'[p] = rxTaps[p]
    BY <1>2, <2>1 DEF StreamTypes
  <2>5. stream' = [stream EXCEPT ![q] = NoStream]
    BY <2>4 DEF stream, ChannelOf
  <2>6. q \in settling <=> Deciding(q)
    BY <1>4 DEF settling, Deciding
  <2>7. decided' = [decided EXCEPT ![q] = IF q \in settling THEN @ ELSE NoStream]
    <3>1. \A p \in Ports : decided[p] = ChannelOf(RxTapSoon(p)) /\ decided'[p] = ChannelOf(RxTapSoon(p)')
      BY <1>4 DEF decided
    <3>2. \A p \in Ports : p # q => decided'[p] = decided[p]
      BY <1>6, <2>4, <3>1
    <3>3. decided'[q] = IF q \in settling THEN decided[q] ELSE NoStream
      BY <1>6, <2>4, <2>6, <3>1 DEF ChannelOf
    <3>4. decided = [p \in Ports |-> decided[p]] /\ decided' = [p \in Ports |-> decided'[p]]
      BY DEF decided
    <3> QED  BY <3>2, <3>3, <3>4
  <2> QED  BY <1>4, <1>7, <2>3, <2>5, <2>7 DEF Sub!Lose, Sub!Next
<1> QED  BY <1>8, <1>10, <1>11, <1>12

LEMMA Decided ==
  ASSUME NEW q \in Ports, NEW rx, UNCHANGED up,
         \A p \in Ports : /\ RxTapSoon(p)' = IF q = p THEN rx ELSE RxTapSoon(p)
                          /\ Deciding(p)' <=> Deciding(p) \/ q = p
  PROVE  Sub!Decide(q, ChannelOf(rx))
<1>1. decided' = [decided EXCEPT ![q] = IF up THEN ChannelOf(rx) ELSE NoStream]
  BY DEF decided
<1>2. settling' = IF up THEN settling \cup {q} ELSE settling
  <2>1. \A p \in Ports : /\ p \in settling <=> up /\ Deciding(p)
                         /\ p \in settling' <=> up' /\ Deciding(p)'
    BY DEF settling, Deciding
  <2>2. settling \subseteq Ports /\ settling' \subseteq Ports
    BY DEF settling
  <2> QED  BY <2>1, <2>2
<1> QED  BY <1>1, <1>2 DEF Sub!Decide

(* The steps at which the handler decides.                                 *)
LEMMA SubChange ==
  ASSUME Typing, Reach, [Next]_vars,
         SubscribeGrab \/ Unsubscribe \/ FilterGrab \/ FilterExtend \/ Unfilter
  PROVE  Sub!Next
<1>1. /\ TableTyping /\ SessionTypes
      /\ portArg \in Ports /\ keywordsArg \in SUBSET Keywords
      /\ queue \in Seq(StreamCommands) /\ outbox = <<>>
  <2>1. pc \notin {"sending", "close_sending"}
    BY DEF SubscribeGrab, Unsubscribe, FilterGrab, FilterExtend, Unfilter
  <2> QED  BY <2>1, TypingParts DEF Parts, HandlerTypes, QueueTypes, OutboxInUse, KeywordSets
<1>2. /\ UNCHANGED <<tableVars, portArg, queue, tapVars, phase>> /\ pc' # "close_sending"
      /\ pc # "close_sending"
  BY DEF SubscribeGrab, Unsubscribe, FilterGrab, FilterExtend, Unfilter, Goto, Reply, streamVars
<1>3. /\ UNCHANGED <<ended, up, stream>>
      /\ subscribed = rxSubscriptions /\ subscribed' = rxSubscriptions'
  BY <1>2, TableOnlyGrows DEF up, stream, tapVars, subscribed
<1>4. ASSUME UNCHANGED <<rxSubscriptions, outbox>>
      PROVE  Sub!Next
  BY <1>2, <1>4, SubQuiet DEF tapVars
<1>5. ASSUME NEW m \in StreamCommands, outbox' = <<m>>, NEW p \in Ports
      PROVE  /\ RxTapSoon(p)' = IF m.port = p /\ m.op \in RxOps THEN m.rx ELSE RxTapSoon(p)
             /\ Deciding(p)' <=> Deciding(p) \/ (m.port = p /\ m.op \in RxOps)
  BY <1>1, <1>2, <1>5, SoonSent
<1>6. CASE SubscribeGrab /\ inMap[portArg]
  <2> DEFINE m == [Command("Subscribe", portArg) EXCEPT !.rx = Subscribe(portArg)]
  <2>1. m \in StreamCommands /\ m.port = portArg /\ m.op = "Subscribe"
        /\ m.rx = Subscribe(portArg) /\ m.rx # NoRx
    BY <1>1, <1>6, SubscribeType, CommandTypes DEF Command
  <2>2. outbox' = <<m>> /\ rxSubscriptions' = rxSubscriptions \cup {portArg}
    BY <1>6 DEF SubscribeGrab, Send
  <2> HIDE DEF m
  <2>3. ASSUME NEW p \in Ports
        PROVE  /\ RxTapSoon(p)' = IF portArg = p THEN Subscribe(portArg) ELSE RxTapSoon(p)
               /\ Deciding(p)' <=> Deciding(p) \/ portArg = p
    BY <1>5, <2>1, <2>2 DEF RxOps
  <2>4. ChannelOf(Subscribe(portArg)) = opens[portArg]
    BY <2>1 DEF Subscribe, ChannelOf
  <2>5. Sub!Decide(portArg, opens[portArg])
    BY <1>1, <1>3, <2>3, <2>4, Decided
  <2>6. portArg \notin subscribed
    BY <1>3, <1>6 DEF Reach, SubscribeGrab
  <2>7. opens[portArg] \in Channels /\ <<portArg, opens[portArg]>> \notin ended
    <3>1. opens[portArg] \in Channels
      BY <1>1, <1>6, TableAssumption DEF TableTyping, OpenHasChannel, TableTypeOK, Channels
    <3>2. ~ChannelClosed(portArg, opens[portArg])
      BY <1>6, <3>1, TableAssumption DEF ChannelClosed, Channels
    <3> QED  BY <3>1, <3>2 DEF ended
  <2>8. Sub!Subscribe(portArg, opens[portArg])
    BY <1>3, <2>2, <2>5, <2>6, <2>7 DEF Sub!Subscribe
  <2> QED  BY <1>1, <2>7, <2>8 DEF Sub!Next
<1>7. CASE Unsubscribe /\ portArg \in rxSubscriptions
  <2> DEFINE m == Command("Unsubscribe", portArg)
  <2>1. m \in StreamCommands /\ m.port = portArg /\ m.op = "Unsubscribe" /\ m.rx = NoRx
    BY <1>1, CommandTypes DEF Command
  <2>2. outbox' = <<m>> /\ rxSubscriptions' = rxSubscriptions \ {portArg}
    BY <1>7 DEF Unsubscribe, Send
  <2> HIDE DEF m
  <2>3. ASSUME NEW p \in Ports
        PROVE  /\ RxTapSoon(p)' = IF portArg = p THEN NoRx ELSE RxTapSoon(p)
               /\ Deciding(p)' <=> Deciding(p) \/ portArg = p
    BY <1>5, <2>1, <2>2 DEF RxOps
  <2>4. Sub!Decide(portArg, NoStream)
    BY <1>1, <1>3, <2>3, Decided DEF ChannelOf
  <2>5. Sub!Unsubscribe(portArg)
    BY <1>3, <1>7, <2>2, <2>4 DEF Sub!Unsubscribe
  <2> QED  BY <1>1, <2>5 DEF Sub!Next
<1>8. ASSUME NEW m \in StreamCommands, outbox' = <<m>>, m.op \notin RxOps, UNCHANGED rxSubscriptions
      PROVE  Sub!Next
  <2>1. \A p \in Ports : UNCHANGED RxTapSoon(p) /\ (Deciding(p)' <=> Deciding(p))
    BY <1>5, <1>8
  <2> QED  BY <1>2, <1>8, <2>1, StreamKept, SubscribedKept, SubKept DEF tapVars
<1>9. CASE FilterGrab /\ inMap[portArg]
  <2> DEFINE m == [Command("AddFilter", portArg) EXCEPT !.rx = Subscribe(portArg),
                                                        !.keywords = keywordsArg]
  <2>1. m \in StreamCommands /\ m.op = "AddFilter"
    BY <1>1, <1>9, SubscribeType, CommandTypes DEF Command
  <2>2. outbox' = <<m>> /\ UNCHANGED rxSubscriptions
    BY <1>9 DEF FilterGrab, Send
  <2> HIDE DEF m
  <2> QED  BY <1>8, <2>1, <2>2 DEF RxOps
<1>10. CASE FilterExtend
  <2> DEFINE m == [Command("SetFilterKeywords", portArg) EXCEPT !.keywords = Merged(portArg)]
  <2>1. Merged(portArg) \in SUBSET Keywords
    BY <1>1 DEF Merged, SessionTypes
  <2>2. m \in StreamCommands /\ m.op = "SetFilterKeywords"
    BY <1>1, <2>1, CommandTypes DEF Command
  <2>3. outbox' = <<m>> /\ UNCHANGED rxSubscriptions
    BY <1>10 DEF FilterExtend, Send
  <2> HIDE DEF m
  <2> QED  BY <1>8, <2>2, <2>3 DEF RxOps
<1>11. CASE Unfilter /\ filterSubscriptions[portArg] # NoFilter
  <2> DEFINE m == Command("RemoveFilter", portArg)
  <2>1. m \in StreamCommands /\ m.op = "RemoveFilter"
    BY <1>1, CommandTypes DEF Command
  <2>2. outbox' = <<m>> /\ UNCHANGED rxSubscriptions
    BY <1>11 DEF Unfilter, Send
  <2> HIDE DEF m
  <2> QED  BY <1>8, <2>1, <2>2 DEF RxOps
<1>12. CASE \/ (SubscribeGrab \/ FilterGrab) /\ ~inMap[portArg]
            \/ Unsubscribe /\ portArg \notin rxSubscriptions
            \/ Unfilter /\ filterSubscriptions[portArg] = NoFilter
  <2>1. UNCHANGED <<rxSubscriptions, outbox>>
    BY <1>1, <1>12 DEF SubscribeGrab, FilterGrab, Unsubscribe, Unfilter, SessionTypes
  <2> QED  BY <1>4, <2>1
<1> QED  BY <1>6, <1>7, <1>9, <1>10, <1>11, <1>12

(* close_port gives the subscription up when it has removed the port.      *)
LEMMA SubClose ==
  ASSUME Typing, [Next]_vars, ClosePort
  PROVE  Sub!Next
<1>1. portArg \in Ports /\ outbox = <<>>
  BY TypingParts DEF Parts, HandlerTypes, OutboxInUse, ClosePort
<1>2. CASE ~inMap[portArg]
  BY <1>2, SubQuiet DEF ClosePort, Reply, sessionVars, streamVars, tapVars
<1>3. CASE inMap[portArg]
  <2>1. /\ UNCHANGED <<rxSubscriptions, portArg, phase>> /\ pc # "close_sending" /\ pc' = "close_sending"
    BY <1>3 DEF ClosePort, Goto, sessionVars, streamVars
  <2>2. /\ subscribed = rxSubscriptions /\ subscribed' = rxSubscriptions \ {portArg}
        /\ UNCHANGED <<rxTaps, stream, up>>
    BY <2>1 DEF subscribed, up, stream, ClosePort, streamVars, tapVars
  <2>3. CASE portArg \in rxSubscriptions
    <3>1. ASSUME NEW p \in Ports
          PROVE  /\ RxTapSoon(p)' = IF portArg = p THEN NoRx ELSE RxTapSoon(p)
                 /\ Deciding(p)' <=> Deciding(p) \/ portArg = p
      BY <1>3, <2>3, SoonClosed
    <3>2. Sub!Decide(portArg, NoStream)
      BY <1>1, <2>2, <3>1, Decided DEF ChannelOf
    <3>3. Sub!Unsubscribe(portArg)
      BY <2>2, <2>3, <3>2, TableOnlyGrows DEF Sub!Unsubscribe
    <3> QED  BY <1>1, <3>3 DEF Sub!Next
  <2>4. CASE portArg \notin rxSubscriptions
    <3>1. \A p \in Ports : UNCHANGED RxTapSoon(p) /\ (Deciding(p)' <=> Deciding(p))
      BY <1>3, <2>4, SoonClosed
    <3>2. UNCHANGED subscribed
      BY <2>2, <2>4
    <3> QED  BY <2>1, <2>2, <3>1, <3>2, StreamKept, SubKept
  <2> QED  BY <2>3, <2>4
<1> QED  BY <1>2, <1>3

LEMMA SubForget ==
  ASSUME Typing, [Next]_vars, CloseFinish
  PROVE  Sub!Next
<1>1. UNCHANGED <<outbox, queue, rxTaps, phase>>
  BY DEF CloseFinish, streamVars, tapVars
<1>2. UNCHANGED subscribed
  BY DEF CloseFinish, subscribed, Reply
<1>3. \A p \in Ports : UNCHANGED RxTapSoon(p) /\ (Deciding(p)' <=> Deciding(p))
  BY <1>1 DEF RxTapSoon, Deciding, UnderWay
<1> QED  BY <1>1, <1>2, <1>3, StreamKept, SubKept

LEMMA SubStep == Typing /\ Reach /\ [Next]_vars => [Sub!Next]_Sub!state
<1> SUFFICES ASSUME Typing, Reach, [Next]_vars PROVE Sub!Next
  OBVIOUS
<1>1. CASE Handler
  <2>1. CASE \/ Sent \/ OpenPort \/ OpenEnsure \/ SubscribeCheck \/ SubscribeRefused
             \/ FilterCheck \/ FilterExtendRefused \/ ReadCheck \/ ReadPort
    BY <2>1, SubQuiet DEF Sent, OpenPort, OpenEnsure, SubscribeCheck, SubscribeRefused,
       FilterCheck, FilterExtendRefused, ReadCheck, ReadPort, Goto, Reply, sessionVars, streamVars, tapVars
  <2> QED  BY <1>1, <2>1, SubSend, SubClose, SubForget, SubChange DEF Handler
<1>2. CASE \/ Request \/ Eof \/ SessionError \/ BeginRx \/ BeginFilter \/ BeginCommands
           \/ UNCHANGED vars \/ \E q \in Ports : OtherOpens(q) \/ OtherCloses(q) \/ ReadStep(q)
  <2>1. CASE BeginRx \/ BeginFilter \/ BeginCommands
    <3>1. UNCHANGED <<subscribed, decided, settling, stream, up>>
      <4>1. UNCHANGED rxTaps /\ \A p \in Ports : UNCHANGED RxTapSoon(p) /\ (Deciding(p)' <=> Deciding(p))
        BY <2>1 DEF BeginRx, BeginFilter, BeginCommands, RxTapSoon, Deciding, UnderWay, tapVars
      <4>2. phase # "dead" /\ phase' # "dead"
        BY <2>1 DEF BeginRx, BeginFilter, BeginCommands
      <4>3. UNCHANGED subscribed
        BY <2>1, SubscribedKept DEF BeginRx, BeginFilter, BeginCommands, handlerVars, sessionVars
      <4> QED  BY <4>1, <4>2, <4>3 DEF decided, settling, stream, up, Deciding
    <3> QED  BY <3>1, SubKept
  <2>2. CASE ~(BeginRx \/ BeginFilter \/ BeginCommands)
    <3>1. UNCHANGED <<rxSubscriptions, outbox, queue, rxTaps, phase>>
      BY <1>2, <2>2 DEF Request, Eof, SessionError, OtherOpens, OtherCloses, ReadStep, vars, connectionVars,
         sessionVars, streamVars, tapVars
    <3>2. \/ UNCHANGED <<pc, portArg>>
          \/ pc # "close_sending" /\ pc' # "close_sending"
      BY <1>2, <2>2, SessionAssumption DEF Request, Eof, SessionError, OtherOpens, OtherCloses, ReadStep,
         vars, connectionVars, handlerVars, AllRequests
    <3> QED  BY <3>1, <3>2, SubQuiet
  <2> QED  BY <2>1, <2>2
<1>3. CASE StreamAborted \/ StreamEnds \/ \E q \in Ports : WriteFails(q)
  BY <1>3, SubDies DEF StreamAborted, StreamEnds, WriteFails, handlerVars, sessionVars
<1> QED
  BY <1>1, <1>2, <1>3, SubApply, SubPoll DEF Next, StreamTask

(* The handler, its queue and the stream task together implement the       *)
(* subscriptions of one connection, whatever the capacity of the queue and *)
(* whatever the other connections open and close (daemon.rs:203-290,       *)
(* 451-500).                                                               *)
THEOREM SubscriptionRefinement == Spec => ImplementsSubscriptions
BY SubInit, SubStep, TypingInit, TypingStep, ReachInit, ReachStep, PTL
   DEF Spec, ImplementsSubscriptions, Sub!Spec

SubTyping ==
  /\ subscribed \subseteq Ports
  /\ decided \in [Ports -> Channels \cup {NoStream}]
  /\ stream \in [Ports -> Channels \cup {NoStream}]

(* A settled port is streamed as was decided, and the decision agrees with *)
(* the subscription.                                                       *)
SubAgreement ==
  \A p \in Ports :
    /\ p \notin settling => stream[p] = decided[p]
    /\ decided[p] # NoStream => p \in subscribed
    /\ up /\ p \in subscribed /\ decided[p] = NoStream => \E g \in Channels : <<p, g>> \in ended
    /\ ~up => decided[p] = NoStream

(* Whatever keeps to Subscription streams subscribed ports only, and all   *)
(* of them but those that a channel, or the stream task, has ended for.    *)
LEMMA SubKeepsStreams ==
  /\ Sub!Init => SubTyping /\ SubAgreement
  /\ SubTyping /\ SubAgreement /\ [Sub!Next]_Sub!state => SubTyping' /\ SubAgreement'
<1> USE DEF SubTyping, SubAgreement
<1>1. Sub!Init => SubTyping /\ SubAgreement
  BY DEF Sub!Init
<1>2. ASSUME SubTyping, SubAgreement, [Sub!Next]_Sub!state
      PROVE  SubTyping' /\ SubAgreement'
  <2>1. ASSUME NEW p \in Ports, NEW g \in Channels, Sub!Subscribe(p, g)
        PROVE  SubTyping' /\ SubAgreement'
    <3>1. g # NoStream
      BY TableAssumption DEF Channels, NoStream
    <3> QED  BY <1>2, <2>1, <3>1 DEF Sub!Subscribe, Sub!Decide
  <2>2. ASSUME NEW p \in Ports, Sub!Unsubscribe(p)
        PROVE  SubTyping' /\ SubAgreement'
    <3>1. /\ p \in subscribed /\ subscribed' = subscribed \ {p} /\ UNCHANGED <<stream, up>>
          /\ decided' = [decided EXCEPT ![p] = NoStream]
          /\ settling' = IF up THEN settling \cup {p} ELSE settling
          /\ ended \subseteq ended'
      BY <1>2, <2>2 DEF Sub!Unsubscribe, Sub!Decide
    <3>2. decided'[p] = NoStream /\ \A q \in Ports : q # p => decided'[q] = decided[q]
      BY <1>2, <3>1
    <3>3. ~up => decided[p] = NoStream
      BY <1>2 DEF SubAgreement
    <3> QED  BY <1>2, <3>1, <3>2, <3>3
  <2>3. ASSUME NEW p \in Ports, Sub!Lose(p)
        PROVE  SubTyping' /\ SubAgreement'
    BY <1>2, <2>3 DEF Sub!Lose
  <2>4. ASSUME NEW p \in Ports, Sub!Overtaken(p) \/ Sub!Settle(p)
        PROVE  SubTyping' /\ SubAgreement'
    BY <1>2, <2>4 DEF Sub!Overtaken, Sub!Settle
  <2>5. CASE Sub!ChannelsEnd \/ UNCHANGED Sub!state
    BY <1>2, <2>5 DEF Sub!ChannelsEnd, Sub!state
  <2>6. CASE Sub!StreamTaskEnds
    BY <1>2, <2>6 DEF Sub!StreamTaskEnds
  <2> QED
    BY <1>2, <2>1, <2>2, <2>3, <2>4, <2>5, <2>6 DEF Sub!Next
<1> QED  BY <1>1, <1>2

(* What the connection implements streams no settled port without a        *)
(* subscription, and loses the stream of a subscription only when a        *)
(* channel of the port, or the stream task, has ended.                     *)
THEOREM SubscriptionsStreamed == Sub!Spec => []Sub!StreamsOfSubscriptions
<1>1. SubAgreement => Sub!StreamsOfSubscriptions
  BY DEF SubAgreement, Sub!StreamsOfSubscriptions
<1> QED  BY <1>1, SubKeepsStreams, PTL DEF Sub!Spec
==============================================================================
