---------------------------- MODULE SseStreamProofs ----------------------------
(* Proofs about SseStream, for any ports, capacities and bounds.           *)
EXTENDS SseStream, FiniteSetTheorems, SequenceTheorems, TLAPS

(* A port in the map has a channel.                                        *)
OpenHasChannel == \A p \in Ports : inMap[p] => opens[p] > 0

(* Nobody will get a receiver of channel g of p any more.                  *)
Dead(p, g) == g < opens[p] \/ (g = opens[p] /\ ~inMap[p])

(* The ports left in a part of the loop: those to subscribe to are named,  *)
(* without a receiver and left once, those to poll have one.               *)
TodoFits ==
  /\ phase = "subscribe" =>
       /\ \A i \in 1..Len(todo) : todo[i] \in names /\ receivers[todo[i]] = NoRx
       /\ \A i, j \in 1..Len(todo) : todo[i] = todo[j] => i = j
  /\ phase = "poll" => \A i \in 1..Len(todo) : receivers[todo[i]] # NoRx

Typing == TypeOK /\ OpenHasChannel /\ TodoFits

(* A receiver is p's, of a channel that exists, and what was last shown of *)
(* p came before what it has next: from an older channel, or from its own  *)
(* with nothing between them that is still in the ring.                    *)
Listening(p, r, e) ==
  /\ r.port = p /\ r.gen <= opens[p]
  /\ \/ e[1] < r.gen
     \/ e[1] = r.gen /\ e[2] <= r.next /\ (r.next = e[2] \/ r.next <= Overwritten(sent[p][r.gen]))

(* Without a receiver, what was last shown of p came from a dead channel:  *)
(* the receiver that p gets next is of a newer one.  So will it be for a   *)
(* receiver that the loop is about to drop.                                *)
Watched(p) ==
  /\ receivers[p] # NoRx => Listening(p, receivers[p], shown[p])
  /\ receivers[p] = NoRx => Dead(p, shown[p][1])
  /\ phase = "subscribe" /\ p \notin names /\ receivers[p] # NoRx => Dead(p, receivers[p].gen)

Watch == Typing /\ \A p \in Ports : Watched(p)

-----------------------------------------------------------------------------
(* Lemmas about the model's operators.                                     *)

TableTyping == TableTypeOK /\ OpenHasChannel

LEMMA SubscribeType ==
  ASSUME TableTyping, NEW p \in Ports, inMap[p]
  PROVE  Subscribe(p) \in Receivers /\ Subscribe(p) # NoRx
<1>1. opens[p] \in Channels
  BY TableAssumption DEF TableTyping, OpenHasChannel, TableTypeOK, Channels
<1>2. sent[p][opens[p]] \in Seq(Data)
  BY <1>1 DEF TableTyping, TableTypeOK
<1> QED  BY <1>1, <1>2, TableAssumption DEF Subscribe, Receivers

LEMMA EntriesType ==
  ASSUME TableTyping, NEW r \in Receivers
  PROVE  /\ SentTo(r) \in Seq(Data) /\ Len(SentTo(r)) \in Nat
         /\ Overwritten(SentTo(r)) \in Nat
<1>1. SentTo(r) \in Seq(Data)
  BY DEF TableTyping, TableTypeOK, SentTo, Receivers
<1> QED  BY <1>1, CapacityAssumption DEF Overwritten

(* A cursor that moves stays with its channel.                             *)
LEMMA MovedReceiver ==
  ASSUME NEW r \in Receivers, NEW n \in Nat
  PROVE  /\ [r EXCEPT !.next = n] \in Receivers /\ [r EXCEPT !.next = n] # NoRx
         /\ [r EXCEPT !.next = n].port = r.port /\ [r EXCEPT !.next = n].gen = r.gen
         /\ [r EXCEPT !.next = n].next = n
<1>1. [r EXCEPT !.next = n] \in Receivers
  BY DEF Receivers
<1> QED  BY <1>1, TableAssumption DEF Receivers

(* The order of a part of the loop.                                        *)
LEMMA OrderTypes ==
  ASSUME NEW T \in SUBSET Ports, NEW order \in SetToSeqs(T)
  PROVE  /\ order \in Seq(Ports)
         /\ \A i \in 1..Len(order) : order[i] \in T
         /\ \A i, j \in 1..Len(order) : order[i] = order[j] => i = j
<1>1. Cardinality(T) \in Nat
  BY SseAssumption, FS_Subset, FS_CardinalityType
<1>2. /\ order \in [1..Cardinality(T) -> T]
      /\ \A i, j \in 1..Cardinality(T) : i # j => order[i] # order[j]
  BY DEF SetToSeqs
<1>3. order \in Seq(T) /\ Len(order) = Cardinality(T)
  BY <1>1, <1>2
<1>4. order \in Seq(Ports)
  BY <1>1, <1>2
<1> QED  BY <1>2, <1>3, <1>4

LEMMA TailShifts ==
  ASSUME NEW S, NEW s \in Seq(S), s # <<>>
  PROVE  /\ Head(s) = s[1] /\ Head(s) \in S /\ 1 \in 1..Len(s)
         /\ Tail(s) \in Seq(S) /\ Len(Tail(s)) = Len(s) - 1
         /\ Len(s) \in Nat /\ Len(s) >= 1
         /\ \A i \in 1..Len(Tail(s)) : i \in Nat /\ i # 0 /\ i + 1 \in 1..Len(s) /\ Tail(s)[i] = s[i + 1]
OBVIOUS

(* The last port that is left leaves nothing but what it left.             *)
LEMMA EmptyTodo ==
  ASSUME NEW i \in 1..Len(<<>>)
  PROVE  FALSE
OBVIOUS

-----------------------------------------------------------------------------
(* Type correctness.                                                       *)

LoopTypes ==
  /\ receivers \in [Ports -> Receivers \cup {NoRx}]
  /\ names \subseteq Ports
  /\ phase \in {"list", "subscribe", "poll"}
  /\ todo \in Seq(Ports)
  /\ shown \in [Ports -> (0..MaxOpens) \X Nat]

LEMMA TypingParts ==
  /\ Typing <=> TableTyping /\ LoopTypes /\ TodoFits
  /\ TableTyping' /\ LoopTypes' /\ TodoFits' => Typing'
<1>1. Typing <=> TableTyping /\ LoopTypes /\ TodoFits
  BY DEF Typing, TypeOK, TableTyping, LoopTypes
<1>2. TableTyping' /\ LoopTypes' /\ TodoFits' => Typing'
  BY DEF Typing, TypeOK, TableTyping, LoopTypes
<1> QED  BY <1>1, <1>2

LEMMA TypingInit == Init => Typing
<1> SUFFICES ASSUME Init PROVE Typing
  OBVIOUS
<1>1. TableTyping
  <2>1. \A p \in Ports : sent[p] \in [Channels -> Seq(Data)]
    BY EmptySeq DEF Init, TableInit
  <2> QED  BY <2>1, TableAssumption DEF Init, TableInit, TableTyping, TableTypeOK, OpenHasChannel
<1>2. LoopTypes
  BY EmptySeq, TableAssumption DEF Init, LoopTypes
<1>3. TodoFits
  BY DEF Init, TodoFits
<1> QED  BY <1>1, <1>2, <1>3, TypingParts

LEMMA TypingTable ==
  ASSUME Typing, NEW p \in Ports, TableStep(p)
  PROVE  Typing'
<1> USE TypingParts
<1>1. TableTyping'
  <2> USE TableAssumption DEF TableTyping, OpenHasChannel, TableTypeOK, Channels
  <2>1. CASE OpenStream(p)
    BY <2>1 DEF OpenStream
  <2>2. CASE RemovePort(p)
    BY <2>2 DEF RemovePort, Aborted
  <2>3. CASE ReadData(p)
    <3>1. PICK d \in Data : sent' = [sent EXCEPT ![p][opens[p]] = Append(@, d)]
      BY <2>3 DEF ReadData
    <3>2. \A q \in Seq(Data) : Append(q, d) \in Seq(Data)
      OBVIOUS
    <3>3. [sent[p] EXCEPT ![opens[p]] = Append(@, d)] \in [Channels -> Seq(Data)]
      BY <3>2
    <3>4. sent' \in [Ports -> [Channels -> Seq(Data)]]
      BY <3>1, <3>3
    <3> QED  BY <3>4, <2>3 DEF ReadData
  <2>4. CASE ReadFailed(p) \/ ReaderAborted(p)
    BY <2>4 DEF ReadFailed, ReaderAborted
  <2> QED  BY <2>1, <2>2, <2>3, <2>4 DEF ReadTask, TableStep
<1>2. LoopTypes' /\ TodoFits'
  BY DEF TableStep, loopVars, LoopTypes, TodoFits
<1> QED  BY <1>1, <1>2

(* A step of the loop leaves the table alone.                              *)
LEMMA TableKept ==
  ASSUME Typing, UNCHANGED tableVars
  PROVE  TableTyping'
BY TypingParts DEF tableVars, TableTyping, TableTypeOK, OpenHasChannel

LEMMA TypingList == Typing /\ ListPorts => Typing'
<1> SUFFICES ASSUME Typing, ListPorts PROVE Typing'
  OBVIOUS
<1> USE TypingParts
<1>1. NewPorts(names') \in SUBSET Ports /\ todo' \in SetToSeqs(NewPorts(names'))
  BY DEF ListPorts, NewPorts
<1>2. /\ todo' \in Seq(Ports)
      /\ \A i \in 1..Len(todo') : todo'[i] \in NewPorts(names')
      /\ \A i, j \in 1..Len(todo') : todo'[i] = todo'[j] => i = j
  BY <1>1, OrderTypes
<1>3. \A q \in NewPorts(names') : q \in names' /\ receivers'[q] = NoRx
  BY DEF NewPorts, Held, ListPorts
<1>4. TodoFits'
  BY <1>2, <1>3 DEF TodoFits, ListPorts
<1>5. LoopTypes'
  BY <1>2 DEF LoopTypes, ListPorts
<1> QED  BY <1>4, <1>5, TableKept DEF ListPorts

LEMMA TypingSubscribe == Typing /\ SubscribeNext => Typing'
<1> SUFFICES ASSUME Typing, SubscribeNext PROVE Typing'
  OBVIOUS
<1> USE TypingParts
<1>1. /\ Head(todo) = todo[1] /\ Head(todo) \in Ports /\ 1 \in 1..Len(todo)
      /\ Tail(todo) \in Seq(Ports)
      /\ \A i \in 1..Len(Tail(todo)) : i \in Nat /\ i # 0 /\ i + 1 \in 1..Len(todo) /\ Tail(todo)[i] = todo[i + 1]
  BY TailShifts DEF LoopTypes, SubscribeNext
<1>2. LoopTypes'
  BY <1>1, SubscribeType DEF LoopTypes, SubscribeNext
<1>3. TodoFits'
  <2>1. \A i, j \in 1..Len(todo) : todo[i] = todo[j] => i = j
    BY DEF TodoFits, SubscribeNext
  <2>2. ASSUME NEW i \in 1..Len(Tail(todo))
        PROVE  Tail(todo)[i] # Head(todo) /\ Tail(todo)[i] \in names /\ receivers[Tail(todo)[i]] = NoRx
    BY <1>1, <2>1 DEF TodoFits, SubscribeNext
  <2>3. ASSUME NEW i \in 1..Len(Tail(todo)), NEW j \in 1..Len(Tail(todo)), Tail(todo)[i] = Tail(todo)[j]
        PROVE  i = j
    <3>1. i + 1 = j + 1
      BY <1>1, <2>1, <2>3
    <3> QED  BY <1>1, <3>1
  <2>4. \A q \in Ports : q # Head(todo) => receivers'[q] = receivers[q]
    BY DEF LoopTypes, SubscribeNext
  <2>5. \A i \in 1..Len(Tail(todo)) : Tail(todo)[i] \in Ports
    BY <1>1
  <2> QED  BY <2>2, <2>3, <2>4, <2>5 DEF TodoFits, SubscribeNext
<1> QED  BY <1>2, <1>3, TableKept DEF SubscribeNext

LEMMA TypingRetain == Typing /\ RetainNamed => Typing'
<1> SUFFICES ASSUME Typing, RetainNamed PROVE Typing'
  OBVIOUS
<1> USE TypingParts
<1>1. Held(Retained) \in SUBSET Ports
  BY DEF Held
<1>2. todo' \in Seq(Ports) /\ \A i \in 1..Len(todo') : todo'[i] \in Held(Retained)
  BY <1>1, OrderTypes DEF RetainNamed
<1>3. LoopTypes'
  BY <1>2 DEF LoopTypes, RetainNamed, Retained
<1>4. TodoFits'
  BY <1>2 DEF TodoFits, RetainNamed, Held
<1> QED  BY <1>3, <1>4, TableKept DEF RetainNamed

(* What the port at hand has while the loop polls.                         *)
LEMMA PolledPort ==
  ASSUME Typing, phase = "poll", todo # <<>>
  PROVE  /\ Head(todo) \in Ports /\ receivers[Head(todo)] \in Receivers
         /\ receivers[Head(todo)] # NoRx
         /\ Tail(todo) \in Seq(Ports)
         /\ \A i \in 1..Len(Tail(todo)) : receivers[Tail(todo)[i]] # NoRx /\ Tail(todo)[i] \in Ports
<1> USE TypingParts
<1>1. /\ Head(todo) = todo[1] /\ Head(todo) \in Ports /\ 1 \in 1..Len(todo)
      /\ Tail(todo) \in Seq(Ports)
      /\ \A i \in 1..Len(Tail(todo)) : i + 1 \in 1..Len(todo) /\ Tail(todo)[i] = todo[i + 1]
  BY TailShifts DEF LoopTypes
<1> QED  BY <1>1 DEF LoopTypes, TodoFits

LEMMA TypingYield == Typing /\ YieldEntry => Typing'
<1> SUFFICES ASSUME Typing, YieldEntry PROVE Typing'
  OBVIOUS
<1> USE TypingParts
<1> DEFINE p == Head(todo)
           r == receivers[p]
<1>1. /\ p \in Ports /\ r \in Receivers /\ r # NoRx
  BY PolledPort DEF YieldEntry
<1>2. r.next \in Nat /\ r.next + 1 \in Nat /\ r.gen \in 0..MaxOpens
  BY <1>1, TableAssumption DEF Receivers, Channels
<1>3. receivers' = [receivers EXCEPT ![p] = [r EXCEPT !.next = r.next + 1]]
  BY DEF YieldEntry
<1>4. [r EXCEPT !.next = r.next + 1] \in Receivers /\ [r EXCEPT !.next = r.next + 1] # NoRx
  BY <1>1, <1>2, MovedReceiver
<1>5. LoopTypes'
  <2>1. shown' = [shown EXCEPT ![p] = <<r.gen, r.next + 1>>]
    BY DEF YieldEntry
  <2>2. <<r.gen, r.next + 1>> \in (0..MaxOpens) \X Nat
    BY <1>2
  <2>3. UNCHANGED <<names, phase, todo>>
    BY DEF YieldEntry
  <2> HIDE DEF p, r
  <2> QED  BY <1>1, <1>3, <1>4, <2>1, <2>2, <2>3 DEF LoopTypes
<1>6. TodoFits'
  <2>1. \A q \in Ports : receivers'[q] = NoRx => receivers[q] = NoRx
    BY <1>1, <1>3, <1>4 DEF LoopTypes
  <2>2. \A i \in 1..Len(todo) : todo[i] \in Ports
    BY DEF LoopTypes
  <2> QED  BY <2>1, <2>2 DEF TodoFits, YieldEntry
<1> QED  BY <1>5, <1>6, TableKept DEF YieldEntry

LEMMA TypingNextPort == Typing /\ NextPort => Typing'
<1> SUFFICES ASSUME Typing, NextPort PROVE Typing'
  OBVIOUS
<1> USE TypingParts
<1> DEFINE p == Head(todo)
           r == receivers[p]
<1>1. /\ p \in Ports /\ r \in Receivers /\ r # NoRx /\ Tail(todo) \in Seq(Ports)
      /\ \A i \in 1..Len(Tail(todo)) : receivers[Tail(todo)[i]] # NoRx /\ Tail(todo)[i] \in Ports
  BY PolledPort DEF NextPort
<1>2. \/ receivers' = receivers
      \/ receivers' = [receivers EXCEPT ![p] = [r EXCEPT !.next = Overwritten(SentTo(r))]]
  BY DEF NextPort
<1>3. /\ [r EXCEPT !.next = Overwritten(SentTo(r))] \in Receivers
      /\ [r EXCEPT !.next = Overwritten(SentTo(r))] # NoRx
  BY <1>1, MovedReceiver, EntriesType
<1>4. LoopTypes'
  <2> HIDE DEF p, r
  <2> QED  BY <1>1, <1>2, <1>3 DEF LoopTypes, NextPort
<1>5. TodoFits'
  <2>1. \A q \in Ports : receivers'[q] = NoRx => receivers[q] = NoRx
    BY <1>1, <1>2, <1>3 DEF LoopTypes
  <2> QED  BY <1>1, <2>1 DEF TodoFits, NextPort
<1> QED  BY <1>4, <1>5, TableKept DEF NextPort

LEMMA TypingStep == Typing /\ [Next]_vars => Typing'
<1> SUFFICES ASSUME Typing, [Next]_vars PROVE Typing'
  OBVIOUS
<1>1. CASE NextRound
  BY <1>1, TypingParts, TableKept DEF NextRound, LoopTypes, TodoFits
<1>2. CASE UNCHANGED vars
  BY <1>2, TypingParts, TableKept DEF vars, loopVars, LoopTypes, TodoFits
<1> QED  BY <1>1, <1>2, TypingTable, TypingList, TypingSubscribe, TypingRetain, TypingYield,
            TypingNextPort DEF Next, Loop

(* Every variable of the loop stays in its type, whatever is opened,       *)
(* closed and read meanwhile (monitor.rs:80-121).                          *)
THEOREM TypeCorrect == Spec => []TypeOK
<1>1. Typing => TypeOK
  BY DEF Typing
<1> QED  BY <1>1, TypingInit, TypingStep, PTL DEF Spec

-----------------------------------------------------------------------------
(* What is shown of a port has no holes but those of the ring.             *)

LEMMA WatchInit == Init => Watch
<1> SUFFICES ASSUME Init, NEW p \in Ports PROVE Watched(p)
  BY TypingInit DEF Watch
<1> QED  BY DEF Init, TableInit, Watched, Dead

(* A cursor that the ring has overtaken stays overtaken, and a dead        *)
(* channel stays dead.                                                     *)
LEMMA TableGrows ==
  ASSUME Typing, NEW q \in Ports, TableStep(q), NEW p \in Ports
  PROVE  /\ \A g \in 0..MaxOpens : Dead(p, g) => Dead(p, g)'
         /\ opens[p] <= opens'[p] /\ opens[p] \in Nat /\ opens'[p] \in Nat
         /\ \A g \in Channels : /\ Overwritten(sent[p][g]) <= Overwritten(sent'[p][g])
                                /\ Overwritten(sent[p][g]) \in Nat /\ Overwritten(sent'[p][g]) \in Nat
<1> USE TypingParts
<1>1. TableTyping /\ TableTyping'
  BY TypingTable, TypingParts DEF Typing, TypeOK, TableTyping, TableTypeOK, OpenHasChannel
<1>2. \A s \in Seq(Data) : Len(s) \in Nat /\ Overwritten(s) \in Nat
  BY CapacityAssumption DEF Overwritten
<1>3. \A g \in Channels : sent[p][g] \in Seq(Data) /\ sent'[p][g] \in Seq(Data)
  BY <1>1 DEF TableTyping, TableTypeOK
<1>4. opens[p] \in Nat /\ opens'[p] \in Nat
  BY <1>1, TableAssumption DEF TableTyping, TableTypeOK
<1>5. \A g \in Channels : Overwritten(sent[p][g]) <= Overwritten(sent'[p][g])
  <2>1. CASE sent' = sent
    BY <1>2, <1>3, <2>1
  <2>2. CASE ReadData(q)
    <3>1. PICK d \in Data : sent' = [sent EXCEPT ![q][opens[q]] = Append(@, d)]
      BY <2>2 DEF ReadData
    <3>2. \A s \in Seq(Data) : Len(Append(s, d)) = Len(s) + 1
      OBVIOUS
    <3>3. \A s \in Seq(Data) : Overwritten(s) <= Overwritten(Append(s, d))
      BY <3>2, <1>2, CapacityAssumption DEF Overwritten
    <3>4. \A g \in Channels : sent'[p][g] = sent[p][g] \/ sent'[p][g] = Append(sent[p][g], d)
      BY <3>1, <1>1 DEF TableTyping, TableTypeOK
    <3>5. ASSUME NEW g \in Channels
          PROVE  Overwritten(sent[p][g]) <= Overwritten(sent'[p][g])
      <4>1. sent[p][g] \in Seq(Data) /\ Overwritten(sent[p][g]) \in Nat
        BY <1>2, <1>3
      <4>2. CASE sent'[p][g] = sent[p][g]
        BY <4>1, <4>2
      <4>3. CASE sent'[p][g] = Append(sent[p][g], d)
        BY <3>3, <4>1, <4>3
      <4> QED  BY <3>4, <4>2, <4>3
    <3> QED  BY <3>5
  <2> QED  BY <2>1, <2>2 DEF TableStep, OpenStream, RemovePort, ReadTask, ReadFailed, ReaderAborted
<1>6. \/ opens'[p] = opens[p] /\ (inMap'[p] => inMap[p])
      \/ opens'[p] = opens[p] + 1 /\ ~inMap[p]
  BY <1>1 DEF TableTyping, TableTypeOK, TableStep, OpenStream, RemovePort, ReadTask, ReadData,
              ReadFailed, ReaderAborted
<1>7. \A g \in 0..MaxOpens : Dead(p, g) => Dead(p, g)'
  BY <1>4, <1>6, TableAssumption DEF Dead
<1> QED  BY <1>2, <1>3, <1>4, <1>5, <1>6, <1>7

LEMMA WatchTable ==
  ASSUME Typing, NEW q \in Ports, TableStep(q), NEW p \in Ports, Watched(p)
  PROVE  Watched(p)'
<1> DEFINE r == receivers[p]
           e == shown[p]
<1>1. UNCHANGED loopVars
  BY DEF TableStep
<1>2. e \in (0..MaxOpens) \X Nat /\ r \in Receivers \cup {NoRx}
  BY TypingParts DEF LoopTypes
<1>3. r # NoRx => r.gen \in Channels /\ r.gen \in 0..MaxOpens /\ r.next \in Nat
  BY <1>2, TableAssumption DEF Receivers, Channels
<1>4. r # NoRx => Listening(p, r, e)'
  BY <1>1, <1>2, <1>3, TableGrows DEF Watched, Listening, loopVars
<1>5. r = NoRx => Dead(p, e[1])'
  <2>1. e[1] \in 0..MaxOpens
    BY <1>2
  <2> QED  BY <1>1, <2>1, TableGrows DEF Watched, Dead, loopVars
<1>6. phase = "subscribe" /\ p \notin names /\ r # NoRx => Dead(p, r.gen)'
  BY <1>1, <1>3, TableGrows DEF Watched, Dead, loopVars
<1> QED  BY <1>1, <1>4, <1>5, <1>6 DEF Watched, loopVars

(* What Watched says in a state with the same table and the same history.  *)
LEMMA WatchedStays ==
  ASSUME Typing, NEW p \in Ports, UNCHANGED <<tableVars, shown>>, receivers'[p] = receivers[p],
         Watched(p), phase' = "subscribe" => UNCHANGED <<phase, names>>
  PROVE  Watched(p)'
BY DEF Watched, Listening, Dead, tableVars

(* The names are those of the map: what is not among them is closed.       *)
LEMMA WatchList ==
  ASSUME Typing, ListPorts, NEW p \in Ports, Watched(p)
  PROVE  Watched(p)'
<1>1. receivers[p] # NoRx => receivers[p].gen <= opens[p] /\ receivers[p].gen \in Nat /\ opens[p] \in Nat
  BY TypingParts, TableAssumption
     DEF Watched, Listening, LoopTypes, Receivers, Channels, TableTyping, TableTypeOK
<1>2. p \notin names' => ~inMap[p]
  BY DEF ListPorts
<1> QED  BY <1>1, <1>2 DEF ListPorts, Watched, Listening, Dead, tableVars

(* The new receiver is of a channel that nothing was shown of.             *)
LEMMA WatchSubscribe ==
  ASSUME Typing, SubscribeNext, NEW p \in Ports, Watched(p)
  PROVE  Watched(p)'
<1>1. CASE receivers'[p] = receivers[p]
  BY <1>1, WatchedStays DEF SubscribeNext
<1>2. CASE receivers'[p] # receivers[p]
  <2>1. /\ Head(todo) = todo[1] /\ Head(todo) \in Ports /\ 1 \in 1..Len(todo)
    BY TypingParts, TailShifts DEF LoopTypes, SubscribeNext
  <2>2. p = Head(todo) /\ inMap[p] /\ receivers'[p] = Subscribe(p)
    BY <1>2, <2>1, TypingParts DEF SubscribeNext, LoopTypes
  <2>3. receivers[p] = NoRx /\ p \in names
    BY <2>1, <2>2 DEF Typing, TodoFits, SubscribeNext
  <2>4. shown[p][1] < opens[p]
    BY <2>2, <2>3 DEF Watched, Dead
  <2>5. Subscribe(p) # NoRx
    BY <2>2, SubscribeType, TypingParts
  <2>6. opens[p] \in Nat
    BY TypingParts, TableAssumption DEF TableTyping, TableTypeOK
  <2>7. UNCHANGED <<tableVars, names, phase, shown>>
    BY DEF SubscribeNext
  <2> QED  BY <2>2, <2>3, <2>4, <2>5, <2>6, <2>7 DEF Watched, Listening, Subscribe, tableVars
<1> QED  BY <1>1, <1>2

(* What the loop drops is of a dead channel.                               *)
LEMMA WatchRetain ==
  ASSUME Typing, RetainNamed, NEW p \in Ports, Watched(p)
  PROVE  Watched(p)'
<1>1. CASE p \in names \/ receivers[p] = NoRx
  <2>1. receivers'[p] = receivers[p]
    BY <1>1, TypingParts DEF RetainNamed, Retained, LoopTypes
  <2>2. phase' # "subscribe"
    BY DEF RetainNamed
  <2> QED  BY <2>1, <2>2, WatchedStays DEF RetainNamed
<1>2. CASE p \notin names /\ receivers[p] # NoRx
  <2>1. receivers'[p] = NoRx /\ phase' # "subscribe"
    BY <1>2 DEF RetainNamed, Retained
  <2>2. Dead(p, receivers[p].gen) /\ shown[p][1] <= receivers[p].gen
    <3>1. receivers[p].gen \in Nat /\ shown[p][1] \in Nat
      BY <1>2, TypingParts, TableAssumption DEF LoopTypes, Receivers, Channels
    <3> QED  BY <1>2, <3>1 DEF Watched, Listening, RetainNamed
  <2>3. Dead(p, shown[p][1])
    <3>1. receivers[p].gen \in Nat /\ shown[p][1] \in Nat
      BY <1>2, TypingParts, TableAssumption DEF LoopTypes, Receivers, Channels
    <3>2. opens[p] \in Nat
      BY TypingParts, TableAssumption DEF TableTyping, TableTypeOK
    <3> QED  BY <2>2, <3>1, <3>2 DEF Dead
  <2>4. UNCHANGED <<tableVars, shown>>
    BY DEF RetainNamed
  <2> QED  BY <2>1, <2>3, <2>4 DEF Watched, Dead, tableVars
<1> QED  BY <1>1, <1>2

(* What is yielded follows what was yielded before, and is now the last.   *)
LEMMA WatchYield ==
  ASSUME Typing, YieldEntry, NEW p \in Ports, Watched(p)
  PROVE  Watched(p)' /\ (shown'[p] # shown[p] => Follows(p, shown[p], shown'[p]))
<1> DEFINE h == Head(todo)
           r == receivers[h]
           moved == [r EXCEPT !.next = r.next + 1]
<1>1. h \in Ports /\ r \in Receivers /\ r # NoRx
  BY PolledPort DEF YieldEntry
<1>2. r.next \in Nat /\ r.next + 1 \in Nat /\ r.gen \in Nat /\ r.gen \in Channels
  BY <1>1, TableAssumption DEF Receivers, Channels
<1>3. /\ receivers' = [receivers EXCEPT ![h] = moved]
      /\ shown' = [shown EXCEPT ![h] = <<r.gen, r.next + 1>>]
      /\ UNCHANGED <<tableVars, phase>> /\ phase = "poll"
  BY DEF YieldEntry
<1>4. CASE p # h
  <2>1. receivers'[p] = receivers[p] /\ shown'[p] = shown[p]
    BY <1>3, <1>4, TypingParts DEF LoopTypes
  <2> QED  BY <1>3, <2>1 DEF Watched, Listening, Dead, tableVars
<1>5. CASE p = h
  <2>1. receivers'[p] = moved /\ shown'[p] = <<r.gen, r.next + 1>>
    BY <1>1, <1>3, <1>5, TypingParts DEF LoopTypes
  <2>2. moved # NoRx /\ moved.port = r.port /\ moved.gen = r.gen /\ moved.next = r.next + 1
    BY <1>1, <1>2, MovedReceiver
  <2>3. Listening(p, r, shown[p])
    BY <1>1, <1>5 DEF Watched
  <2>4. shown[p][1] \in Nat /\ shown[p][2] \in Nat /\ Overwritten(sent[p][r.gen]) \in Nat
    <3>1. shown[p] \in (0..MaxOpens) \X Nat
      BY TypingParts DEF LoopTypes
    <3>2. r.port = p
      BY <2>3 DEF Listening
    <3>3. SentTo(r) = sent[p][r.gen]
      BY <3>2 DEF SentTo
    <3>4. Overwritten(SentTo(r)) \in Nat
      BY <1>1, EntriesType, TypingParts
    <3> QED  BY <3>1, <3>3, <3>4, TableAssumption
  <2>5. Follows(p, shown[p], <<r.gen, r.next + 1>>)
    <3> HIDE DEF r, h
    <3> QED  BY <1>2, <2>3, <2>4 DEF Follows, Listening
  <2>6. opens'[p] = opens[p]
    BY <1>3 DEF tableVars
  <2>7. Listening(p, receivers[p], shown[p])'
    <3>1. moved.port = p /\ moved.gen <= opens'[p]
      BY <2>2, <2>3, <2>6 DEF Listening
    <3>2. r.next + 1 <= r.next + 1
      BY <1>2
    <3> HIDE DEF r, h, moved
    <3> QED  BY <1>2, <2>1, <2>2, <3>1, <3>2 DEF Listening
  <2>8. receivers'[p] # NoRx /\ phase' # "subscribe"
    BY <1>3, <2>1, <2>2
  <2> QED  BY <2>1, <2>5, <2>7, <2>8 DEF Watched
<1> QED  BY <1>4, <1>5

(* A cursor moves without an entry only to what the ring has left.         *)
LEMMA WatchNextPort ==
  ASSUME Typing, NextPort, NEW p \in Ports, Watched(p)
  PROVE  Watched(p)'
<1> DEFINE h == Head(todo)
           r == receivers[h]
           moved == [r EXCEPT !.next = Overwritten(SentTo(r))]
<1>1. h \in Ports /\ r \in Receivers /\ r # NoRx
  BY PolledPort DEF NextPort
<1>2. /\ \/ receivers' = receivers
         \/ receivers' = [receivers EXCEPT ![h] = moved] /\ Lagged(SentTo(r), r.next)
      /\ UNCHANGED <<tableVars, phase, shown>> /\ phase = "poll"
  <2>1. CASE Lagged(SentTo(r), r.next)
    BY <2>1 DEF NextPort
  <2>2. CASE ~Lagged(SentTo(r), r.next)
    BY <2>2 DEF NextPort
  <2> QED  BY <2>1, <2>2
<1>3. CASE receivers'[p] = receivers[p]
  BY <1>2, <1>3, WatchedStays
<1>4. CASE receivers'[p] # receivers[p]
  <2>1. p = h /\ receivers'[p] = moved /\ Lagged(SentTo(r), r.next)
    BY <1>1, <1>2, <1>4, TypingParts DEF LoopTypes
  <2>2. Overwritten(SentTo(r)) \in Nat /\ r.next \in Nat /\ r.gen \in Nat
    BY <1>1, EntriesType, TypingParts, TableAssumption DEF Receivers, Channels
  <2>3. moved # NoRx /\ moved.port = r.port /\ moved.gen = r.gen /\ moved.next = Overwritten(SentTo(r))
    BY <1>1, <2>2, MovedReceiver
  <2>4. Listening(p, r, shown[p]) /\ SentTo(r) = sent[p][r.gen]
    BY <1>1, <2>1 DEF Watched, Listening, SentTo
  <2>5. shown[p][1] \in Nat /\ shown[p][2] \in Nat
    <3>1. shown[p] \in (0..MaxOpens) \X Nat
      BY TypingParts DEF LoopTypes
    <3> QED  BY <3>1, TableAssumption
  <2>6. Listening(p, moved, shown[p])
    <3> HIDE DEF r, h, moved
    <3> QED  BY <2>1, <2>2, <2>3, <2>4, <2>5 DEF Listening, Lagged
  <2>7. Listening(p, receivers[p], shown[p])'
    <3> HIDE DEF r, h, moved
    <3> QED  BY <1>2, <2>1, <2>6 DEF Listening, tableVars
  <2>8. receivers'[p] # NoRx /\ phase' # "subscribe"
    BY <1>2, <2>1, <2>3
  <2> QED  BY <2>7, <2>8 DEF Watched
<1> QED  BY <1>3, <1>4

LEMMA WatchStep == Watch /\ [Next]_vars => Watch' /\ (\A p \in Ports : shown'[p] # shown[p] => Follows(p, shown[p], shown'[p]))
<1> SUFFICES ASSUME Watch, [Next]_vars, NEW p \in Ports
             PROVE  Watched(p)' /\ (shown'[p] # shown[p] => Follows(p, shown[p], shown'[p]))
  BY TypingStep DEF Watch
<1>1. Typing /\ Watched(p)
  BY DEF Watch
<1>2. CASE YieldEntry
  BY <1>1, <1>2, WatchYield
<1>3. CASE ~YieldEntry
  <2>1. shown' = shown
    BY <1>3 DEF Next, Loop, ListPorts, SubscribeNext, RetainNamed, NextPort, NextRound, TableStep,
                loopVars, vars
  <2>2. CASE NextRound \/ UNCHANGED vars
    BY <1>1, <2>2, WatchedStays DEF NextRound, vars, loopVars
  <2> QED  BY <1>1, <1>3, <2>1, <2>2, WatchTable, WatchList, WatchSubscribe, WatchRetain, WatchNextPort
              DEF Next, Loop
<1> QED  BY <1>2, <1>3

(* An event of a port follows the one before it: in order, none twice, and *)
(* what is missing between them was overwritten in the ring or came on a   *)
(* channel that the loop had left for good (monitor.rs:88-117).            *)
THEOREM EventsWithoutHoles == Spec => ShownWithoutHoles
<1>1. Watch /\ [Next]_vars => [\A p \in Ports : shown'[p] # shown[p] => Follows(p, shown[p], shown'[p])]_vars
  BY WatchStep
<1>2. Watch /\ [Next]_vars => Watch'
  BY WatchStep
<1> QED  BY <1>1, <1>2, WatchInit, PTL DEF Spec, ShownWithoutHoles
=============================================================================
