------------------------------ MODULE RxSession ------------------------------
(***************************************************************************)
(* One connection of the daemon (handle_client and dispatch in daemon.rs): *)
(* the handler task with its ClientSession, and the stream task that       *)
(* pushes rx_data and filter_hit.  The two share a bounded command queue   *)
(* and nothing else.  The other connections meet this one in the port      *)
(* table only: they open and close ports.                                  *)
(*                                                                         *)
(* pc names the stretch, from one await to the next, that the handler has  *)
(* reached; phase names the part of its loop that the stream task is in.   *)
(* Entries are identified by their number in their channel.                *)
(***************************************************************************)
EXTENDS PortTable, SequencesExt

CONSTANTS
  Keywords,       \* filter keywords
  MaxBuffer,      \* MAX_BUFFER_ENTRIES
  QueueCapacity,  \* mpsc::channel(16)
  Requested       \* bound: the commands that the client sends

AllRequests == {"open_port", "close_port", "subscribe_rx", "unsubscribe_rx", "filter_rx",
                "add_filter_rx", "unfilter_rx", "read_port"}

ASSUME SessionAssumption ==
  /\ IsFiniteSet(Ports)
  /\ MaxBuffer \in Nat \ {0}
  /\ QueueCapacity \in Nat \ {0}
  /\ Requested \subseteq AllRequests

Stretches == AllRequests \cup
  {"idle", "open_ensure", "sending", "close_sending", "subscribe_grab", "filter_grab", "read_ensure"}

KeywordSets == (SUBSET Keywords) \ {{}}
NoFilter == {}

(* RxSubCommand; rx and keywords are those of the variants that have them. *)
StreamCommands ==
  [op : {"Subscribe", "Unsubscribe", "AddFilter", "RemoveFilter", "SetFilterKeywords"},
   port : Ports, rx : Receivers \cup {NoRx}, keywords : SUBSET Keywords]

Command(op, p) == [op |-> op, port |-> p, rx |-> NoRx, keywords |-> NoFilter]

VARIABLES
  conn,           \* "up"; "eof": client gone; "error": handle_client left through `?`
  pc, portArg, keywordsArg,       \* the handler's stretch and arguments
  receivers,      \* receivers[p]: session.receivers
  buffers,        \* buffers[p]: session.buffers, numbers of entries of the receiver's channel
  rxSubscriptions,        \* session.rx_subscriptions
  filterSubscriptions,    \* filterSubscriptions[p]: keywords, or NoFilter
  outbox,         \* commands that the handler has yet to send
  queue,          \* the mpsc queue
  phase, todo,    \* the stream task: part of the loop, ports left in this part
  rxTaps,         \* rxTaps[p]: rx_receivers
  filterTaps, filterKeywords      \* filter_states

sessionVars == <<receivers, buffers, rxSubscriptions, filterSubscriptions>>
handlerVars == <<pc, portArg, keywordsArg>>
tapVars == <<rxTaps, filterTaps, filterKeywords>>
streamVars == <<phase, todo, tapVars>>
vars == <<tableVars, conn, handlerVars, sessionVars, outbox, queue, streamVars>>

TypeOK ==
  /\ TableTypeOK
  /\ conn \in {"up", "eof", "error"}
  /\ pc \in Stretches /\ portArg \in Ports /\ keywordsArg \in KeywordSets
  /\ receivers \in [Ports -> Receivers \cup {NoRx}]
  /\ buffers \in [Ports -> Seq(Nat)]
  /\ rxSubscriptions \subseteq Ports
  /\ filterSubscriptions \in [Ports -> SUBSET Keywords]
  /\ outbox \in Seq(StreamCommands)
  /\ queue \in Seq(StreamCommands) /\ Len(queue) <= QueueCapacity
  /\ phase \in {"commands", "rx", "filter", "dead"}
  /\ todo \in Seq(Ports)
  /\ rxTaps \in [Ports -> Receivers \cup {NoRx}]
  /\ filterTaps \in [Ports -> Receivers \cup {NoRx}]
  /\ filterKeywords \in [Ports -> SUBSET Keywords]

Init ==
  /\ TableInit
  /\ conn = "up"
  /\ pc = "idle" /\ portArg \in Ports /\ keywordsArg \in KeywordSets
  /\ receivers = [p \in Ports |-> NoRx]
  /\ buffers = [p \in Ports |-> <<>>]
  /\ rxSubscriptions = {}
  /\ filterSubscriptions = [p \in Ports |-> NoFilter]
  /\ outbox = <<>> /\ queue = <<>>
  /\ phase = "commands" /\ todo = <<>>
  /\ rxTaps = [p \in Ports |-> NoRx]
  /\ filterTaps = [p \in Ports |-> NoRx]
  /\ filterKeywords = [p \in Ports |-> NoFilter]

-----------------------------------------------------------------------------
(* Requests and the end of the connection.                                 *)

(* The stream task has ended: its maps and its end of the queue are gone.  *)
StreamDies ==
  /\ phase' = "dead" /\ todo' = <<>> /\ queue' = <<>>
  /\ rxTaps' = [p \in Ports |-> NoRx]
  /\ filterTaps' = [p \in Ports |-> NoRx]
  /\ filterKeywords' = [p \in Ports |-> NoFilter]

(* A line has arrived.  Arguments that fail to parse are answered without  *)
(* any effect.                                                             *)
Request ==
  /\ pc = "idle" /\ conn = "up"
  /\ pc' \in Requested /\ portArg' \in Ports
  /\ keywordsArg' \in KeywordSets
  /\ pc' \notin {"filter_rx", "add_filter_rx"} => UNCHANGED keywordsArg
  /\ UNCHANGED <<tableVars, conn, sessionVars, outbox, queue, streamVars>>

(* next_line() returned None: abort() asks both tasks to end.              *)
Eof ==
  /\ pc = "idle" /\ conn = "up"
  /\ conn' = "eof"
  /\ UNCHANGED <<tableVars, handlerVars, sessionVars, outbox, queue, streamVars>>

(* next_line() or write_all() of the reply failed: handle_client returns   *)
(* through `?` and the tasks live on, with the queue closed.               *)
SessionError ==
  /\ pc = "idle" /\ conn = "up"
  /\ conn' = "error"
  /\ UNCHANGED <<tableVars, handlerVars, sessionVars, outbox, queue, streamVars>>

Reply == pc' = "idle" /\ UNCHANGED <<portArg, keywordsArg>>
Goto(stretch) == pc' = stretch /\ UNCHANGED <<portArg, keywordsArg>>
Send(commands) == outbox' = commands

(* rx_cmd_tx.send().await waits while the queue is full; it returns an     *)
(* error at once when the stream task has ended.                           *)
EnqueueForever(m) == Len(queue) < QueueCapacity /\ queue' = Append(queue, m)

EnqueueOrDrop(m) ==
  IF phase = "dead" \/ Len(queue) = QueueCapacity
    THEN UNCHANGED queue
    ELSE queue' = Append(queue, m)

Enqueue(m) ==
  IF phase = "dead"
    THEN UNCHANGED queue
    ELSE Len(queue) < QueueCapacity /\ queue' = Append(queue, m)

SendCommand ==
  /\ outbox # <<>>
  /\ Enqueue(Head(outbox))
  /\ outbox' = Tail(outbox)
  /\ UNCHANGED <<tableVars, conn, handlerVars, sessionVars, streamVars>>

Sent ==
  /\ pc = "sending" /\ outbox = <<>>
  /\ Reply
  /\ UNCHANGED <<tableVars, conn, sessionVars, outbox, queue, streamVars>>

-----------------------------------------------------------------------------
(* open_port, close_port.                                                  *)

OpenPort ==
  /\ pc = "open_port"
  /\ \/ OpenStream(portArg) /\ Goto("open_ensure")
     \/ UNCHANGED tableVars /\ Reply
  /\ UNCHANGED <<conn, sessionVars, outbox, queue, streamVars>>

(* ensure_subscribed: nothing changes for a port that has a receiver, of   *)
(* whatever channel.                                                       *)
EnsuredReceiver(p) ==
  IF receivers[p] = NoRx /\ inMap[p] THEN Subscribe(p) ELSE receivers[p]

OpenEnsure ==
  /\ pc = "open_ensure"
  /\ receivers' = [receivers EXCEPT ![portArg] = EnsuredReceiver(portArg)]
  /\ Reply
  /\ UNCHANGED <<tableVars, conn, buffers, rxSubscriptions, filterSubscriptions, outbox, queue,
                 streamVars>>

(* The part of close_port after stop_log_internal; the commands to send    *)
(* when it succeeds.                                                       *)
ClosingFilterOnly(p) ==
  IF filterSubscriptions[p] # NoFilter THEN <<Command("RemoveFilter", p)>> ELSE <<>>

ClosingCommands(p) ==
  (IF p \in rxSubscriptions THEN <<Command("Unsubscribe", p)>> ELSE <<>>)
    \o (IF filterSubscriptions[p] # NoFilter THEN <<Command("RemoveFilter", p)>> ELSE <<>>)

ClosePort ==
  /\ pc = "close_port"
  /\ IF inMap[portArg]
       THEN RemovePort(portArg) /\ Goto("close_sending") /\ Send(ClosingCommands(portArg))
       ELSE UNCHANGED <<tableVars, outbox>> /\ Reply
  /\ UNCHANGED <<conn, sessionVars, queue, streamVars>>

(* on_port_closed, after the sends.                                        *)
CloseFinish ==
  /\ pc = "close_sending" /\ outbox = <<>>
  /\ receivers' = [receivers EXCEPT ![portArg] = NoRx]
  /\ buffers' = [buffers EXCEPT ![portArg] = <<>>]
  /\ rxSubscriptions' = rxSubscriptions \ {portArg}
  /\ filterSubscriptions' = [filterSubscriptions EXCEPT ![portArg] = NoFilter]
  /\ Reply
  /\ UNCHANGED <<tableVars, conn, outbox, queue, streamVars>>

-----------------------------------------------------------------------------
(* subscribe_rx, unsubscribe_rx.                                           *)

SubscribeCheck ==
  /\ pc = "subscribe_rx"
  /\ portArg \notin rxSubscriptions
  /\ IF inMap[portArg] THEN Goto("subscribe_grab") ELSE Reply
  /\ UNCHANGED <<tableVars, conn, sessionVars, outbox, queue, streamVars>>

(* Either the port is not open or it is "already subscribed".              *)
SubscribeRefused ==
  /\ pc = "subscribe_rx"
  /\ portArg \in rxSubscriptions
  /\ Reply
  /\ UNCHANGED <<tableVars, conn, sessionVars, outbox, queue, streamVars>>

SubscribeGrab ==
  /\ pc = "subscribe_grab"
  /\ IF inMap[portArg]
       THEN /\ rxSubscriptions' = rxSubscriptions \cup {portArg}
            /\ Send(<<[Command("Subscribe", portArg) EXCEPT !.rx = Subscribe(portArg)]>>)
            /\ Goto("sending")
       ELSE Reply /\ UNCHANGED <<rxSubscriptions, outbox>>
  /\ UNCHANGED <<tableVars, conn, receivers, buffers, filterSubscriptions, queue, streamVars>>

Unsubscribe ==
  /\ pc = "unsubscribe_rx"
  /\ IF portArg \in rxSubscriptions
       THEN Send(<<Command("Unsubscribe", portArg)>>) /\ Goto("sending")
       ELSE Reply /\ UNCHANGED outbox
  /\ rxSubscriptions' = rxSubscriptions \ {portArg}
  /\ UNCHANGED <<tableVars, conn, receivers, buffers, filterSubscriptions, queue, streamVars>>

-----------------------------------------------------------------------------
(* filter_rx, add_filter_rx, unfilter_rx.                                  *)

(* The cases of both commands that go on to subscribe.                     *)
FilterCheck ==
  /\ pc = "filter_rx" \/ (pc = "add_filter_rx" /\ filterSubscriptions[portArg] = NoFilter)
  /\ IF inMap[portArg] THEN Goto("filter_grab") ELSE Reply
  /\ UNCHANGED <<tableVars, conn, sessionVars, outbox, queue, streamVars>>

FilterGrab ==
  /\ pc = "filter_grab"
  /\ IF inMap[portArg]
       THEN /\ filterSubscriptions' = [filterSubscriptions EXCEPT ![portArg] = keywordsArg]
            /\ Send(<<[Command("AddFilter", portArg) EXCEPT !.rx = Subscribe(portArg),
                                                            !.keywords = keywordsArg]>>)
            /\ Goto("sending")
       ELSE Reply /\ UNCHANGED <<filterSubscriptions, outbox>>
  /\ UNCHANGED <<tableVars, conn, receivers, buffers, rxSubscriptions, queue, streamVars>>

(* add_filter_rx of a port that the session holds a filter for: the new    *)
(* keywords join the old ones, and the stream task is sent all of them.    *)
MergedAlone(p) == keywordsArg

Merged(p) == filterSubscriptions[p] \cup keywordsArg

FilterExtend ==
  /\ pc = "add_filter_rx" /\ inMap[portArg] /\ filterSubscriptions[portArg] # NoFilter
  /\ filterSubscriptions' = [filterSubscriptions EXCEPT ![portArg] = @ \cup keywordsArg]
  /\ Send(<<[Command("SetFilterKeywords", portArg) EXCEPT !.keywords = Merged(portArg)]>>)
  /\ Goto("sending")
  /\ UNCHANGED <<tableVars, conn, receivers, buffers, rxSubscriptions, queue, streamVars>>

FilterExtendRefused ==
  /\ pc = "add_filter_rx" /\ ~inMap[portArg] /\ filterSubscriptions[portArg] # NoFilter
  /\ Reply
  /\ UNCHANGED <<tableVars, conn, sessionVars, outbox, queue, streamVars>>

Unfilter ==
  /\ pc = "unfilter_rx"
  /\ IF filterSubscriptions[portArg] # NoFilter
       THEN Send(<<Command("RemoveFilter", portArg)>>) /\ Goto("sending")
       ELSE Reply /\ UNCHANGED outbox
  /\ filterSubscriptions' = [filterSubscriptions EXCEPT ![portArg] = NoFilter]
  /\ UNCHANGED <<tableVars, conn, receivers, buffers, rxSubscriptions, queue, streamVars>>

-----------------------------------------------------------------------------
(* read_port.                                                              *)

ReadCheck ==
  /\ pc = "read_port"
  /\ IF inMap[portArg] THEN Goto("read_ensure") ELSE Reply
  /\ UNCHANGED <<tableVars, conn, sessionVars, outbox, queue, streamVars>>

SentTo(r) == sent[r.port][r.gen]

(* drain_receiver: everything the receiver still gets goes to the buffer,  *)
(* the oldest entries leave it.  The loop ends at the first error, and a   *)
(* Lagged is one.                                                          *)
DrainedNext(r) == IF Lagged(SentTo(r), r.next) THEN Overwritten(SentTo(r)) ELSE Len(SentTo(r))

KeptOldest(s) == IF Len(s) <= MaxBuffer THEN s ELSE SubSeq(s, 1, MaxBuffer)

Newest(s) == IF Len(s) <= MaxBuffer THEN s ELSE SubSeq(s, Len(s) - MaxBuffer + 1, Len(s))

DrainedBuffer(r, b) ==
  IF Lagged(SentTo(r), r.next) THEN b
  ELSE Newest(b \o [i \in 1..(Len(SentTo(r)) - r.next) |-> r.next + i])

(* ensure_subscribed, drain_receiver and the reply with the whole buffer,  *)
(* which is cleared unless the request says otherwise.                     *)
ReadPort ==
  /\ pc = "read_ensure"
  /\ LET r == EnsuredReceiver(portArg)
     IN  \/ /\ r # NoRx
            /\ receivers' = [receivers EXCEPT ![portArg] = [r EXCEPT !.next = DrainedNext(r)]]
            /\ \E clear \in BOOLEAN :
                 buffers' = [buffers EXCEPT ![portArg] =
                               IF clear THEN <<>> ELSE DrainedBuffer(r, @)]
         \/ /\ r = NoRx
            /\ UNCHANGED <<receivers, buffers>>
  /\ Reply
  /\ UNCHANGED <<tableVars, conn, rxSubscriptions, filterSubscriptions, outbox, queue, streamVars>>

Handler ==
  \/ SendCommand \/ Sent
  \/ OpenPort \/ OpenEnsure \/ ClosePort \/ CloseFinish
  \/ SubscribeCheck \/ SubscribeRefused \/ SubscribeGrab \/ Unsubscribe
  \/ FilterCheck \/ FilterGrab \/ FilterExtend \/ FilterExtendRefused \/ Unfilter
  \/ ReadCheck \/ ReadPort

-----------------------------------------------------------------------------
(* The stream task.                                                        *)

(* apply_cmd!, for the head of the queue.  New keywords for a filter that  *)
(* is not there are ignored.                                               *)
ApplyCommand ==
  /\ phase = "commands" /\ queue # <<>>
  /\ LET m == Head(queue)
     IN  \/ /\ m.op \in {"Subscribe", "Unsubscribe"}
            /\ rxTaps' = [rxTaps EXCEPT ![m.port] = m.rx]
            /\ UNCHANGED <<filterTaps, filterKeywords>>
         \/ /\ m.op \in {"AddFilter", "RemoveFilter"}
            /\ filterTaps' = [filterTaps EXCEPT ![m.port] = m.rx]
            /\ filterKeywords' = [filterKeywords EXCEPT ![m.port] = m.keywords]
            /\ UNCHANGED rxTaps
         \/ /\ m.op = "SetFilterKeywords"
            /\ IF filterTaps[m.port] # NoRx
                 THEN filterKeywords' = [filterKeywords EXCEPT ![m.port] = m.keywords]
                 ELSE UNCHANGED filterKeywords
            /\ UNCHANGED <<rxTaps, filterTaps>>
  /\ queue' = Tail(queue)
  /\ UNCHANGED <<tableVars, conn, handlerVars, sessionVars, outbox, phase, todo>>

(* An aborted task runs on until it next yields.                           *)
StreamAborted ==
  /\ conn = "eof" /\ phase # "dead"
  /\ StreamDies
  /\ UNCHANGED <<tableVars, conn, handlerVars, sessionVars, outbox>>

Tapped(taps) == {p \in Ports : taps[p] # NoRx}

(* The maps are iterated in no particular order.                           *)
BeginRx ==
  /\ phase = "commands" /\ queue = <<>>
  /\ Tapped(rxTaps) \cup Tapped(filterTaps) # {}
  /\ phase' = "rx"
  /\ todo' \in SetToSeqs(Tapped(rxTaps))
  /\ UNCHANGED <<tableVars, conn, handlerVars, sessionVars, outbox, queue, tapVars>>

(* recv() returned None: no taps, no commands, and the handler is gone.    *)
StreamEnds ==
  /\ phase = "commands" /\ queue = <<>> /\ conn # "up"
  /\ Tapped(rxTaps) \cup Tapped(filterTaps) = {}
  /\ StreamDies
  /\ UNCHANGED <<tableVars, conn, handlerVars, sessionVars, outbox>>

BeginFilter ==
  /\ phase = "rx" /\ todo = <<>>
  /\ phase' = "filter"
  /\ todo' \in SetToSeqs(Tapped(filterTaps))
  /\ UNCHANGED <<tableVars, conn, handlerVars, sessionVars, outbox, queue, tapVars>>

BeginCommands ==
  /\ phase = "filter" /\ todo = <<>>
  /\ phase' = "commands"
  /\ UNCHANGED <<tableVars, conn, handlerVars, sessionVars, outbox, queue, todo, tapVars>>

(* One try_recv() on the tap of the port at the head of todo.              *)
PastKept(r) == IF Lagged(SentTo(r), r.next) THEN Len(SentTo(r)) ELSE r.next + 1

NextAfterPoll(r) ==
  IF Lagged(SentTo(r), r.next) THEN Overwritten(SentTo(r)) ELSE r.next + 1

PollValue(taps, p) ==
  /\ todo # <<>> /\ p = Head(todo)
  /\ HasValue(SentTo(taps[p]), taps[p].next)

PollLagged(taps, p) ==
  /\ todo # <<>> /\ p = Head(todo)
  /\ Lagged(SentTo(taps[p]), taps[p].next)

PollEnd(taps, p) ==
  /\ todo # <<>> /\ p = Head(todo)
  /\ CaughtUp(SentTo(taps[p]), taps[p].next)

Advanced(taps, p) == [taps EXCEPT ![p].next = NextAfterPoll(taps[p])]

(* An entry: rx_data is written to the socket.                             *)
PushRx(p) ==
  /\ phase = "rx" /\ PollValue(rxTaps, p)
  /\ rxTaps' = Advanced(rxTaps, p)
  /\ UNCHANGED <<tableVars, conn, handlerVars, sessionVars, outbox, queue, phase, todo,
                 filterTaps, filterKeywords>>

(* An entry: a filter_hit is written for each keyword found in it.         *)
CheckFilter(p) ==
  /\ phase = "filter" /\ PollValue(filterTaps, p)
  /\ filterTaps' = Advanced(filterTaps, p)
  /\ UNCHANGED <<tableVars, conn, handlerVars, sessionVars, outbox, queue, phase, todo,
                 rxTaps, filterKeywords>>

(* The socket is dead: the task returns.                                   *)
WriteFails(p) ==
  /\ \/ phase = "rx" /\ PollValue(rxTaps, p)
     \/ phase = "filter" /\ PollValue(filterTaps, p)
  /\ StreamDies
  /\ UNCHANGED <<tableVars, conn, handlerVars, sessionVars, outbox>>

SkipLost(p) ==
  /\ \/ /\ phase = "rx" /\ PollLagged(rxTaps, p)
        /\ rxTaps' = Advanced(rxTaps, p) /\ UNCHANGED filterTaps
     \/ /\ phase = "filter" /\ PollLagged(filterTaps, p)
        /\ filterTaps' = Advanced(filterTaps, p) /\ UNCHANGED rxTaps
  /\ UNCHANGED <<tableVars, conn, handlerVars, sessionVars, outbox, queue, phase, todo,
                 filterKeywords>>

(* Empty: on to the next port.  Closed: the tap is dropped as well.        *)
TapKept(taps, p) == taps

DroppedAtAnyEnd(taps, p) == [taps EXCEPT ![p] = NoRx]

AfterEnd(taps, p) ==
  IF ChannelClosed(p, taps[p].gen) THEN [taps EXCEPT ![p] = NoRx] ELSE taps

PollDone(p) ==
  /\ \/ /\ phase = "rx" /\ PollEnd(rxTaps, p)
        /\ rxTaps' = AfterEnd(rxTaps, p) /\ UNCHANGED <<filterTaps, filterKeywords>>
     \/ /\ phase = "filter" /\ PollEnd(filterTaps, p)
        /\ filterTaps' = AfterEnd(filterTaps, p)
        /\ filterKeywords' = [filterKeywords EXCEPT ![p] = IF filterTaps'[p] = NoRx THEN NoFilter ELSE @]
        /\ UNCHANGED rxTaps
  /\ todo' = Tail(todo)
  /\ UNCHANGED <<tableVars, conn, handlerVars, sessionVars, outbox, queue, phase>>

StreamTask ==
  \/ ApplyCommand \/ BeginRx \/ BeginFilter \/ BeginCommands \/ StreamEnds
  \/ \E p \in Ports : PushRx(p) \/ CheckFilter(p) \/ SkipLost(p) \/ PollDone(p)

-----------------------------------------------------------------------------
(* The port table, as the other connections and the devices change it.     *)

connectionVars == <<conn, handlerVars, sessionVars, outbox, queue, streamVars>>

OtherOpens(p) == OpenStream(p) /\ UNCHANGED connectionVars
OtherCloses(p) == RemovePort(p) /\ UNCHANGED connectionVars
ReadStep(p) == ReadTask(p) /\ UNCHANGED connectionVars
AbortedReaderEnds(p) == ReaderAborted(p) /\ UNCHANGED connectionVars

Next ==
  \/ Request \/ Eof \/ SessionError
  \/ Handler
  \/ StreamTask \/ StreamAborted
  \/ \E p \in Ports : WriteFails(p) \/ OtherOpens(p) \/ OtherCloses(p) \/ ReadStep(p)

Spec == Init /\ [][Next]_vars

(* The runtime polls both tasks; an aborted task ends.  The loop that      *)
(* empties the queue runs without an await, while a handler needs a        *)
(* request from the network for each command: the loop is not kept busy    *)
(* for ever, hence the strong fairness of BeginRx.  Clients need not send  *)
(* requests, and the other connections need not do anything.               *)
Fairness ==
  /\ WF_vars(Handler)
  /\ WF_vars(StreamTask)
  /\ WF_vars(StreamAborted)
  /\ SF_vars(BeginRx)
  /\ \A p \in Ports : WF_vars(AbortedReaderEnds(p))

FairSpec == Spec /\ Fairness

-----------------------------------------------------------------------------
(* Properties.                                                             *)

(* What the taps become once every command under way has been applied: the *)
(* last command about them decides, if there is one.                       *)
UnderWay == queue \o outbox

RxOps == {"Subscribe", "Unsubscribe"}
FilterOps == {"AddFilter", "RemoveFilter"}
KeywordOps == FilterOps \cup {"SetFilterKeywords"}

About(s, p, ops) == {i \in 1..Len(s) : s[i].port = p /\ s[i].op \in ops}

LastAbout(s, p, ops, now) ==
  IF About(s, p, ops) = {} THEN now ELSE s[Max(About(s, p, ops))]

RxTapSoon(p) ==
  LastAbout(UnderWay, p, RxOps, [rx |-> rxTaps[p]]).rx

FilterTapSoon(p) ==
  LastAbout(UnderWay, p, FilterOps, [rx |-> filterTaps[p]]).rx

KeywordsSoon(p) ==
  LastAbout(UnderWay, p, KeywordOps, [keywords |-> filterKeywords[p]]).keywords

(* The port has been open ever since it was first opened.                  *)
NeverClosed(p) == inMap[p] /\ opens[p] = 1

(* The session and the stream task, which only share a queue of commands,  *)
(* agree on who is subscribed: after the commands under way no port is     *)
(* streamed that the session does not know of, so that unsubscribe_rx and  *)
(* close_port reach every stream, and a subscription to a port that was    *)
(* never closed is streamed.                                               *)
StreamMatchesSubscriptions ==
  conn = "up" /\ phase # "dead" =>
    \A p \in Ports : /\ RxTapSoon(p) # NoRx => p \in rxSubscriptions
                     /\ p \in rxSubscriptions /\ NeverClosed(p) => RxTapSoon(p) # NoRx

(* The same for filters and their keywords, which add_filter_rx merges in  *)
(* the session and replaces in the stream task.                            *)
StreamMatchesFilters ==
  conn = "up" /\ phase # "dead" =>
    \A p \in Ports :
      /\ FilterTapSoon(p) # NoRx =>
           filterSubscriptions[p] # NoFilter /\ KeywordsSoon(p) = filterSubscriptions[p]
      /\ filterSubscriptions[p] # NoFilter /\ NeverClosed(p) => FilterTapSoon(p) # NoRx

(* What read_port finds is in order, without duplicates and without holes: *)
(* only entries that the ring had overwritten are missing.  It holds for   *)
(* any sequence of reads that clear and reads that do not.                 *)
BufferHasNoHoles ==
  \A p \in Ports :
    LET b == buffers[p]
        r == receivers[p]
        kept == {b[i] : i \in 1..Len(b)}
    IN  b # <<>> =>
          /\ r # NoRx /\ Len(b) <= MaxBuffer
          /\ \A i \in 2..Len(b) : b[i - 1] < b[i]
          /\ \A n \in b[1]..r.next : n \in kept \/ n <= Overwritten(SentTo(r))

(* The handler and the stream task do not wait for one another for ever,   *)
(* whatever the capacity of the queue between them.                        *)
RequestsAnswered == pc # "idle" ~> pc = "idle"

(* Every entry that a tap has yet to read is read, as the next one of its  *)
(* channel, unless the ring overwrites it: a tap that has been overrun     *)
(* goes on with the oldest entry kept, and no tap is dropped before its    *)
(* channel has been read to the end.  Only a command about the port or the *)
(* end of the stream task intervenes.                                      *)
TapOf(p, g) == rxTaps[p] # NoRx /\ rxTaps[p].gen = g

AwaitsPush(p, g, i) == TapOf(p, g) /\ rxTaps[p].next < i /\ i <= Len(sent[p][g])

SubscribedEntryPushed ==
  \A p \in Ports, g \in Channels, i \in 1..MaxEntries :
    AwaitsPush(p, g, i) ~> \/ TapOf(p, g) /\ rxTaps[p].next = i
                           \/ i <= Overwritten(sent[p][g])
                           \/ About(UnderWay, p, RxOps) # {}
                           \/ phase = "dead"

(* A port that has been unsubscribed stops being streamed, although the    *)
(* command travels through a queue and entries are pushed until it has     *)
(* been read: no Unsubscribe is lost, nor overtaken by an older Subscribe. *)
UnsubscribedStreamEnds ==
  \A p \in Ports :
    p \notin rxSubscriptions /\ rxTaps[p] # NoRx ~> p \in rxSubscriptions \/ rxTaps[p] = NoRx

(* A stream task whose handler is gone does not stay for ever: it ends at  *)
(* the latest when the ports it streams have been closed.                  *)
ReceiversHeld ==
  {rxTaps[p] : p \in Ports} \cup {filterTaps[p] : p \in Ports}
    \cup {queue[i].rx : i \in 1..Len(queue)}

OrphanStreamEnds ==
  /\ conn # "up"
  /\ \A r \in ReceiversHeld \ {NoRx} : ChannelClosed(r.port, r.gen)
  ~> phase = "dead"

-----------------------------------------------------------------------------
(* What subscribe_rx and unsubscribe_rx promise, as Subscription states    *)
(* it.  A subscription is given up when close_port has removed the port.   *)
(* A port is settling while a command about it is under way.               *)

NoStream == 0

ChannelOf(rx) == IF rx = NoRx THEN NoStream ELSE rx.gen

subscribed == IF pc = "close_sending" THEN rxSubscriptions \ {portArg} ELSE rxSubscriptions

up == phase # "dead"

decided == [p \in Ports |-> IF up THEN ChannelOf(RxTapSoon(p)) ELSE NoStream]

settling == {p \in Ports : up /\ About(UnderWay, p, RxOps) # {}}

stream == [p \in Ports |-> ChannelOf(rxTaps[p])]

ended == {c \in Ports \X Channels : c[2] <= opens[c[1]] /\ ChannelClosed(c[1], c[2])}

Sub == INSTANCE Subscription

(* What is streamed lags behind what subscribe_rx, unsubscribe_rx and      *)
(* close_port decide for as long as a command about the port is under way, *)
(* and no longer: then it is what was decided last.  A stream changes in   *)
(* no other way but by ending with its channel or with the task, and it is *)
(* then not resumed (daemon.rs:203-290, 451-500).                          *)
ImplementsSubscriptions == Sub!Spec
==============================================================================
