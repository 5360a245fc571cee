# commmon in TLA+

This directory is a verification project for commmon: a daemon that shares
serial (COM) ports between clients over a TCP protocol of JSON lines, the MCP
server and REPL that talk to it, and a web monitor. It holds TLA+ modules that
model the code, configurations with which TLC checks them on small instances,
and proofs, checked by TLAPS, of the properties that matter most for every
instance. `PROJECT.json` lists the components, the runs, the source lines behind
every definition, and the hazards that the properties are aimed at.

    tlc -workers 2 -config MCSerialManager_lease.cfg MCSerialManager
    tlapm SerialManagerProofs.tla

## 1. The system

Paths are relative to the repository (`src/` in `PROJECT.json`).

| Component | State it keeps | Operations | Talks to |
|---|---|---|---|
| Port table, `commmon/src/serial.rs` | `ports` (mutex around a map), a read task and a broadcast channel (256 entries) per open port | `open_port`, `close_port`, `write_port`, `subscribe`, `is_port_open`, `open_port_names`, `port_status`; the read task | every receiver of a channel: sessions, stream tasks, log tasks, the monitor |
| Log manager, `serial.rs` | `logs` (mutex around a map of `LogState`), a log task, a token and timers per log | `start_log`, `update_log`, `stop_log`, `close_all`; log task, duration timers | port table; notification channel (64) |
| Client session, `commmon/src/daemon.rs` | receivers, buffers of 200 entries, subscriptions, filters; a queue of 16 commands | `dispatch`, one request at a time | port table; its stream task through the queue |
| Stream task, `daemon.rs` | one receiver per subscribed port and per filter, keywords, carry | pushes `rx_data` and `filter_hit` | the connection's writer |
| Notify task, `daemon.rs` | receiver of the notification channel | forwards `log_stopped` | the connection's writer |
| Monitor, `commmon/src/monitor.rs`, `daemon.rs` | a mutex around an optional handle (token and server task) | `open_monitor`, `close_monitor`, `port_status`, SIGINT | axum server |
| `/events`, `monitor.rs` | a receiver per port | the loop of `sse_handler` | port table; browser |
| MCP server, `mcp-server/index.js` | one socket, `pending` resolvers, rx and hit buffers | `connect`, `send`, listeners, tools, `start_daemon`, `stop_daemon` | daemon |
| REPL, `commmon/src/repl.rs` | a channel of 32 responses | read a line, send, wait 5 s | daemon |
| SDKs, `sdk/` | connection and receive thread or task | subscribe, unsubscribe, disconnect | daemon |
| Protocol types, command line, page, installers | none | - | - |

**What is hard here.** Requests of different connections interleave at every
lock and await; `start_log` takes two locks one after the other; `stop_log`
waits for a task while it holds a lock; timers, keywords, `stop_log`,
`close_port` and SIGINT all end a log; channels outlive the ports they belong
to, so receivers of closed channels linger in three places (session, stream
task, monitor); rings overrun; handler and stream task agree on subscriptions
only through a bounded queue; shutdowns wait for other parties; the MCP client
matches responses to requests by position across lost connections, and the REPL
by their order alone; the filter's carry must join what the entries cut; the C++
client's threads share members without synchronisation.

**What makes each component correct.**

* Log manager: one log records a port; a log that runs can be found and
  stopped; what is told to stop ends; every request is answered (no deadlock of
  the two mutexes and the joins); no entry is forgotten; a stop is only
  announced of a log that stops.
* Session and stream task: they agree on subscriptions, filters and keywords;
  `read_port` returns entries in order, without holes but for overwritten ones;
  subscribed entries are pushed; nobody waits for ever on the queue; no stream
  task stays behind for ever.
* Monitor: the handle tells the truth; stopping ends.
* `/events`: open ports come to be watched, closed ones dropped, entries shown.
* Keyword filter: every occurrence is reported, once, wherever the entries cut.
* MCP client: a call gets its own response, once, and is always settled.
* REPL and notices: a command ends, and with its own response or none; notices
  are shown in order and completely, up to an overrun.
* C++ client: `Disconnect` returns and leaves no thread; lines stay whole.

## 2. Modules and how they correspond to the code

| Module | Models | Extends / uses |
|---|---|---|
| `Broadcast` | what the code relies on in `tokio::sync::broadcast`: cursor, overrun, end | - |
| `PortTable` | the `ports` map, channels and read tasks | `Broadcast` |
| `LogLease` | abstract: a log is a lease on a port (begin, revoke, finish) | - |
| `SerialManager` | all of `serial.rs` that changes state | `PortTable`; `LogLease` by refinement |
| `Subscription` | abstract: the subscriptions of a connection, what is decided of them and the streams that follow | - |
| `RxSession` | one connection: handler, session, queue, stream task | `PortTable`; `Subscription` by refinement |
| `KeywordFilter` | the search of one filter of the stream task, on bytes | - |
| `ReplSession` | REPL, its connection's handler, notify task and pushed data, notification channel | `Broadcast` |
| `SseStream` | one `/events` loop | `PortTable` |
| `Monitor` | the monitor's life, its mutex, SIGINT | - |
| `McpClient` | `DaemonClient` of the MCP server | - |
| `CppRxClient` | the C++ SDK client: application thread, receive threads, sockets | - |
| `MC*` | instances for TLC (symmetry) | the module they are named after |
| `*Proofs` | theorems | the module they are named after, `TLAPS` |

*Granularity.* An action is the stretch of a handler or task between two points
where it may be suspended (lock acquisition, await). `pc[c]` in `SerialManager`
and `pc` in `RxSession` name the stretch. A lock that is held over no await has
no holder in the model: its critical section is one action, guarded by the lock
being free. Locks held over an await (`logs` in `stop_log_internal`, `ports` in
`write_port` and `port_status`, the monitor mutex) have a holder variable.

*Channels.* Every successful `open_port` makes a new channel, numbered
1, 2, ... per port. A receiver is a record of port, channel and cursor. A channel
is closed when both of its Senders are gone, the one in `OpenPort` and the one in
the read task; `abort()` reaches the read task in a later step.

*`SerialManager`.* The handlers are `OpenPort`, `WriteBegin`/`WriteEnd`,
`TakeLog`/`TakeNoLog`, `JoinLog`, `CloseRemove` (`close_port` and `stop_log`
share `stop_log_internal`), `StartSubscribe`, `StartRefused`/`StartInsert`,
`UpdateLog`, `StatusPorts`/`StatusLogs`. The log task is
`LogCreate`, then the branches of its `select!`, then `LogWritten` with the
keyword check. Timers wake (`TimerExpires`: nothing is awaited before the
notice, so an abort no longer reaches them) and notify. `Sigint`, `DrainLogs` and
`DrainPorts` are SIGINT and `close_all`; then the process is gone and nothing
happens any more.

*`RxSession`.* `outbox` holds the commands that a handler has decided to send
and not yet sent; `SendCommand` is one `rx_cmd_tx.send().await`. The stream
task's loop has the parts "commands", "rx" and "filter"; each `try_recv` is a
step, since writing to the socket may suspend the task after each entry. Other
connections open and close ports at any time. `SessionError` is the way out of
`handle_client` through `?`, which skips the aborts. After `Eof` the abort reaches
the stream task in a later step (`StreamAborted`), so that it may still push.

*`Subscription`.* What a handler decides and what is pushed are two variables. A
request sets `decided[p]` at once; until the stream task has read the last command
about `p`, the port is `settling` and what is pushed of it may be anything that a
decision overtaken since asked for; then it must be what was decided last. The
mapping takes `stream[p]` from the tap as it is now, so that pushes after the
answer to `unsubscribe_rx` are visible and allowed while `p` is settling and at no
other time; `decided[p]` is the tap that `p` will have once the queue and the
outbox are applied (`RxTapSoon`), and `settling` the ports with a command in
either. A subscription is given up when `close_port` has removed the port, though
the session forgets it only after its sends.

*`SseStream`.* A round of the loop lists (`ListPorts`), subscribes port by port,
each time under the lock (`SubscribeNext`), retains (`RetainNamed`) and polls, in
any order of the hash map (`SetToSeqs`). `shown[p]`, the channel and number of
the last entry yielded, is history.

*`Monitor`.* axum's graceful shutdown accepts nobody after the cancellation and
ends when the last connection has gone. An `/events` connection ends only when
its browser leaves. These two facts are external to the repository. `open_monitor`
looks at the handle and not at the server: what keeps a second server from
starting beside one that is stopping is the mutex, held over the wait.

*`McpClient`.* Sockets are numbered. The daemon answers in order. Two facts of
Node are external: a destroyed socket's close event comes after the current
event and before the next poll for connections; `destroy()` without an error
emits no error.

*`KeywordFilter`.* One action per turn of the inner `while let` (`FindNext`), per
keyword (`NextKeyword`) and per entry (`TakeEntry`, `KeepCarry`). `received`, and
for each keyword the position at which it was listed (`since`) and the first
byte the carry reached back to at that moment (`reach`), are history. `RxSession`
says when entries arrive, and when a failing write ends the task.

*`ReplSession`.* A command is its number and so is the response to it. `Write` is
a `write_all` that waits while the window is full; a client that has gone lets
one write pass and resets the connection. `Leave` is the end of the loop and of
the process. `held` is the line that `resp_tx.send` waits to pass on. `PushRx` is
the stream task of a REPL that has subscribed: a third writer beside the handler
and the notify task, whose lines compete for the window and for `recv_task`. Which
entries it pushes is `RxSession`'s.

*`CppRxClient`.* Each access to `m_socket` and `m_running` is a step of its own,
for nothing synchronises them. `WaitForSingleObject` gives up only while the
thread is in a callback: nothing else takes 3 s once the socket is closed. A line
comes in two pieces, and `recv` returns any number of pieces.

## 3. What is checked

Every passing run terminates with the full state space; `PROJECT.json` names a
mutation of the code for each property that makes TLC refute it.

| Run | Shows |
|---|---|
| `log_lease` | two clients start, stop, update, open and close: `OneLiveLogPerPort`, `LiveLogIsRegistered`, `ArmedTimerIsRegistered`, `AnnouncedLogStops`, and the refinement of `LogLease` |
| `log_progress` | one client starts logs, the other stops them and closes the port, while the device sends: `SomebodyGoesOn` (whoever waits, somebody is not held up by a mutex), `RequestsAnswered`, `ClosedPortEndsLog`, `EntryReachesLog` over ring overruns, keywords and timers, and the fair lease: what is revoked finishes although data comes |
| `session_streams` | `StreamMatchesSubscriptions`, `StreamMatchesFilters` with reopened ports, two keywords, a queue of one; the refinement of `Subscription` |
| `session_progress` | `BufferHasNoHoles`, `RequestsAnswered`, `SubscribedEntryPushed`, `UnsubscribedStreamEnds`, `OrphanStreamEnds` |
| `monitor_lifecycle` | `HandleIsServer`, with the mutex free and held; `RequestsAnswered`: a command that is never answered has a browser that stays for ever |
| `keyword_filter` | `HitsExact`, `SearchEnds`: streams of six bytes cut in every way, keywords that overlap and are added |
| `sse_watch` | `ShownWithoutHoles`, `EntryShown`, `WatchFollowsTable` with a port that is opened twice beside another one |
| `mcp_calls` | `SettledOnce` over losses, refusals and `stop_daemon`; `OwnAnswer`, `NoOrphanCall` and `CallsSettle` as long as no more than the first connection is lost |
| `repl_session` | `OwnAnswer`, `NoticesWithoutHoles`, `CommandEnds`, `NoticeShown` while commands, notices, pushed data and the end of either side interleave |
| `cpp_client` | `JoinedThreadStops`, `NoThreadAfterDisconnect`, `LinesWhole`, `DisconnectEnds` over two connections |
| `dead_log`, `sigint` | violations, see section 5, 1 and 12 |

**Bounds.** `MaxOpens`, `MaxEntries`, `MaxLogs`, `MaxNotices`, `MaxSockets`,
`MaxListed`, `MaxEntry`, `MaxStream`, `MaxCommands`, `MaxConnects`, `MaxLines` cap
counters; they appear in guards (`OpenStream`, `ReadData`, `Request`,
`UpdateLog`, `Connect`, `AddKeyword`, `TakeEntry`, `PostNotice`, `SendCommand`,
`ConnectBegin`, `Push`) and stop only the environment: clients that ask, devices
that send. `Commands` and `Requested` choose the commands that clients send in a
run; together the runs send all of them. In `log_progress` the clients divide them
(`SplitCommands`): each side has one that holds `ports` over an await, and the
races are those of a start with a stop or a close. `MaxEntries` is 2 there, on a
ring of one: a log that is told to stop has data to choose instead, and one entry
overwrites another. A port is opened once in the runs of `SerialManager`; the
proofs of its safety cover the port that is opened again. Two clients are enough for every race in
`SerialManager`, for a race needs one that has checked and one that changes what
was checked. Two logs on one port make a second `start_log` after a first one.
Capacity 1 with two entries overruns the ring, a queue of one command fills with
each command, two opens of a port give a closed channel beside an open one.
Two sockets are what one loss needs, a third shows that nothing is settled twice
after a second one; four calls put one before, two around and one after a loss.
Six bytes in entries of up to three let an occurrence lie across three entries.
Six notices on a ring of two overrun it while a notice waits for the window.
Two connections of the C++ client let the thread of the first meet the second.
In `sse_watch` one port is opened twice, with three entries; the other one
(`Quiet`) once, with one entry: it is subscribed, listed, closed or polled while
the first is closed and reopened.

**Fairness.** The tokio runtime polls every woken task, hence weak fairness of
tasks. `tokio::sync::Mutex` is FIFO, so that a handler that waits for a lock gets
it though others take it again and again: strong fairness of handlers and of the
SIGINT task. `select!` picks a ready branch at random, hence strong fairness of
`LogCancelled`. The inner `try_recv` loop of the stream task ends because a
handler needs a request from the network per command: strong fairness of
`BeginRx`. An aborted task is polled once more and ends (`StreamAborted`). No fairness is assumed of clients, devices or signals. `WriteEnd` is
fair, that is, a device accepts the bytes or fails (no flow control that blocks
for ever). `Monitor` assumes nothing of browsers. In `McpClient` the daemon answers
what it has been sent on a connection that is listened to, or that connection is
lost; one with nothing to answer may stay as it is for ever (`Awaited`).
`ReplSession` assumes that the runtimes poll `notify_task`, `recv_task` and the
loop, whose timeout expires, and that the writer's mutex is fair, hence strong
fairness of `WriteNotice` beside a port that never pauses; it assumes nothing of the
handler, which may never respond. `CppRxClient` assumes that threads are scheduled,
and nothing of callbacks, which may never return. `KeywordFilter` assumes that
the stream task goes on.

Deadlock checking is off where the system may stop: after `exit(0)`, after the
connection has ended, after every call has been made.

## 4. What is proved

For every set of clients, ports (finite in `RxSession` and `SseStream`), data and keywords and
every value of the bounds:

* `SerialManagerProofs`: `TypeCorrect` (`TypeOK`), `LiveLogsRegistered`
  (`LiveLogIsRegistered`), `ArmedTimersRegistered` (`ArmedTimerIsRegistered`),
  `LogExclusion` (`OneLiveLogPerPort`), `AnnouncedStops` (`AnnouncedLogStops`),
  `NoDeadlock` (`SomebodyGoesOn`), `LeaseRefinement` (`ImplementsLogLease`), the
  refinement of `LogLease` with `phase` and `owner` computed from task, token and
  receiver, and `LeaseExclusive`, the lease so implemented is exclusive.
* `RxSessionProofs`: `TypeCorrect`, `SubscriptionsMatch`
  (`StreamMatchesSubscriptions`), `FiltersMatch` (`StreamMatchesFilters`),
  `BuffersWithoutHoles` (`BufferHasNoHoles`), `SubscriptionRefinement`
  (`ImplementsSubscriptions`) and `SubscriptionsStreamed`, what the subscriptions
  so implemented promise.
* `SseStreamProofs`: `TypeCorrect` and `EventsWithoutHoles` (`ShownWithoutHoles`).
* `MonitorProofs`: `TypeCorrect` and `HandleTellsTruth` (`HandleIsServer`).
* `KeywordFilterProofs`: `TypeCorrect` and `FilterIsExact` (`HitsExact`).
* `ReplSessionProofs`: `TypeCorrect`, `OwnAnswers` (`OwnAnswer`) and
  `NoticesComplete` (`NoticesWithoutHoles`).
* `McpClientProofs`: `TypeCorrect`, `CallsSettledOnce` (`SettledOnce`),
  `OwnAnswers` (`OwnAnswer`) and `NoCallForgotten` (`NoOrphanCall`).
* `CppRxClientProofs`: `TypeCorrect`, `NoThreadLeft` (`NoThreadAfterDisconnect`),
  `JoinEnds` (`JoinedThreadStops`) and `WholeLines` (`LinesWhole`).

`TypeOK` is checked by a run in `SerialManager`, `RxSession` and `KeywordFilter`;
in the other modules `TypeCorrect` is proved and no run repeats it.

*The argument for the logs.* `OneLiveLogPerPort` is not inductive: that no two
live logs share a port follows from the map holding one log per port, so the
invariant must say that every live log *is* the one in the map. The inductive
invariant is `IInv == Typing /\ Registry`. `Typing` adds to `TypeOK` that a port
in the map has a channel and that a log task, and a `start_log` between its two
locks, own a receiver, the latter one of the port it was asked for; without this
`StartInsert` could register a log under one port that listens to another.
`Registry` relates `logs`, `started`, tasks, tokens and timers: unused numbers
have neither task, token nor timer; a registered log listens to the port it is
registered for; live logs and armed timers are registered.
There is one lemma per kind of step (unregistering, inserting, a step of a log
task, steps that touch none of it), used by `IInvStep`.
`LeaseRefinement` needs `IInv`: `StartInsert` maps to `Begin`, which demands that
no active lease is on the port. `AnnouncedStops` needs `FreshIsSilent`, a number
that has not been given out has announced nothing. `NoDeadlock` has an invariant
of its own, `Holders`: a mutex is held over an await by exactly the client that is
at one of two places in the code, and at none of these does a client wait for
`ports`; so whoever holds `logs` is waiting for a log task and for no mutex.

*The argument for the session.* `StreamMatchesSubscriptions` compares the session
with the taps as they will be once the queue and the outbox are applied, so that
sending a command and applying one leave the comparison alone; the lemmas
`LastAppended`, `LastOfTail` and `HeadMoves` say so of sequences of commands.
`Matched` adds what holds while `close_port` sends: the commands under way already
end every stream of the port, whatever the session still believes. `SubscribedOnce`
gives that a subscribed port has been open, so that it cannot become "never
closed" later; `OutboxInUse` that a handler decides only when it has sent what it
decided before; and a tap is dropped only when its channel is closed
(`DroppedTap`). The argument for filters is the same, with the keywords: new
keywords that find no filter are ignored, and that shows only if a later
`AddFilter` brings its own. For `BufferHasNoHoles` the invariant (`Gapless`) orders
all pairs of the buffer and not just neighbours, so that it passes to the newest
part that the buffer keeps, and bounds the entries by the cursor.

*The argument for the subscriptions.* The refinement has one lemma per kind of
step. `SendCommand` moves a command from the outbox to the queue and changes nothing
of `Subscription` (`SubSend`). `ApplyCommand` moves the stream and leaves what was
decided alone: it is `Settle` when no other command about the port remains, and
`Overtaken` otherwise (`SubApply`, from `AboutTail` and `AboutHead`). A decision of
the handler is `Subscribe` or `Unsubscribe`, `close_port` the latter when it removes
the port (`Decided`, `SubChange`, `SubClose`). A tap that `PollDone` drops is `Lose`:
its channel has ended, and what was decided goes with the stream unless a command
is still to come (`SubPoll`). `Reach` adds that no tap, and no receiver under way,
is of a channel that the port has not had yet, and that who is about to subscribe
is not subscribed. `SubscriptionsStreamed` is about every implementation of
`Subscription`: a port that has settled is not pushed without a subscription, and
with one only ceases to be when a channel or the stream task has ended.

*The argument for `/events`.* `ShownWithoutHoles` relates two entries yielded at
different times, so the invariant `Watch` ties the last one shown to the receiver.
A receiver is of a newer channel than the last entry shown, or stands directly
behind that entry but for what the ring has overwritten (`Listening`). Without a
receiver the channel of the last entry is dead (`Dead`): `subscribe` gives a
receiver of a newer one only. And since `retain` goes by names that were listed
before the subscriptions, a receiver that it is about to drop must be of a dead
channel already: a port that was not open at the list and is now has a new one.

*The argument for the monitor.* `HandleIsServer` speaks of states in which the
mutex is free, and of the server while it is held. The inductive invariant says
also who holds it then: the one that waits for the server, who has taken the
handle out and cancelled it.

*The argument for the filter.* `HitsExact` speaks of the moments between two
entries. The invariant adds `CarryIsTail`, the carry is the tail of what was
received, and for every keyword it is long enough or reaches back to where its
search began; and `HitsSoFar`, in the middle of a search the hits are those the
search has passed. A match in `carry \o entry` is then an occurrence in the
stream, and one that begins before the carry ends before the entry.

*The argument for the REPL.* That a response belongs to the last command holds
because at most one command or response is outstanding: `InOnePlace` lists the
five places where it can be (on its way to the daemon, in the handler, on its way
back, held by `recv_task`, in the channel) and says that they exclude each other;
`NothingAtPrompt` says that there is none while the REPL prompts, for a timeout
ends the loop. For the notices, `UnderWayOrdered` and `UnderWayWithoutHoles` say
that the printed ones and those under way are together all that `notify_task` has
written; `Serving` gives that it writes into an open socket until the REPL leaves.

*The argument for the MCP client.* A call waits in at most one place, as the
connector of one socket or at one index of `pending`, and while it waits it has no
answer (`Waiting`): so it is settled once, even when connections are refused or
lost again. That the n-th response belongs to the n-th of `pending` needs
`OneLossInv`, which is preserved only until a connection is refused or a third
socket is made: `Newest` and `Listeners` say which socket `this.socket` is and that
it alone is listened to, `InStep` that its outstanding requests are `pending`, in
order. `NoOrphanCall` follows from the same parts: without a close event under way
and with a call pending, the socket is one that can be used.

*The argument for the C++ client.* Until a wait expires, the only thread that runs
is the one that `Disconnect` would wait for (`OneThread`), and it reads its own
socket or none (`OwnSocket`); what it has received is the lines it has passed on
and the piece it holds (`NothingSkipped`). `Closing` speaks of the thread that is
still to be joined only, and so holds after an expired wait as well.

*Assumptions.* `CapacityAssumption`, `TableAssumption`, `SessionAssumption`,
`SseAssumption`, `ManagerAssumption`, `MonitorAssumption`, `FilterAssumption`, `ReplAssumption` and
the two `ClientAssumption`s: sizes are natural numbers, the ports that a stream
task or an `/events` loop goes through are finitely many, channels and windows
have room for one, keywords are not empty, and "no receiver", "no port", "no
client" and the keywords' markers are no receivers, ports, clients or data.

*Only model-checked.* All liveness and the fair lease: the prover has no rule for
`ENABLED` and fairness. Every safety property of a passing run is proved.

## 5. Where the code and its documents disagree

The first and the twelfth are runs with expectation "violation" and findings in
`PROJECT.json`. The others were met while modelling, as behaviours of the same
models or, where that is said, in code outside them; no run keeps them.

1. **`dead_log`.** A log that ended by keyword, timer or a failed file creation
   stays in `logs`; `start_log` answers "already running" (`serial.rs:296`).
2. `start_log` inserts after a `close_port` has looked for a log
   (`serial.rs:215`, `288`, `352`): a log of a closed port stays registered. Its
   task does end (`ClosedPortEndsLog`).
3. A log can announce its end twice, by keyword and then by timer
   (`serial.rs:341`, `490`; README.md:41 speaks of the notice of completion).
4. `read_port` keeps the receiver of a channel that another connection has
   closed (`daemon.rs:95`), and returns nothing of the reopened port, against
   PLAN.md:31 (every client sees all data).
5. The first `read_port` after an overrun returns nothing of the retained
   entries (`daemon.rs:85`), against PLAN.md:31.
6. After another connection has closed and reopened a
   port, `subscribe_rx` answers "already subscribed" (`daemon.rs:461`) though
   nothing is streamed. For the same reason `add_filter_rx` answers ok and adds
   its keywords to a filter that is no more (`daemon.rs:571`).
7. `rx_data` may be pushed after `unsubscribe_rx` was answered (`daemon.rs:491`,
   PLAN.md:70): for as long as the port is `settling` in `Subscription`, and no
   longer (`UnsubscribedStreamEnds`).
8. `/events` keeps the receiver of a dead channel when a port is closed and
   reopened between two rounds (`monitor.rs:89`): the page stays silent
   (README.md:40). `WatchFollowsTable` starts from ports without a receiver and so
   leaves this case out; it covers the closings that a round notices.
9. MCP: a call that uses a socket still connecting, which is then refused, keeps
   its place in `pending` and takes the response of a later call
   (`index.js:61`, `68`).
10. MCP: `connect` resumes with `this.socket`, which may by then be a newer
    socket (`index.js:71`); it gets its listeners twice, and each response
    resolves two calls. This needs three sockets.
11. MCP: `stop_daemon` destroys a socket that is connecting (`index.js:355`); the
    call that awaits it is never settled.
12. **`sigint`.** Ctrl+C with the monitor page open never ends the daemon, for
    `stop` waits for every `/events` connection (`daemon.rs:154`,
    `monitor.rs:33`), against README.md:122.
13. `port_error` (PLAN.md:65, 69) is never sent; a port whose device has gone
    stays in the table.
14. After an overrun of the notification channel `notify_task` has ended
   (`daemon.rs:191`), and the connection gets no `log_stopped` any more, against
   PLAN.md:69 (notices go to all clients).
15. The carry joins the bytes before an overrun of the ring with those after it
   (`daemon.rs:361`): a keyword can be reported that was never sent in one piece,
   with a context to match.
16. C++: if a callback takes longer than 3 s, `Disconnect` returns with the
   thread still there (`commmon_rx_client.cpp:72`). After the next `Connect` it
   finds `m_running` true again, and two threads read one socket; after the
   destructor it uses members that are gone.
17. Outside the models. Rust: dropping the client leaves the receive task and the
   connection (`lib.rs:67`), and receivers of `on_data` never see the end of the
   connection, for the client keeps a sender. C#: the thread of an old connection
   that ends after a new `ConnectAsync` finds `_running` true and raises `OnError`
   (`CommmonRxClient.cs:142`).
18. Outside the models. MCP: `rx_data` that arrives in the chunk of the response
   to `subscribe_rx`, or before it, is dropped, for the buffer is made after the
   await (`index.js:419`); the buffers survive the connection that filled them,
   and `read_rx_stream` then reports silence (`index.js:450`).
19. An entry can be pushed twice to one connection. `subscribe_rx`, `unsubscribe_rx`
   and `subscribe_rx` again, while the stream task drains the first tap: the second
   receiver begins where the channel stands when it is asked for
   (`daemon.rs:464`), and the first tap goes on to push entries behind that point
   (`daemon.rs:267`) before the commands are applied. `filter_rx` repeated does the
   same with hits. What is pushed of one tap is in order and complete.

## 6. What is not modelled, and why

* Contents: entries are opaque, but for the keyword a log entry holds. File
  names and contents, timestamps, JSON, formatting, `list_ports` and the port's
  parameters (`baudRate`, ...) change no state that a property is about.
* The writer mutex of a connection and TCP backpressure: a client that does not
  read blocks its own tasks only.
* `drain_receiver` is one step; entries that arrive while it loops are those of a
  read that begins a moment later.
* In `McpClient` a chunk holds one response.
* Real time: a timeout (the 1 s join, sleeps, the duration) may come at any time.
* In `ReplSession` lines are whole: all three writers hold the connection's mutex
  for a line. A REPL cannot set filters (`repl.rs:138`), so that no `filter_hit`
  comes. `rx_data` may come once any command has been taken.
* In `CppRxClient`, members that the application calls from a callback, and a
  `Connect` while connected. A second operation on a socket number that the
  system has given out again is not told apart from one on a closed socket.
* The rx and hit buffers of the MCP server, `start_daemon` and its processes; the
  Rust and C# clients: one loop over lines each (section 5, 17 and 18).
* Never: protocol types, command line, page, installers, workflow (stateless).

## 7. Plan

1. Composition: several `RxSession`s over one `SerialManager`; an abstract
   request/response channel that `McpClient` and `ReplSession` implement; the
   filters of a connection in `Subscription`.
2. The rx and hit buffers of the MCP server.
