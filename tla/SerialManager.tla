---------------------------- MODULE SerialManager ----------------------------
(***************************************************************************)
(* SerialManager (serial.rs): the port table, the log table and the tasks  *)
(* that the manager spawns.  Every client stands for one connection, whose *)
(* requests the daemon handles one at a time; the handlers of different    *)
(* clients interleave at their lock acquisitions and awaits.  A handler is *)
(* one action per stretch between two of these points, and pc[c] names the *)
(* stretch that client c's handler has reached.                            *)
(*                                                                         *)
(* A log is numbered by the start_log call that created it.  Its LogState, *)
(* log task and timers outlive one another, so that each has a variable of *)
(* its own.                                                                *)
(***************************************************************************)
EXTENDS PortTable, FiniteSets

CONSTANTS
  Clients,        \* connections that issue requests
  Free,           \* "no client": value of a lock that nobody holds
  NoOwner,        \* "no port"
  NoKeyword,      \* stop_keyword = None
  EmptyKeyword,   \* stop_keyword = Some(""), which every entry contains
  Keywords,       \* stop keywords; one that is not empty is named by the entry that contains it
  Commands,       \* bound: Commands[c]: the commands that c sends
  MaxLogs,        \* bound: logs started
  MaxNotices      \* bound: log_stopped notices per log that a new timer may add to

AllCommands == {"open", "write", "closePort", "stopLog", "startLog", "updateLog", "status"}
Stretches == AllCommands \cup {"idle", "writing", "closeJoin", "closeRemove", "stopJoin",
                            "insertLog", "statusLogs"}

NoLog == 0
LogIds == 1..MaxLogs

StopKeywords == Keywords \cup {NoKeyword}

ASSUME ManagerAssumption ==
  /\ Free \notin Clients
  /\ NoOwner \notin Ports
  /\ NoKeyword # EmptyKeyword
  /\ Keywords \subseteq Data \cup {EmptyKeyword}
  /\ NoKeyword \notin Data /\ EmptyKeyword \notin Data
  /\ Commands \in [Clients -> SUBSET AllCommands]
  /\ MaxLogs \in Nat /\ MaxNotices \in Nat

VARIABLES
  pc, portArg,    \* the stretch a client's handler has reached, and its port
  grabbed,        \* grabbed[c]: the receiver c's start_log has subscribed
  portsLock, logsLock,    \* holder of the mutex around `ports`, around `logs`
  logs,           \* logs[p]: the log that the `logs` map holds for p
  started,        \* number of logs started
  rx,             \* rx[l]: the receiver that l's log task owns
  task,           \* task[l]: where l's log task is
  cancelled,      \* cancelled[l]: l's CancellationToken
  keyword,        \* keyword[l]: l's stop_keyword
  armed,          \* armed[l]: the timer in l's duration_task sleeps
  firing,         \* firing[l]: l's timers that have cancelled and not yet notified
  notices,        \* notices[l]: log_stopped notices sent for l
  shutdown        \* progress of the cleanup that SIGINT starts

clientVars == <<pc, portArg, grabbed>>
lockVars == <<portsLock, logsLock>>
leaseVars == <<logs, started, rx, task, cancelled>>
noticeVars == <<keyword, armed, firing, notices>>
vars == <<tableVars, clientVars, lockVars, leaseVars, noticeVars, shutdown>>

TypeOK ==
  /\ TableTypeOK
  /\ pc \in [Clients -> Stretches]
  /\ portArg \in [Clients -> Ports]
  /\ grabbed \in [Clients -> Receivers \cup {NoRx}]
  /\ portsLock \in Clients \cup {Free}
  /\ logsLock \in Clients \cup {Free}
  /\ logs \in [Ports -> LogIds \cup {NoLog}]
  /\ started \in 0..MaxLogs
  /\ rx \in [LogIds -> Receivers \cup {NoRx}]
  /\ task \in [LogIds -> {"unused", "creating", "running", "writing", "done"}]
  /\ cancelled \in [LogIds -> BOOLEAN]
  /\ keyword \in [LogIds -> StopKeywords]
  /\ armed \in [LogIds -> BOOLEAN]
  /\ firing \in [LogIds -> Nat]
  /\ notices \in [LogIds -> Nat]
  /\ shutdown \in {"none", "logs", "ports", "exited"}

Init ==
  /\ TableInit
  /\ pc = [c \in Clients |-> "idle"]
  /\ portArg \in {[c \in Clients |-> p] : p \in Ports}
  /\ grabbed = [c \in Clients |-> NoRx]
  /\ portsLock = Free /\ logsLock = Free
  /\ logs = [p \in Ports |-> NoLog]
  /\ started = 0
  /\ rx = [l \in LogIds |-> NoRx]
  /\ task = [l \in LogIds |-> "unused"]
  /\ cancelled = [l \in LogIds |-> FALSE]
  /\ keyword = [l \in LogIds |-> NoKeyword]
  /\ armed = [l \in LogIds |-> FALSE]
  /\ firing = [l \in LogIds |-> 0]
  /\ notices = [l \in LogIds |-> 0]
  /\ shutdown = "none"

-----------------------------------------------------------------------------
(* Requests.                                                               *)

Goto(c, stretch) == pc' = [pc EXCEPT ![c] = stretch]

(* A request line has arrived on c's connection and dispatch has called    *)
(* the handler.  The bound MaxLogs is applied here, so that every request  *)
(* that is let in can be answered.                                         *)
Request(c) ==
  /\ pc[c] = "idle"
  /\ \E cmd \in Commands[c], p \in Ports :
       /\ cmd = "startLog" =>
            started + Cardinality({d \in Clients : pc[d] \in {"startLog", "insertLog"}}) < MaxLogs
       /\ Goto(c, cmd)
       /\ portArg' = [portArg EXCEPT ![c] = p]
  /\ UNCHANGED <<tableVars, grabbed, lockVars, leaseVars, noticeVars, shutdown>>

-----------------------------------------------------------------------------
(* open_port, write_port, close_port.                                      *)

(* Everything from the lock on happens without an await.  The open fails   *)
(* if the port is in the map, and the device may refuse it as well.        *)
OpenPort(c) ==
  /\ pc[c] = "open" /\ portsLock = Free
  /\ OpenStream(portArg[c]) \/ UNCHANGED tableVars
  /\ Goto(c, "idle")
  /\ UNCHANGED <<portArg, grabbed, lockVars, leaseVars, noticeVars, shutdown>>

(* write_port keeps the lock of the whole table while the device accepts   *)
(* the bytes.                                                              *)
WriteBegin(c) ==
  /\ pc[c] = "write" /\ portsLock = Free
  /\ IF inMap[portArg[c]]
       THEN Goto(c, "writing") /\ portsLock' = c
       ELSE Goto(c, "idle") /\ UNCHANGED portsLock
  /\ UNCHANGED <<tableVars, portArg, grabbed, logsLock, leaseVars, noticeVars, shutdown>>

WriteEnd(c) ==
  /\ pc[c] = "writing"
  /\ portsLock' = Free
  /\ Goto(c, "idle")
  /\ UNCHANGED <<tableVars, portArg, grabbed, logsLock, leaseVars, noticeVars, shutdown>>

(* The last part of close_port, after stop_log_internal.                   *)
CloseRemove(c) ==
  /\ pc[c] = "closeRemove" /\ portsLock = Free
  /\ RemovePort(portArg[c]) \/ (~inMap[portArg[c]] /\ UNCHANGED tableVars)
  /\ Goto(c, "idle")
  /\ UNCHANGED <<portArg, grabbed, lockVars, leaseVars, noticeVars, shutdown>>

-----------------------------------------------------------------------------
(* stop_log_internal, which stop_log and close_port call.                  *)

(* The logs that the map holds for the ports in S lose their entry, their  *)
(* token is cancelled and their timer aborted.  An abort does not reach a  *)
(* timer that has already woken: nothing is awaited between its cancel()   *)
(* and its send().                                                         *)
UnregisterWithoutCancel(S) ==
  LET taken == {logs[p] : p \in S}
  IN  /\ logs' = [p \in Ports |-> IF p \in S THEN NoLog ELSE logs[p]]
      /\ armed' = [l \in LogIds |-> armed[l] /\ l \notin taken]
      /\ UNCHANGED cancelled

Unregister(S) ==
  LET taken == {logs[p] : p \in S}
  IN  /\ logs' = [p \in Ports |-> IF p \in S THEN NoLog ELSE logs[p]]
      /\ cancelled' = [l \in LogIds |-> cancelled[l] \/ l \in taken]
      /\ armed' = [l \in LogIds |-> armed[l] /\ l \notin taken]

TakeNoLog(c) ==
  /\ pc[c] \in {"stopLog", "closePort"} /\ logsLock = Free
  /\ logs[portArg[c]] = NoLog
  /\ Goto(c, IF pc[c] = "stopLog" THEN "idle" ELSE "closeRemove")
  /\ UNCHANGED <<tableVars, portArg, grabbed, lockVars, leaseVars, noticeVars, shutdown>>

TakeLog(c) ==
  /\ pc[c] \in {"stopLog", "closePort"} /\ logsLock = Free
  /\ logs[portArg[c]] # NoLog
  /\ Unregister({portArg[c]})
  /\ logsLock' = c
  /\ Goto(c, IF pc[c] = "stopLog" THEN "stopJoin" ELSE "closeJoin")
  /\ UNCHANGED <<tableVars, portArg, grabbed, portsLock, started, rx, task, keyword, firing,
                 notices, shutdown>>

(* The wait for the log task is over: the task has ended or 1 s has gone   *)
(* by.  The mutex around `logs` was held all along.                        *)
JoinLogKeepingLock(c) ==
  /\ pc[c] \in {"stopJoin", "closeJoin"}
  /\ logsLock' = IF pc[c] = "stopJoin" THEN Free ELSE c
  /\ Goto(c, IF pc[c] = "stopJoin" THEN "idle" ELSE "closeRemove")
  /\ UNCHANGED <<tableVars, portArg, grabbed, portsLock, leaseVars, noticeVars, shutdown>>

JoinLog(c) ==
  /\ pc[c] \in {"stopJoin", "closeJoin"}
  /\ logsLock' = Free
  /\ Goto(c, IF pc[c] = "stopJoin" THEN "idle" ELSE "closeRemove")
  /\ UNCHANGED <<tableVars, portArg, grabbed, portsLock, leaseVars, noticeVars, shutdown>>

-----------------------------------------------------------------------------
(* start_log, update_log, port_status.                                     *)

(* subscribe: a receiver at the end of the port's channel.                 *)
StartSubscribe(c) ==
  /\ pc[c] = "startLog" /\ portsLock = Free
  /\ LET p == portArg[c]
     IN IF inMap[p]
          THEN grabbed' = [grabbed EXCEPT ![c] = Subscribe(p)] /\ Goto(c, "insertLog")
          ELSE Goto(c, "idle") /\ UNCHANGED grabbed
  /\ UNCHANGED <<tableVars, portArg, lockVars, leaseVars, noticeVars, shutdown>>

NeverRegistered(p) == FALSE
RegisteredUntilDone(p) == logs[p] # NoLog /\ task[logs[p]] # "done"
RegisteredOnceCreated(p) == logs[p] # NoLog /\ task[logs[p]] # "creating"

Registered(p) == logs[p] # NoLog

StartRefused(c) ==
  /\ pc[c] = "insertLog" /\ logsLock = Free
  /\ Registered(portArg[c])
  /\ grabbed' = [grabbed EXCEPT ![c] = NoRx]
  /\ Goto(c, "idle")
  /\ UNCHANGED <<tableVars, portArg, lockVars, leaseVars, noticeVars, shutdown>>

StartInsert(c) ==
  /\ pc[c] = "insertLog" /\ logsLock = Free
  /\ ~Registered(portArg[c])
  /\ started < MaxLogs
  /\ started' = started + 1
  /\ logs' = [logs EXCEPT ![portArg[c]] = started']
  /\ rx' = [rx EXCEPT ![started'] = grabbed[c]]
  /\ task' = [task EXCEPT ![started'] = "creating"]
  /\ \E k \in StopKeywords : keyword' = [keyword EXCEPT ![started'] = k]
  /\ \E timed \in BOOLEAN : armed' = [armed EXCEPT ![started'] = timed]
  /\ grabbed' = [grabbed EXCEPT ![c] = NoRx]
  /\ Goto(c, "idle")
  /\ UNCHANGED <<tableVars, portArg, lockVars, cancelled, firing, notices, shutdown>>

(* update_log: a keyword "" or one that is no string removes the keyword;  *)
(* a duration aborts the timer and arms a new one.  The guard on notices   *)
(* is the bound MaxNotices.                                                *)
UpdateLog(c) ==
  /\ pc[c] = "updateLog" /\ logsLock = Free
  /\ LET l == logs[portArg[c]]
     IN \/ UNCHANGED <<keyword, armed>>
        \/ /\ l # NoLog
           /\ \/ UNCHANGED keyword
              \/ \E k \in StopKeywords \ {EmptyKeyword} : keyword' = [keyword EXCEPT ![l] = k]
           /\ \/ UNCHANGED armed
              \/ /\ notices[l] + firing[l] < MaxNotices
                 /\ armed' = [armed EXCEPT ![l] = TRUE]
  /\ Goto(c, "idle")
  /\ UNCHANGED <<tableVars, portArg, grabbed, lockVars, leaseVars, firing, notices, shutdown>>

(* port_status takes the mutex around `ports`, then the one around `logs`. *)
StatusPorts(c) ==
  /\ pc[c] = "status" /\ portsLock = Free
  /\ portsLock' = c
  /\ Goto(c, "statusLogs")
  /\ UNCHANGED <<tableVars, portArg, grabbed, logsLock, leaseVars, noticeVars, shutdown>>

StatusLogs(c) ==
  /\ pc[c] = "statusLogs" /\ logsLock = Free
  /\ portsLock' = Free
  /\ Goto(c, "idle")
  /\ UNCHANGED <<tableVars, portArg, grabbed, logsLock, leaseVars, noticeVars, shutdown>>

Handler(c) ==
  \/ OpenPort(c) \/ WriteBegin(c) \/ WriteEnd(c) \/ CloseRemove(c)
  \/ TakeNoLog(c) \/ TakeLog(c) \/ JoinLog(c)
  \/ StartSubscribe(c) \/ StartRefused(c) \/ StartInsert(c) \/ UpdateLog(c)
  \/ StatusPorts(c) \/ StatusLogs(c)

-----------------------------------------------------------------------------
(* log_task.                                                               *)

GotoTask(l, where) == task' = [task EXCEPT ![l] = where]
Entries(l) == sent[rx[l].port][rx[l].gen]

(* File::create: when it fails the task ends, and its LogState stays.      *)
LogCreate(l) ==
  /\ task[l] = "creating"
  /\ \E where \in {"running", "done"} : GotoTask(l, where)
  /\ UNCHANGED <<tableVars, clientVars, lockVars, logs, started, rx, cancelled, noticeVars, shutdown>>

(* The branches of select!, which looks at them in a random order: a       *)
(* cancelled task may still receive.                                       *)
LogCancelledAfterRecv(l) ==
  /\ task[l] = "running" /\ cancelled[l]
  /\ HasValue(Entries(l), rx[l].next)
  /\ GotoTask(l, "done")
  /\ UNCHANGED <<tableVars, clientVars, lockVars, logs, started, rx, cancelled, noticeVars, shutdown>>

LogCancelled(l) ==
  /\ task[l] = "running" /\ cancelled[l]
  /\ GotoTask(l, "done")
  /\ UNCHANGED <<tableVars, clientVars, lockVars, logs, started, rx, cancelled, noticeVars, shutdown>>

LogRecv(l) ==
  /\ task[l] = "running"
  /\ HasValue(Entries(l), rx[l].next)
  /\ rx' = [rx EXCEPT ![l].next = @ + 1]
  /\ GotoTask(l, "writing")
  /\ UNCHANGED <<tableVars, clientVars, lockVars, logs, started, cancelled, noticeVars, shutdown>>

LogLagged(l) ==
  /\ task[l] = "running"
  /\ Lagged(Entries(l), rx[l].next)
  /\ rx' = [rx EXCEPT ![l].next = Overwritten(Entries(l))]
  /\ UNCHANGED <<tableVars, clientVars, lockVars, logs, started, task, cancelled, noticeVars, shutdown>>

LogClosed(l) ==
  /\ task[l] = "running"
  /\ ChannelClosed(rx[l].port, rx[l].gen) /\ CaughtUp(Entries(l), rx[l].next)
  /\ GotoTask(l, "done")
  /\ UNCHANGED <<tableVars, clientVars, lockVars, logs, started, rx, cancelled, noticeVars, shutdown>>

(* The entry is in the file; the keyword of this moment is looked up in    *)
(* it.  When it is found the task notifies and ends by itself.             *)
Matches(k, entry) == k = EmptyKeyword \/ k = entry

LogWritten(l) ==
  /\ task[l] = "writing"
  /\ IF Matches(keyword[l], Entries(l)[rx[l].next])
       THEN GotoTask(l, "done") /\ notices' = [notices EXCEPT ![l] = @ + 1]
       ELSE GotoTask(l, "running") /\ UNCHANGED notices
  /\ UNCHANGED <<tableVars, clientVars, lockVars, logs, started, rx, cancelled,
                 keyword, armed, firing, shutdown>>

LogTask(l) == LogCreate(l) \/ LogCancelled(l) \/ LogRecv(l) \/ LogLagged(l)
                \/ LogClosed(l) \/ LogWritten(l)

-----------------------------------------------------------------------------
(* The duration timers.                                                    *)

TimerOnlyNotifies(l) ==
  /\ armed[l]
  /\ armed' = [armed EXCEPT ![l] = FALSE]
  /\ firing' = [firing EXCEPT ![l] = @ + 1]
  /\ UNCHANGED <<tableVars, clientVars, lockVars, leaseVars, keyword, notices, shutdown>>

TimerExpires(l) ==
  /\ armed[l]
  /\ armed' = [armed EXCEPT ![l] = FALSE]
  /\ cancelled' = [cancelled EXCEPT ![l] = TRUE]
  /\ firing' = [firing EXCEPT ![l] = @ + 1]
  /\ UNCHANGED <<tableVars, clientVars, lockVars, logs, started, rx, task, keyword, notices, shutdown>>

TimerNotifies(l) ==
  /\ firing[l] > 0
  /\ firing' = [firing EXCEPT ![l] = @ - 1]
  /\ notices' = [notices EXCEPT ![l] = @ + 1]
  /\ UNCHANGED <<tableVars, clientVars, lockVars, leaseVars, keyword, armed, shutdown>>

Timer(l) == TimerExpires(l) \/ TimerNotifies(l)

-----------------------------------------------------------------------------
(* SIGINT: close_all, and the process exits.  The handlers go on meanwhile.*)

Sigint ==
  /\ shutdown = "none"
  /\ shutdown' = "logs"
  /\ UNCHANGED <<tableVars, clientVars, lockVars, leaseVars, noticeVars>>

DrainLogs ==
  /\ shutdown = "logs" /\ logsLock = Free
  /\ Unregister(Ports)
  /\ shutdown' = "ports"
  /\ UNCHANGED <<tableVars, clientVars, lockVars, started, rx, task, keyword, firing, notices>>

DrainPorts ==
  /\ shutdown = "ports" /\ portsLock = Free
  /\ inMap' = [p \in Ports |-> FALSE]
  /\ reader' = [p \in Ports |-> IF inMap[p] THEN Aborted(reader[p]) ELSE reader[p]]
  /\ shutdown' = "exited"
  /\ UNCHANGED <<opens, sent, clientVars, lockVars, leaseVars, noticeVars>>

CloseAll == DrainLogs \/ DrainPorts

-----------------------------------------------------------------------------

ReadStep(p) ==
  /\ ReadTask(p)
  /\ UNCHANGED <<clientVars, lockVars, leaseVars, noticeVars, shutdown>>

AbortedReaderEnds(p) ==
  /\ ReaderAborted(p)
  /\ UNCHANGED <<clientVars, lockVars, leaseVars, noticeVars, shutdown>>

Alive == shutdown # "exited"

Next ==
  /\ Alive
  /\ \/ \E c \in Clients : Request(c) \/ Handler(c)
     \/ \E l \in LogIds : LogTask(l) \/ Timer(l)
     \/ \E p \in Ports : ReadStep(p)
     \/ Sigint \/ CloseAll

Spec == Init /\ [][Next]_vars

(* tokio::sync::Mutex is FIFO and the runtime polls every woken task: a    *)
(* handler, a log task or a timer that can go on again and again does.     *)
(* select! is random, so a cancelled log task does not receive for ever.   *)
(* Nothing makes clients send requests, devices fail or SIGINT arrive.     *)
(* write_all ends because the device is assumed to accept bytes or fail.   *)
Fairness ==
  /\ \A c \in Clients : SF_vars(Alive /\ Handler(c))
  /\ \A l \in LogIds : /\ SF_vars(Alive /\ LogCancelled(l))
                       /\ WF_vars(Alive /\ LogTask(l))
                       /\ WF_vars(Alive /\ TimerNotifies(l))
  /\ \A p \in Ports : WF_vars(Alive /\ AbortedReaderEnds(p))
  /\ SF_vars(Alive /\ CloseAll)

FairSpec == Spec /\ Fairness

-----------------------------------------------------------------------------
(* Properties.                                                             *)

Live(l) == task[l] \notin {"unused", "done"} /\ ~cancelled[l]

(* Two tasks never record the same port at once, unless one of them has    *)
(* been told to stop (start_log, stop_log, close_port of many clients).    *)
OneLiveLogPerPort ==
  \A l, m \in LogIds : Live(l) /\ Live(m) /\ rx[l].port = rx[m].port => l = m

(* A log that nobody has told to stop can be stopped: stop_log finds it in *)
(* the map, whatever start_log, stop_log, close_port and SIGINT do.        *)
LiveLogIsRegistered == \A l \in LogIds : Live(l) => logs[rx[l].port] = l

(* A timer that sleeps can be aborted: update_log and stop_log find it.    *)
ArmedTimerIsRegistered == \A l \in LogIds : armed[l] => logs[rx[l].port] = l

(* No deadlock among the two mutexes, the joins and the awaits under them: *)
(* every request that dispatch lets in is answered.                        *)
RequestsAnswered ==
  \A c \in Clients : pc[c] # "idle" ~> pc[c] = "idle" \/ ~Alive

(* What a request that waits for nothing but a device or a task is doing;  *)
(* what one does that needs the mutex around `ports`, or around `logs`.    *)
AtWork == {"writing", "stopJoin", "closeJoin"}
NeedsPorts == {"open", "write", "closeRemove", "startLog", "status"}
NeedsLogs == {"stopLog", "closePort", "insertLog", "updateLog", "statusLogs"}

GoesOn(c) ==
  \/ pc[c] \in AtWork
  \/ pc[c] \in NeedsPorts /\ portsLock = Free
  \/ pc[c] \in NeedsLogs /\ logsLock = Free

(* What makes that so: as long as a request is not answered, there is one  *)
(* that neither mutex holds up, although port_status takes the second one  *)
(* under the first and write_port, stop_log and close_port await under     *)
(* one (serial.rs:254, 453).                                               *)
SomebodyGoesOn == (\E c \in Clients : pc[c] # "idle") => \E c \in Clients : GoesOn(c)

(* A log whose port has been closed ends by itself, also the one that      *)
(* start_log inserts after close_port has looked for it.  A port that has  *)
(* been opened again counts as closed for the logs before (MaxOpens > 1).  *)
PortClosed(l) == ~inMap[rx[l].port] \/ rx[l].gen < opens[rx[l].port]

ClosedPortEndsLog ==
  \A l \in LogIds : task[l] # "unused" /\ PortClosed(l) ~> task[l] = "done" \/ ~Alive

(* No entry is forgotten: one that is sent while a log task listens is     *)
(* taken and written by it, also when the ring overruns or the port is     *)
(* closed meanwhile, unless the ring overwrites this very entry or the log *)
(* is told to stop or announces that it has (serial.rs:475-506).           *)
Awaits(l, i) ==
  task[l] \in {"running", "writing"} /\ rx[l].next < i /\ i <= Len(Entries(l))

Writes(l, i) == task[l] = "writing" /\ rx[l].next = i
Loses(l, i) == task[l] # "unused" /\ i <= Overwritten(Entries(l))
Stops(l) == cancelled[l] \/ notices[l] > 0 \/ ~Alive

EntryReachesLog ==
  \A l \in LogIds, i \in 1..MaxEntries :
    Awaits(l, i) ~> Writes(l, i) \/ Loses(l, i) \/ Stops(l)

(* log_stopped is only announced of a log that stops: the timers cancel    *)
(* the token before they notify, and the keyword ends the task.            *)
AnnouncedLogStops == \A l \in LogIds : notices[l] + firing[l] > 0 => ~Live(l)

(* What a message says of the logs, and the code breaks: start_log refuses *)
(* because a log "is already running" (serial.rs:296) only when the task   *)
(* of that log has not ended.                                              *)
RefusedOnlyWhileRunning ==
  [][\A c \in Clients : StartRefused(c) => task[logs[portArg[c]]] # "done"]_vars

-----------------------------------------------------------------------------
(* What the log functions promise, as LogLease states it: a log is a lease *)
(* on its port.  The exit of the process ends every log task.              *)

phase == [l \in LogIds |->
            CASE task[l] = "unused"           -> "unused"
              [] task[l] = "done" \/ (~Alive /\ task[l] # "unused") -> "ended"
              [] Alive /\ Live(l)             -> "recording"
              [] OTHER                        -> "ending"]

owner == [l \in LogIds |-> IF task[l] = "unused" THEN NoOwner ELSE rx[l].port]

Lease == INSTANCE LogLease WITH Resources <- Ports, Leases <- LogIds

(* start_log, stop_log, close_port, the timers, the keywords and SIGINT    *)
(* together implement the lease of a port by one log at a time.            *)
ImplementsLogLease == Lease!Spec

(* A log that is told to stop ends, although select! may choose the data   *)
(* that has come meanwhile (serial.rs:475-483).                            *)
ImplementsFairLease == Lease!FairSpec
==============================================================================
