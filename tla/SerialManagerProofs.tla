------------------------- MODULE SerialManagerProofs -------------------------
(***************************************************************************)
(* Proofs about SerialManager, for every set of clients, ports and data    *)
(* and for every value of the bounds.  The inductive invariant is IInv:    *)
(* type correctness, what a receiver belongs to (Typing), and how the log  *)
(* table, the log tasks, the tokens and the timers fit together (Registry).*)
(***************************************************************************)
EXTENDS SerialManager, TLAPS

(* A port in the map has a channel; a log task and a start_log between its *)
(* two locks own a receiver, the latter one of its own port.               *)
Typing ==
  /\ TypeOK
  /\ \A p \in Ports : inMap[p] => opens[p] > 0
  /\ \A l \in LogIds : task[l] # "unused" => rx[l] \in Receivers
  /\ \A c \in Clients :
       pc[c] = "insertLog" => grabbed[c] \in Receivers /\ grabbed[c].port = portArg[c]

LEMMA TableStepTypes ==
  ASSUME TableTypeOK, NEW p \in Ports, \A q \in Ports : inMap[q] => opens[q] > 0,
         OpenStream(p) \/ RemovePort(p) \/ ReadTask(p)
  PROVE  TableTypeOK' /\ \A q \in Ports : inMap'[q] => opens'[q] > 0
<1> USE TableAssumption DEF TableTypeOK, Channels
<1>1. CASE OpenStream(p)
  BY <1>1 DEF OpenStream
<1>2. CASE RemovePort(p)
  BY <1>2 DEF RemovePort, Aborted
<1>3. CASE ReadData(p)
  <2>1. PICK d \in Data : sent' = [sent EXCEPT ![p][opens[p]] = Append(@, d)]
    BY <1>3 DEF ReadData
  <2>2. \A q \in Seq(Data) : Append(q, d) \in Seq(Data)
    OBVIOUS
  <2>3. [sent[p] EXCEPT ![opens[p]] = Append(@, d)] \in [Channels -> Seq(Data)]
    BY <2>2
  <2>4. sent' \in [Ports -> [Channels -> Seq(Data)]]
    BY <2>1, <2>3
  <2> QED  BY <2>4, <1>3 DEF ReadData
<1>4. CASE ReadFailed(p) \/ ReaderAborted(p)
  BY <1>4 DEF ReadFailed, ReaderAborted
<1> QED  BY <1>1, <1>2, <1>3, <1>4 DEF ReadTask

LEMMA SubscribeType ==
  ASSUME Typing, NEW p \in Ports, inMap[p]
  PROVE  Subscribe(p) \in Receivers /\ Subscribe(p).port = p
<1>1. opens[p] \in Channels
  BY TableAssumption DEF Typing, TypeOK, TableTypeOK, Channels
<1>2. sent[p][opens[p]] \in Seq(Data)
  BY <1>1 DEF Typing, TypeOK, TableTypeOK
<1> QED  BY <1>1, <1>2 DEF Subscribe, Receivers

LEMMA EntriesType ==
  ASSUME Typing, NEW l \in LogIds, task[l] # "unused"
  PROVE  /\ Entries(l) \in Seq(Data)
         /\ Overwritten(Entries(l)) \in Nat
         /\ rx[l] \in Receivers
<1>1. rx[l] \in Receivers
  BY DEF Typing
<1>2. Entries(l) \in Seq(Data)
  BY <1>1 DEF Typing, TypeOK, TableTypeOK, Entries, Receivers
<1> QED  BY <1>1, <1>2, CapacityAssumption DEF Overwritten

LEMMA TypingInit == Init => Typing
  BY ManagerAssumption, TableAssumption
  DEF Init, TableInit, Typing, TypeOK, TableTypeOK, Stretches, StopKeywords, NoLog, LogIds

(* A handler that moves to a stretch other than start_log's second one.    *)
LEMMA GotoTypes ==
  ASSUME pc \in [Clients -> Stretches], NEW c \in Clients,
         NEW s \in Stretches \ {"insertLog"}, Goto(c, s)
  PROVE  /\ pc' \in [Clients -> Stretches]
         /\ \A d \in Clients : pc'[d] = "insertLog" => pc[d] = "insertLog"
BY DEF Goto

LEMMA TypingStep == Typing /\ [Next]_vars => Typing'
<1> SUFFICES ASSUME Typing, [Next]_vars PROVE Typing'
  OBVIOUS
<1> USE DEF Typing
<1> USE ManagerAssumption DEF TypeOK, NoLog, LogIds, Goto, GotoTask
<1>1. CASE UNCHANGED vars
  BY <1>1 DEF vars, tableVars, clientVars, lockVars, leaseVars, noticeVars, TableTypeOK
<1>2. ASSUME NEW c \in Clients, Request(c) PROVE Typing'
  <2>1. /\ pc' \in [Clients -> Stretches] /\ portArg' \in [Clients -> Ports]
        /\ \A d \in Clients : pc'[d] = "insertLog" => pc[d] = "insertLog" /\ portArg'[d] = portArg[d]
    <3>1. PICK cmd \in Commands[c], p \in Ports : pc' = [pc EXCEPT ![c] = cmd] /\ portArg' = [portArg EXCEPT ![c] = p]
      BY <1>2 DEF Request
    <3>2. cmd \in Stretches /\ cmd # "insertLog"
      BY DEF Stretches, AllCommands
    <3> QED  BY <3>1, <3>2
  <2> QED  BY <1>2, <2>1 DEF Request, tableVars, lockVars, leaseVars, noticeVars, TableTypeOK
<1>3. ASSUME NEW c \in Clients, OpenPort(c) PROVE Typing'
  <2>1. TableTypeOK' /\ \A q \in Ports : inMap'[q] => opens'[q] > 0
    BY <1>3, TableStepTypes DEF OpenPort, tableVars, TableTypeOK
  <2> QED  BY <1>3, <2>1 DEF OpenPort, lockVars, leaseVars, noticeVars, Stretches
<1>4. ASSUME NEW c \in Clients, WriteBegin(c) \/ WriteEnd(c) PROVE Typing'
  <2>1. CASE WriteBegin(c)
    <3>1. /\ pc' \in [Clients -> Stretches]
          /\ \A d \in Clients : pc'[d] = "insertLog" => pc[d] = "insertLog"
      <4>1. \/ pc' = [pc EXCEPT ![c] = "writing"]
            \/ pc' = [pc EXCEPT ![c] = "idle"]
        BY <2>1 DEF WriteBegin
      <4>2. "writing" \in Stretches /\ "idle" \in Stretches
        BY DEF Stretches
      <4> QED  BY <4>1, <4>2
    <3>2. portsLock' \in Clients \cup {Free}
      BY <2>1 DEF WriteBegin
    <3>3. /\ TableTypeOK' /\ UNCHANGED <<tableVars, portArg, grabbed, logsLock, leaseVars, noticeVars, shutdown>>
      BY <2>1 DEF WriteBegin, tableVars, TableTypeOK
    <3> QED  BY <3>1, <3>2, <3>3 DEF tableVars, leaseVars, noticeVars
  <2>2. CASE WriteEnd(c)
    BY <2>2 DEF WriteEnd, tableVars, leaseVars, noticeVars, TableTypeOK, Stretches
  <2> QED  BY <1>4, <2>1, <2>2
<1>5. ASSUME NEW c \in Clients, CloseRemove(c) PROVE Typing'
  <2>1. TableTypeOK' /\ \A q \in Ports : inMap'[q] => opens'[q] > 0
    BY <1>5, TableStepTypes DEF CloseRemove, tableVars, TableTypeOK
  <2> QED  BY <1>5, <2>1 DEF CloseRemove, lockVars, leaseVars, noticeVars, Stretches
<1>6. ASSUME NEW c \in Clients, TakeNoLog(c) \/ JoinLog(c) PROVE Typing'
  <2>1. \E s \in {"idle", "closeRemove"} : Goto(c, s)
    BY <1>6 DEF TakeNoLog, JoinLog
  <2>2. /\ pc' \in [Clients -> Stretches]
        /\ \A d \in Clients : pc'[d] = "insertLog" => pc[d] = "insertLog"
    BY <2>1, GotoTypes DEF Stretches
  <2>3. logsLock' \in Clients \cup {Free}
    BY <1>6 DEF TakeNoLog, JoinLog, lockVars
  <2>4. UNCHANGED <<tableVars, portArg, grabbed, portsLock, leaseVars, noticeVars, shutdown>>
    BY <1>6 DEF TakeNoLog, JoinLog, lockVars
  <2> QED  BY <2>2, <2>3, <2>4 DEF tableVars, leaseVars, noticeVars, TableTypeOK
<1>7. ASSUME NEW c \in Clients, TakeLog(c) PROVE Typing'
  BY <1>7 DEF TakeLog, Unregister, tableVars, TableTypeOK, Stretches
<1>8. ASSUME NEW c \in Clients, StartSubscribe(c) PROVE Typing'
  <2>1. CASE inMap[portArg[c]]
    <3>1. Subscribe(portArg[c]) \in Receivers /\ Subscribe(portArg[c]).port = portArg[c]
      BY <2>1, SubscribeType
    <3>2. grabbed' = [grabbed EXCEPT ![c] = Subscribe(portArg[c])] /\ pc' = [pc EXCEPT ![c] = "insertLog"]
      BY <1>8, <2>1 DEF StartSubscribe
    <3> QED  BY <1>8, <3>1, <3>2
             DEF StartSubscribe, tableVars, lockVars, leaseVars, noticeVars, TableTypeOK, Stretches
  <2>2. CASE ~inMap[portArg[c]]
    BY <1>8, <2>2
    DEF StartSubscribe, tableVars, lockVars, leaseVars, noticeVars, TableTypeOK, Stretches
  <2> QED  BY <2>1, <2>2
<1>9. ASSUME NEW c \in Clients, StartRefused(c) PROVE Typing'
  BY <1>9 DEF StartRefused, tableVars, lockVars, leaseVars, noticeVars, TableTypeOK, Stretches
<1>10. ASSUME NEW c \in Clients, StartInsert(c) PROVE Typing'
  <2>1. started' \in LogIds
    BY <1>10 DEF StartInsert
  <2>2. grabbed[c] \in Receivers
    BY <1>10 DEF StartInsert
  <2>3. /\ rx' \in [LogIds -> Receivers \cup {NoRx}]
        /\ \A l \in LogIds : task'[l] # "unused" => rx'[l] \in Receivers
    BY <1>10, <2>1, <2>2 DEF StartInsert
  <2>4. TableTypeOK' /\ UNCHANGED <<inMap, opens, portArg, lockVars, cancelled, firing, notices, shutdown>>
    BY <1>10 DEF StartInsert, tableVars, TableTypeOK
  <2>5. /\ pc' \in [Clients -> Stretches]
        /\ grabbed' \in [Clients -> Receivers \cup {NoRx}]
        /\ \A d \in Clients : pc'[d] = "insertLog" => pc[d] = "insertLog" /\ grabbed'[d] = grabbed[d]
    BY <1>10 DEF StartInsert, Stretches
  <2>6. /\ logs' \in [Ports -> LogIds \cup {NoLog}]
        /\ started' \in 0..MaxLogs
        /\ task' \in [LogIds -> {"unused", "creating", "running", "writing", "done"}]
        /\ keyword' \in [LogIds -> StopKeywords]
        /\ armed' \in [LogIds -> BOOLEAN]
    BY <1>10, <2>1 DEF StartInsert, StopKeywords
  <2> QED  BY <2>3, <2>4, <2>5, <2>6 DEF lockVars
<1>11. ASSUME NEW c \in Clients, UpdateLog(c) PROVE Typing'
  <2>1. logs[portArg[c]] \in LogIds \cup {NoLog}
    OBVIOUS
  <2>2. keyword' \in [LogIds -> StopKeywords]
    BY <1>11, <2>1 DEF UpdateLog, StopKeywords
  <2>3. armed' \in [LogIds -> BOOLEAN]
    BY <1>11, <2>1 DEF UpdateLog
  <2>4. /\ pc' \in [Clients -> Stretches]
        /\ \A d \in Clients : pc'[d] = "insertLog" => pc[d] = "insertLog"
    BY <1>11, GotoTypes DEF UpdateLog, Stretches
  <2>5. UNCHANGED <<tableVars, portArg, grabbed, lockVars, leaseVars, firing, notices, shutdown>>
    BY <1>11 DEF UpdateLog
  <2> QED  BY <2>2, <2>3, <2>4, <2>5 DEF tableVars, lockVars, leaseVars, TableTypeOK
<1>12. ASSUME NEW c \in Clients, StatusPorts(c) \/ StatusLogs(c) PROVE Typing'
  <2>1. \E s \in {"idle", "statusLogs"} : Goto(c, s)
    BY <1>12 DEF StatusPorts, StatusLogs
  <2>2. /\ pc' \in [Clients -> Stretches]
        /\ \A d \in Clients : pc'[d] = "insertLog" => pc[d] = "insertLog"
    BY <2>1, GotoTypes DEF Stretches
  <2>3. portsLock' \in Clients \cup {Free}
    BY <1>12 DEF StatusPorts, StatusLogs
  <2>4. UNCHANGED <<tableVars, portArg, grabbed, logsLock, leaseVars, noticeVars, shutdown>>
    BY <1>12 DEF StatusPorts, StatusLogs
  <2> QED  BY <2>2, <2>3, <2>4 DEF tableVars, leaseVars, noticeVars, TableTypeOK
<1>13. ASSUME NEW l \in LogIds, LogTask(l) PROVE Typing'
  <2>1. UNCHANGED <<tableVars, clientVars, lockVars, logs, started, cancelled,
                    keyword, armed, firing, shutdown>>
    <3>1. CASE LogCreate(l) \/ LogCancelled(l) \/ LogLagged(l) \/ LogClosed(l)
      BY <3>1 DEF LogCreate, LogCancelled, LogLagged, LogClosed, noticeVars
    <3>2. CASE LogRecv(l) \/ LogWritten(l)
      BY <3>2 DEF LogRecv, LogWritten, noticeVars
    <3> QED  BY <1>13, <3>1, <3>2 DEF LogTask
  <2>2. task[l] # "unused" /\ task' \in [LogIds -> {"unused", "creating", "running", "writing", "done"}]
    <3>1. CASE LogLagged(l)
      BY <3>1 DEF LogLagged
    <3>2. CASE LogCreate(l) \/ LogCancelled(l) \/ LogRecv(l) \/ LogClosed(l) \/ LogWritten(l)
      <4>1. \E where \in {"running", "writing", "done"} : GotoTask(l, where)
        BY <3>2 DEF LogCreate, LogCancelled, LogRecv, LogClosed, LogWritten
      <4>2. task[l] # "unused"
        BY <3>2 DEF LogCreate, LogCancelled, LogRecv, LogClosed, LogWritten
      <4> QED  BY <4>1, <4>2
    <3> QED  BY <1>13, <3>1, <3>2 DEF LogTask
  <2>3. notices' \in [LogIds -> Nat]
    BY <1>13 DEF LogTask, LogCreate, LogCancelled, LogRecv, LogLagged, LogClosed, LogWritten, noticeVars
  <2>4. \A m \in LogIds : m # l => task'[m] = task[m] /\ rx'[m] = rx[m]
    BY <1>13 DEF LogTask, LogCreate, LogCancelled, LogRecv, LogLagged, LogClosed, LogWritten
  <2>5. rx' \in [LogIds -> Receivers \cup {NoRx}] /\ rx'[l] \in Receivers
    <3>1. rx[l] \in Receivers /\ Overwritten(Entries(l)) \in Nat
      BY <2>2, EntriesType
    <3>2. CASE UNCHANGED rx
      BY <3>1, <3>2
    <3>3. CASE \E n \in Nat : rx' = [rx EXCEPT ![l].next = n]
      <4>1. PICK n \in Nat : rx' = [rx EXCEPT ![l].next = n]
        BY <3>3
      <4>2. [rx[l] EXCEPT !.next = n] \in Receivers
        BY <3>1 DEF Receivers
      <4> QED  BY <4>1, <4>2
    <3>4. UNCHANGED rx \/ \E n \in Nat : rx' = [rx EXCEPT ![l].next = n]
      BY <1>13, <3>1 DEF LogTask, LogCreate, LogCancelled, LogRecv, LogLagged, LogClosed, LogWritten,
                         Receivers
    <3> QED  BY <3>2, <3>3, <3>4
  <2> QED  BY <2>1, <2>2, <2>3, <2>4, <2>5 DEF tableVars, clientVars, lockVars, TableTypeOK
<1>14. ASSUME NEW l \in LogIds, Timer(l) PROVE Typing'
  <2>1. CASE TimerExpires(l)
    BY <2>1 DEF TimerExpires, tableVars, clientVars, lockVars, TableTypeOK
  <2>2. CASE TimerNotifies(l)
    <3>1. firing' \in [LogIds -> Nat] /\ notices' \in [LogIds -> Nat]
      BY <2>2 DEF TimerNotifies
    <3> QED  BY <2>2, <3>1 DEF TimerNotifies, tableVars, clientVars, lockVars, leaseVars, TableTypeOK
  <2> QED  BY <1>14, <2>1, <2>2 DEF Timer
<1>15. ASSUME NEW p \in Ports, ReadStep(p) PROVE Typing'
  <2>1. TableTypeOK' /\ \A q \in Ports : inMap'[q] => opens'[q] > 0
    BY <1>15, TableStepTypes DEF ReadStep
  <2> QED  BY <1>15, <2>1 DEF ReadStep, clientVars, lockVars, leaseVars, noticeVars
<1>16. CASE Sigint \/ DrainLogs
  <2>1. CASE Sigint
    BY <2>1 DEF Sigint, tableVars, clientVars, lockVars, leaseVars, noticeVars, TableTypeOK
  <2>2. CASE DrainLogs
    BY <2>2 DEF DrainLogs, Unregister, tableVars, clientVars, lockVars, TableTypeOK
  <2> QED  BY <1>16, <2>1, <2>2
<1>17. CASE DrainPorts
  BY <1>17 DEF DrainPorts, Aborted, clientVars, lockVars, leaseVars, noticeVars, TableTypeOK
<1> QED
  BY <1>1, <1>2, <1>3, <1>4, <1>5, <1>6, <1>7, <1>8, <1>9, <1>10, <1>11, <1>12, <1>13, <1>14, <1>15,
     <1>16, <1>17 DEF Next, Handler, CloseAll

(* Every state of SerialManager is of its type: in particular a receiver   *)
(* always belongs to an existing channel, whatever is opened and closed    *)
(* between start_log's two locks (open_port, close_port, start_log).       *)
THEOREM TypeCorrect == Spec => []TypeOK
<1>1. Typing => TypeOK
  BY DEF Typing
<1> QED  BY TypingInit, TypingStep, <1>1, PTL DEF Spec

(* How logs, rx, task, cancelled and armed fit together.  LiveLogIs-       *)
(* Registered alone is not inductive: that a log inserted for a port is    *)
(* the port's only live one follows from the entries naming logs of their  *)
(* own port, and that a fresh number is in no entry from Numbering.        *)
Numbering ==
  /\ \A l \in LogIds : task[l] # "unused" <=> l <= started
  /\ \A l \in LogIds : cancelled[l] \/ armed[l] => l <= started
  /\ \A p \in Ports : logs[p] <= started

EntriesOfOwnPort == \A p \in Ports : Registered(p) => rx[logs[p]].port = p

Registry ==
  /\ Numbering
  /\ EntriesOfOwnPort
  /\ LiveLogIsRegistered
  /\ ArmedTimerIsRegistered

IInv == Typing /\ Registry

LEMMA IInvInit == Init => IInv
<1>1. Init => Registry
  BY ManagerAssumption
  DEF Init, Registry, Numbering, EntriesOfOwnPort, LiveLogIsRegistered, ArmedTimerIsRegistered,
      Registered, Live, LogIds, NoLog
<1> QED  BY <1>1, TypingInit DEF IInv

(* Steps that leave the table and its logs alone.                          *)
LEMMA RegistryUnchanged ==
  ASSUME Registry, UNCHANGED <<leaseVars, armed>>
  PROVE  Registry'
BY DEF Registry, Numbering, EntriesOfOwnPort, LiveLogIsRegistered, ArmedTimerIsRegistered,
       Registered, Live, leaseVars

(* stop_log, close_port and SIGINT: the logs that lose their entries are   *)
(* exactly those that are cancelled and lose their timer.                  *)
LEMMA RegistryUnregister ==
  ASSUME IInv, NEW S \in SUBSET Ports, Unregister(S), UNCHANGED <<started, rx, task>>
  PROVE  Registry'
<1> USE DEF IInv, Typing, TypeOK, Registry, Registered, NoLog
<1>1. \A p \in Ports : logs'[p] = IF p \in S THEN NoLog ELSE logs[p]
  BY DEF Unregister
<1>2. ASSUME NEW l \in LogIds, task[l] # "unused", logs[rx[l].port] = l, logs'[rx[l].port] # l
      PROVE  cancelled'[l] /\ ~(armed'[l])
  <2>1. rx[l].port \in S
    BY <1>1, <1>2 DEF Receivers
  <2>2. l \in {logs[p] : p \in S}
    BY <1>2, <2>1
  <2> QED  BY <2>2 DEF Unregister
<1>3. Numbering'
  <2>1. ASSUME NEW l \in LogIds, cancelled'[l] \/ armed'[l] PROVE l <= started
    <3>1. cancelled[l] \/ armed[l] \/ \E p \in S : l = logs[p]
      BY <2>1 DEF Unregister
    <3> QED  BY <3>1 DEF Numbering
  <2>2. \A p \in Ports : logs'[p] <= started
    BY <1>1, ManagerAssumption DEF Numbering
  <2>3. \A l \in LogIds : task'[l] # "unused" <=> l <= started'
    BY DEF Numbering
  <2> QED  BY <2>1, <2>2, <2>3 DEF Numbering
<1>4. EntriesOfOwnPort'
  BY <1>1 DEF EntriesOfOwnPort
<1>5. LiveLogIsRegistered'
  BY <1>2 DEF LiveLogIsRegistered, Live, Unregister
<1>6. ArmedTimerIsRegistered'
  BY <1>2 DEF ArmedTimerIsRegistered, Numbering, Unregister
<1> QED  BY <1>3, <1>4, <1>5, <1>6

(* start_log enters a fresh log for a port that has no entry.              *)
LEMMA RegistryInsert ==
  ASSUME IInv, NEW c \in Clients, StartInsert(c)
  PROVE  Registry'
<1> DEFINE new == started + 1
           p == portArg[c]
<1> USE DEF IInv, Typing, TypeOK, Registry, Registered, NoLog
<1>1. /\ new \in LogIds /\ p \in Ports /\ new # NoLog
      /\ grabbed[c].port = p
      /\ logs[p] = NoLog
  BY ManagerAssumption DEF StartInsert, LogIds
<1>2. /\ started' = new
      /\ logs' = [logs EXCEPT ![p] = new]
      /\ rx' = [rx EXCEPT ![new] = grabbed[c]]
      /\ task' = [task EXCEPT ![new] = "creating"]
      /\ UNCHANGED cancelled
      /\ \A l \in LogIds : l # new => armed'[l] = armed[l]
  BY DEF StartInsert
<1>3. \A q \in Ports : logs[q] # new
  BY ManagerAssumption DEF Numbering
<1> HIDE DEF new, p
<1>4. Numbering'
  <2>1. \A l \in LogIds : l <= new <=> l <= started \/ l = new
    BY ManagerAssumption DEF new, LogIds
  <2>2. \A q \in Ports : logs'[q] <= new
    BY <1>1, <1>2, ManagerAssumption DEF Numbering, new, LogIds
  <2> QED  BY <1>1, <1>2, <2>1, <2>2 DEF Numbering
<1>5. EntriesOfOwnPort'
  BY <1>1, <1>2, <1>3 DEF EntriesOfOwnPort
<1>6. ASSUME NEW l \in LogIds, l # new, task[l] # "unused", logs[rx[l].port] = l
      PROVE  logs'[rx'[l].port] = l
  <2>1. rx[l].port # p
    BY <1>1, <1>6 DEF LogIds
  <2> QED  BY <1>2, <1>6, <2>1 DEF Receivers
<1>7. logs'[rx'[new].port] = new
  BY <1>1, <1>2
<1>8. LiveLogIsRegistered'
  BY <1>2, <1>6, <1>7 DEF LiveLogIsRegistered, Live
<1>9. ArmedTimerIsRegistered'
  BY <1>2, <1>6, <1>7 DEF ArmedTimerIsRegistered, Numbering
<1> QED  BY <1>4, <1>5, <1>8, <1>9

(* The log task keeps its port, and it never becomes live again.           *)
LEMMA LogTaskKeeps ==
  ASSUME Typing, NEW l \in LogIds, LogTask(l)
  PROVE  /\ task[l] # "unused" /\ task'[l] # "unused" /\ task[l] # "done"
         /\ \A m \in LogIds : m # l => task'[m] = task[m]
         /\ \A m \in LogIds : rx'[m].port = rx[m].port
         /\ UNCHANGED <<logs, started, cancelled, armed, shutdown>>
<1> USE DEF Typing, TypeOK
<1>1. \A m \in LogIds : rx'[m].port = rx[m].port
  <2>1. UNCHANGED rx \/ \E n : rx' = [rx EXCEPT ![l].next = n]
    BY DEF LogTask, LogCreate, LogCancelled, LogRecv, LogLagged, LogClosed, LogWritten
  <2>2. rx[l] \in Receivers
    BY EntriesType DEF LogTask, LogCreate, LogCancelled, LogRecv, LogLagged, LogClosed, LogWritten
  <2>3. ASSUME NEW n, rx' = [rx EXCEPT ![l].next = n]
        PROVE  \A m \in LogIds : rx'[m].port = rx[m].port
    BY <2>2, <2>3 DEF Receivers
  <2> QED  BY <2>1, <2>3
<1> QED
  BY <1>1 DEF LogTask, LogCreate, LogCancelled, LogRecv, LogLagged, LogClosed, LogWritten,
              GotoTask, noticeVars

LEMMA RegistryTask ==
  ASSUME IInv, NEW l \in LogIds, LogTask(l)
  PROVE  Registry'
<1>1. /\ task[l] # "unused" /\ task'[l] # "unused" /\ task[l] # "done"
      /\ \A m \in LogIds : m # l => task'[m] = task[m]
      /\ \A m \in LogIds : rx'[m].port = rx[m].port
      /\ UNCHANGED <<logs, started, cancelled, armed>>
  BY LogTaskKeeps DEF IInv
<1>2. \A m \in LogIds : Live(m)' => Live(m)
  BY <1>1 DEF Live
<1>3. \A p \in Ports : Registered(p) => logs[p] \in LogIds
  BY DEF IInv, Typing, TypeOK, Registered
<1> QED
  BY <1>1, <1>2, <1>3
  DEF IInv, Registry, Numbering, EntriesOfOwnPort, LiveLogIsRegistered, ArmedTimerIsRegistered, Registered

LEMMA IInvStep == IInv /\ [Next]_vars => IInv'
<1> SUFFICES ASSUME IInv, [Next]_vars PROVE Registry'
  BY TypingStep DEF IInv
<1>1. CASE UNCHANGED vars
  BY <1>1, RegistryUnchanged DEF vars, IInv, noticeVars, leaseVars
<1>2. ASSUME NEW c \in Clients, Request(c) \/ Handler(c),
             ~StartInsert(c), ~TakeLog(c), ~UpdateLog(c)
      PROVE  Registry'
  <2>1. UNCHANGED <<leaseVars, armed>>
    BY <1>2 DEF Request, Handler, OpenPort, WriteBegin, WriteEnd, CloseRemove, TakeNoLog, JoinLog,
                StartSubscribe, StartRefused, StatusPorts, StatusLogs, noticeVars
  <2> QED  BY <2>1, RegistryUnchanged DEF IInv
<1>3. ASSUME NEW c \in Clients, StartInsert(c) PROVE Registry'
  BY <1>3, RegistryInsert
<1>4. ASSUME NEW c \in Clients, TakeLog(c) PROVE Registry'
  <2>1. {portArg[c]} \in SUBSET Ports
    BY DEF IInv, Typing, TypeOK
  <2> QED  BY <1>4, <2>1, RegistryUnregister DEF TakeLog
<1>5. ASSUME NEW c \in Clients, UpdateLog(c) PROVE Registry'
  <2>1. CASE UNCHANGED armed
    BY <1>5, <2>1, RegistryUnchanged DEF UpdateLog, IInv
  <2>2. CASE /\ logs[portArg[c]] # NoLog
             /\ armed' = [armed EXCEPT ![logs[portArg[c]]] = TRUE]
             /\ UNCHANGED leaseVars
    BY <2>2 DEF IInv, Typing, TypeOK, Registry, Numbering, EntriesOfOwnPort, LiveLogIsRegistered,
                ArmedTimerIsRegistered, Registered, Live, leaseVars
  <2> QED  BY <1>5, <2>1, <2>2 DEF UpdateLog
<1>6. ASSUME NEW l \in LogIds, LogTask(l) PROVE Registry'
  BY <1>6, RegistryTask
<1>7. ASSUME NEW l \in LogIds, TimerExpires(l) PROVE Registry'
  BY <1>7 DEF TimerExpires, IInv, Typing, TypeOK, Registry, Numbering, EntriesOfOwnPort,
              LiveLogIsRegistered, ArmedTimerIsRegistered, Registered, Live
<1>8. ASSUME NEW l \in LogIds, TimerNotifies(l) PROVE Registry'
  BY <1>8, RegistryUnchanged DEF TimerNotifies, IInv
<1>9. ASSUME NEW p \in Ports, ReadStep(p) PROVE Registry'
  BY <1>9, RegistryUnchanged DEF ReadStep, noticeVars, IInv
<1>10. CASE Sigint \/ DrainPorts
  BY <1>10, RegistryUnchanged DEF Sigint, DrainPorts, noticeVars, IInv
<1>11. CASE DrainLogs
  BY <1>11, RegistryUnregister DEF DrainLogs
<1> QED
  BY <1>1, <1>2, <1>3, <1>4, <1>5, <1>6, <1>7, <1>8, <1>9, <1>10, <1>11 DEF Next, Timer, CloseAll

(* A log that nobody has told to stop can be stopped by stop_log: it is    *)
(* found in the map, whatever the handlers, the tasks and SIGINT           *)
(* interleave.                                                             *)
THEOREM LiveLogsRegistered == Spec => []LiveLogIsRegistered
<1>1. IInv => LiveLogIsRegistered
  BY DEF IInv, Registry
<1> QED  BY IInvInit, IInvStep, <1>1, PTL DEF Spec

(* A timer that sleeps is found in the map by update_log, stop_log and     *)
(* close_port: none can stop a later log of its port.                      *)
THEOREM ArmedTimersRegistered == Spec => []ArmedTimerIsRegistered
<1>1. IInv => ArmedTimerIsRegistered
  BY DEF IInv, Registry
<1> QED  BY IInvInit, IInvStep, <1>1, PTL DEF Spec

(* No two log tasks record one port at once, unless one of them has been   *)
(* told to stop (start_log, stop_log, close_port).                         *)
THEOREM LogExclusion == Spec => []OneLiveLogPerPort
<1>1. IInv => OneLiveLogPerPort
  BY DEF IInv, Registry, LiveLogIsRegistered, OneLiveLogPerPort
<1> QED  BY IInvInit, IInvStep, <1>1, PTL DEF Spec

-----------------------------------------------------------------------------
(* What log_stopped announces.                                             *)

(* AnnouncedLogStops needs two more facts to be inductive: a number that   *)
(* start_log has not given out has announced nothing, so that a fresh log  *)
(* is not born announced; and (Numbering) only a log that exists is armed. *)
FreshIsSilent ==
  \A l \in LogIds : notices[l] + firing[l] > 0 => task[l] # "unused"

Announcement == FreshIsSilent /\ AnnouncedLogStops

(* A step that notifies of nothing, revives no log and forgets none.       *)
LEMMA AnnouncementKept ==
  ASSUME Announcement,
         UNCHANGED <<notices, firing>>,
         \A l \in LogIds : task[l] # "unused" => (task'[l] # "unused" /\ (Live(l)' => Live(l)))
  PROVE  Announcement'
BY DEF Announcement, FreshIsSilent, AnnouncedLogStops

(* The keyword ends the task in the step in which it notifies.             *)
LEMMA AnnouncementTask ==
  ASSUME IInv, Announcement, NEW l \in LogIds, LogTask(l)
  PROVE  Announcement'
<1>1. /\ task[l] # "unused" /\ task'[l] # "unused" /\ task[l] # "done"
      /\ \A m \in LogIds : m # l => task'[m] = task[m]
      /\ UNCHANGED cancelled
  BY LogTaskKeeps DEF IInv
<1>2. \A m \in LogIds : task[m] # "unused" => (task'[m] # "unused" /\ (Live(m)' => Live(m)))
  BY <1>1 DEF Live
<1>3. CASE UNCHANGED <<notices, firing>>
  BY <1>2, <1>3, AnnouncementKept
<1>4. CASE LogWritten(l) /\ task' = [task EXCEPT ![l] = "done"]
                        /\ notices' = [notices EXCEPT ![l] = @ + 1]
  <2>1. ~Live(l)'
    BY <1>4 DEF IInv, Typing, TypeOK, Live
  <2>2. UNCHANGED firing /\ \A m \in LogIds : m # l => notices'[m] = notices[m]
    BY <1>4 DEF LogWritten, IInv, Typing, TypeOK
  <2> QED  BY <1>1, <1>2, <2>1, <2>2 DEF Announcement, FreshIsSilent, AnnouncedLogStops
<1> QED
  BY <1>3, <1>4 DEF LogTask, LogCreate, LogCancelled, LogRecv, LogLagged, LogClosed, LogWritten,
                    GotoTask, noticeVars

LEMMA AnnouncementInsert ==
  ASSUME IInv, Announcement, NEW c \in Clients, StartInsert(c)
  PROVE  Announcement'
<1> DEFINE new == started + 1
<1> USE DEF IInv, Typing, TypeOK
<1>1. new \in LogIds /\ task[new] = "unused"
  BY ManagerAssumption DEF StartInsert, LogIds, Registry, Numbering
<1>2. /\ task' = [task EXCEPT ![new] = "creating"]
      /\ UNCHANGED <<notices, firing, cancelled>>
  BY DEF StartInsert
<1> HIDE DEF new
<1>3. \A l \in LogIds : task[l] # "unused" => (task'[l] # "unused" /\ (Live(l)' => Live(l)))
  BY <1>1, <1>2 DEF Live
<1> QED  BY <1>2, <1>3, AnnouncementKept

(* A timer cancels the token before it notifies.                           *)
LEMMA AnnouncementTimer ==
  ASSUME IInv, Announcement, NEW l \in LogIds, Timer(l)
  PROVE  Announcement'
<1> USE DEF IInv, Typing, TypeOK
<1>1. CASE TimerExpires(l)
  <2>1. task[l] # "unused"
    BY <1>1 DEF TimerExpires, Registry, Numbering
  <2>2. ~Live(l)' /\ UNCHANGED <<task, notices>>
    BY <1>1 DEF TimerExpires, Live
  <2>3. \A m \in LogIds : m # l => firing'[m] = firing[m] /\ cancelled'[m] = cancelled[m]
    BY <1>1 DEF TimerExpires
  <2> QED  BY <2>1, <2>2, <2>3 DEF Announcement, FreshIsSilent, AnnouncedLogStops, Live
<1>2. CASE TimerNotifies(l)
  <2>1. /\ firing[l] > 0
        /\ firing' = [firing EXCEPT ![l] = @ - 1]
        /\ notices' = [notices EXCEPT ![l] = @ + 1]
    BY <1>2 DEF TimerNotifies
  <2>2. \A m \in LogIds : notices'[m] + firing'[m] = notices[m] + firing[m]
    BY <2>1
  <2>3. UNCHANGED <<task, cancelled>>
    BY <1>2 DEF TimerNotifies, leaseVars
  <2> QED  BY <2>2, <2>3 DEF Announcement, FreshIsSilent, AnnouncedLogStops, Live
<1> QED  BY <1>1, <1>2 DEF Timer

LEMMA AnnouncementStep == IInv /\ Announcement /\ [Next]_vars => Announcement'
<1> SUFFICES ASSUME IInv, Announcement, [Next]_vars PROVE Announcement'
  OBVIOUS
<1> DEFINE Kept == /\ UNCHANGED <<notices, firing>>
                   /\ \A l \in LogIds :
                        task[l] # "unused" => (task'[l] # "unused" /\ (Live(l)' => Live(l)))
<1>1. CASE UNCHANGED vars
  <2>1. Kept
    BY <1>1 DEF vars, leaseVars, noticeVars, Live
  <2> QED  BY <2>1, AnnouncementKept
<1>2. ASSUME NEW c \in Clients, Request(c) \/ Handler(c), ~StartInsert(c), ~TakeLog(c)
      PROVE  Announcement'
  <2>1. UNCHANGED <<task, cancelled, notices, firing>>
    BY <1>2 DEF Request, Handler, OpenPort, WriteBegin, WriteEnd, CloseRemove, TakeNoLog, JoinLog,
                StartSubscribe, StartRefused, UpdateLog, StatusPorts, StatusLogs, leaseVars, noticeVars
  <2>2. Kept
    BY <2>1 DEF Live
  <2> QED  BY <2>2, AnnouncementKept
<1>3. ASSUME NEW c \in Clients, StartInsert(c) PROVE Announcement'
  BY <1>3, AnnouncementInsert
<1>4. ASSUME NEW S, Unregister(S), UNCHANGED <<task, notices, firing>> PROVE Announcement'
  <2>1. \A l \in LogIds : cancelled[l] => cancelled'[l]
    BY <1>4 DEF Unregister
  <2>2. Kept
    BY <1>4, <2>1 DEF Live
  <2> QED  BY <2>2, AnnouncementKept
<1>5. ASSUME NEW c \in Clients, TakeLog(c) PROVE Announcement'
  BY <1>4, <1>5 DEF TakeLog
<1>6. CASE DrainLogs
  BY <1>4, <1>6 DEF DrainLogs
<1>7. ASSUME NEW l \in LogIds, LogTask(l) PROVE Announcement'
  BY <1>7, AnnouncementTask
<1>8. ASSUME NEW l \in LogIds, Timer(l) PROVE Announcement'
  BY <1>8, AnnouncementTimer
<1>9. CASE (\E p \in Ports : ReadStep(p)) \/ Sigint \/ DrainPorts
  <2>1. UNCHANGED <<task, cancelled, notices, firing>>
    BY <1>9 DEF ReadStep, Sigint, DrainPorts, leaseVars, noticeVars
  <2>2. Kept
    BY <2>1 DEF Live
  <2> QED  BY <2>2, AnnouncementKept
<1> QED
  BY <1>1, <1>2, <1>3, <1>5, <1>6, <1>7, <1>8, <1>9 DEF Next, CloseAll

(* log_stopped is announced of no log that goes on: neither by the timers, *)
(* which cancel before they notify and may still be about to when their    *)
(* abort comes, nor by the keyword (duration_task, log_task, update_log).  *)
THEOREM AnnouncedStops == Spec => []AnnouncedLogStops
<1>1. Init => Announcement
  BY DEF Init, Announcement, FreshIsSilent, AnnouncedLogStops
<1>2. Announcement => AnnouncedLogStops
  BY DEF Announcement
<1> QED  BY IInvInit, IInvStep, AnnouncementStep, <1>1, <1>2, PTL DEF Spec

-----------------------------------------------------------------------------
(* SerialManager implements LogLease.                                      *)

(* The phase of a log, as far as the steps of the lease tell phases apart. *)
LEMMA PhaseCases ==
  ASSUME NEW l \in LogIds
  PROVE  /\ phase[l] = "unused" <=> task[l] = "unused"
         /\ phase[l] = "recording" <=> Alive /\ Live(l)
         /\ phase[l] = "ended" <=> task[l] # "unused" /\ (task[l] = "done" \/ ~Alive)
         /\ phase[l] \in {"unused", "recording", "ending", "ended"}
BY DEF phase, Live

LEMMA LeaseInit == Init => Lease!Init
<1> SUFFICES ASSUME Init PROVE Lease!Init
  OBVIOUS
<1>1. \A l \in LogIds : task[l] = "unused"
  BY DEF Init
<1>2. phase = [l \in LogIds |-> "unused"]
  <2>1. \A l \in LogIds : phase[l] = "unused"
    BY <1>1, PhaseCases
  <2>2. phase = [l \in LogIds |-> phase[l]]
    BY DEF phase
  <2> QED  BY <2>1, <2>2
<1>3. owner = [l \in LogIds |-> NoOwner]
  BY <1>1 DEF owner
<1> QED  BY <1>2, <1>3 DEF Lease!Init

LEMMA LeaseStutter ==
  ASSUME UNCHANGED <<rx, task, cancelled>>, Alive, Alive'
  PROVE  UNCHANGED <<phase, owner>>
BY DEF phase, owner, Live

(* Cancelling the logs in a set revokes those that are live.               *)
LEMMA LeaseRevoke ==
  ASSUME Typing, NEW T, UNCHANGED <<rx, task>>, Alive, Alive',
         cancelled' = [l \in LogIds |-> cancelled[l] \/ l \in T]
  PROVE  Lease!Next
<1> DEFINE S == {l \in LogIds : Live(l) /\ l \in T}
<1>1. \A l \in S : phase[l] = "recording"
  BY PhaseCases
<1>2. phase' = [l \in LogIds |-> IF l \in S THEN "ending" ELSE phase[l]]
  BY DEF phase, Live
<1>3. UNCHANGED owner
  BY DEF owner
<1>4. Lease!Revoke(S)
  BY <1>1, <1>2, <1>3 DEF Lease!Revoke, Lease!Active
<1> QED  BY <1>4 DEF Lease!Next

LEMMA LeaseTask ==
  ASSUME IInv, NEW l \in LogIds, LogTask(l), Alive
  PROVE  [Lease!Next]_<<phase, owner>>
<1>1. /\ task[l] # "unused" /\ task'[l] # "unused" /\ task[l] # "done"
      /\ \A m \in LogIds : m # l => task'[m] = task[m]
      /\ \A m \in LogIds : rx'[m].port = rx[m].port
      /\ UNCHANGED <<cancelled, shutdown>>
  BY LogTaskKeeps DEF IInv
<1>2. UNCHANGED owner
  BY <1>1 DEF owner
<1>3. CASE task'[l] = "done"
  <2>1. phase[l] \in {"recording", "ending"}
    BY <1>1, PhaseCases
  <2>2. phase' = [m \in LogIds |-> IF m \in {l} THEN "ended" ELSE phase[m]]
    BY <1>1, <1>3 DEF phase, Live, Alive
  <2>3. Lease!Finish({l})
    BY <1>2, <2>1, <2>2 DEF Lease!Finish
  <2> QED  BY <2>3 DEF Lease!Next
<1>4. CASE task'[l] # "done"
  <2>1. UNCHANGED phase
    BY <1>1, <1>4 DEF phase, Live, Alive
  <2> QED  BY <1>2, <2>1
<1> QED  BY <1>3, <1>4

LEMMA LeaseBegin ==
  ASSUME IInv, NEW c \in Clients, StartInsert(c), Alive
  PROVE  Lease!Next
<1> DEFINE new == started + 1
           p == portArg[c]
<1> USE DEF IInv, Typing, TypeOK
<1>1. /\ new \in LogIds /\ p \in Ports /\ Alive'
      /\ ~Registered(p)
      /\ grabbed[c].port = p
      /\ task' = [task EXCEPT ![new] = "creating"]
      /\ rx' = [rx EXCEPT ![new] = grabbed[c]]
      /\ UNCHANGED <<cancelled, shutdown>>
  BY ManagerAssumption DEF StartInsert, LogIds, Alive
<1>2. task[new] = "unused" /\ ~cancelled[new]
  BY <1>1, ManagerAssumption DEF Registry, Numbering, LogIds
<1> HIDE DEF new, p
<1>3. phase[new] = "unused"
  BY <1>1, <1>2, PhaseCases
<1>4. ASSUME NEW m \in LogIds, phase[m] = "recording" PROVE owner[m] # p
  <2>1. Live(m) /\ logs[rx[m].port] = m
    BY <1>4, PhaseCases DEF Registry, LiveLogIsRegistered
  <2> QED  BY <1>1, <2>1 DEF Registered, NoLog, LogIds, Live, owner
<1>5. phase' = [phase EXCEPT ![new] = "recording"]
  BY <1>1, <1>2 DEF phase, Live, Alive
<1>6. owner' = [owner EXCEPT ![new] = p]
  BY <1>1 DEF owner
<1>7. Lease!Begin(new, p)
  BY <1>3, <1>4, <1>5, <1>6 DEF Lease!Begin, Lease!Active
<1> QED  BY <1>1, <1>7 DEF Lease!Next

LEMMA LeaseExit ==
  ASSUME Typing, DrainPorts, Alive
  PROVE  Lease!Next
<1> DEFINE S == {l \in LogIds : phase[l] \in {"recording", "ending"}}
<1>1. phase' = [l \in LogIds |-> IF l \in S THEN "ended" ELSE phase[l]]
  BY DEF DrainPorts, leaseVars, phase, Live, Alive
<1>2. UNCHANGED owner
  BY DEF DrainPorts, leaseVars, owner
<1>3. Lease!Finish(S)
  BY <1>1, <1>2 DEF Lease!Finish
<1> QED  BY <1>3 DEF Lease!Next

LEMMA LeaseStep == IInv /\ [Next]_vars => [Lease!Next]_<<phase, owner>>
<1> SUFFICES ASSUME IInv, [Next]_vars PROVE [Lease!Next]_<<phase, owner>>
  OBVIOUS
<1>1. CASE UNCHANGED vars
  BY <1>1 DEF vars, leaseVars, phase, owner, Live, Alive
<1> SUFFICES ASSUME Next PROVE [Lease!Next]_<<phase, owner>>
  BY <1>1
<1>2. Alive
  BY DEF Next
<1>3. ASSUME NEW c \in Clients, Request(c) \/ Handler(c), ~StartInsert(c), ~TakeLog(c)
      PROVE  UNCHANGED <<phase, owner>>
  <2>1. UNCHANGED <<rx, task, cancelled, shutdown>>
    BY <1>3 DEF Request, Handler, OpenPort, WriteBegin, WriteEnd, CloseRemove, TakeNoLog, JoinLog,
                StartSubscribe, StartRefused, UpdateLog, StatusPorts, StatusLogs, leaseVars
  <2> QED  BY <1>2, <2>1, LeaseStutter DEF Alive
<1>4. ASSUME NEW c \in Clients, StartInsert(c) PROVE Lease!Next
  BY <1>2, <1>4, LeaseBegin
<1>5. ASSUME NEW c \in Clients, TakeLog(c) PROVE Lease!Next
  BY <1>2, <1>5, LeaseRevoke DEF TakeLog, Unregister, Alive, IInv
<1>6. ASSUME NEW l \in LogIds, LogTask(l) PROVE [Lease!Next]_<<phase, owner>>
  BY <1>2, <1>6, LeaseTask
<1>7. ASSUME NEW l \in LogIds, TimerExpires(l) PROVE Lease!Next
  <2>1. cancelled' = [m \in LogIds |-> cancelled[m] \/ m \in {l}]
    BY <1>7 DEF TimerExpires, IInv, Typing, TypeOK
  <2> QED  BY <1>2, <1>7, <2>1, LeaseRevoke DEF TimerExpires, Alive, IInv
<1>8. ASSUME NEW l \in LogIds, TimerNotifies(l) PROVE UNCHANGED <<phase, owner>>
  BY <1>2, <1>8, LeaseStutter DEF TimerNotifies, leaseVars, Alive
<1>9. ASSUME NEW p \in Ports, ReadStep(p) PROVE UNCHANGED <<phase, owner>>
  BY <1>2, <1>9, LeaseStutter DEF ReadStep, leaseVars, Alive
<1>10. CASE Sigint
  BY <1>2, <1>10, LeaseStutter DEF Sigint, leaseVars, Alive
<1>11. CASE DrainLogs
  BY <1>2, <1>11, LeaseRevoke DEF DrainLogs, Unregister, Alive, IInv
<1>12. CASE DrainPorts
  BY <1>2, <1>12, LeaseExit DEF IInv
<1> QED
  BY <1>3, <1>4, <1>5, <1>6, <1>7, <1>8, <1>9, <1>10, <1>11, <1>12 DEF Next, Timer, CloseAll

(* Together start_log, stop_log, close_port, the timers, the keywords and  *)
(* SIGINT implement the lease of a port by one log at a time.              *)
THEOREM LeaseRefinement == Spec => ImplementsLogLease
<1>1. IInv /\ [Next]_vars => [Lease!Next]_Lease!leaseState
  BY LeaseStep DEF Lease!leaseState
<1> QED  BY LeaseInit, IInvInit, IInvStep, <1>1, PTL DEF Spec, ImplementsLogLease, Lease!Spec

LeaseTyping ==
  /\ phase \in [LogIds -> {"unused", "recording", "ending", "ended"}]
  /\ owner \in [LogIds -> Ports \cup {NoOwner}]

(* Whatever keeps to LogLease keeps two active leases off one port.        *)
LEMMA LeaseKeepsExclusive ==
  /\ Lease!Init => LeaseTyping /\ Lease!Exclusive
  /\ LeaseTyping /\ Lease!Exclusive /\ [Lease!Next]_Lease!leaseState => LeaseTyping' /\ Lease!Exclusive'
<1> USE DEF LeaseTyping, Lease!Exclusive, Lease!Active
<1>1. Lease!Init => LeaseTyping /\ Lease!Exclusive
  BY DEF Lease!Init
<1>2. ASSUME LeaseTyping, Lease!Exclusive, [Lease!Next]_Lease!leaseState
      PROVE  LeaseTyping' /\ Lease!Exclusive'
  <2>1. ASSUME NEW l \in LogIds, NEW p \in Ports, Lease!Begin(l, p) PROVE LeaseTyping' /\ Lease!Exclusive'
    BY <1>2, <2>1 DEF Lease!Begin
  <2>2. ASSUME NEW S \in SUBSET LogIds, Lease!Revoke(S) PROVE LeaseTyping' /\ Lease!Exclusive'
    BY <1>2, <2>2 DEF Lease!Revoke
  <2>3. ASSUME NEW S \in SUBSET LogIds, Lease!Finish(S) PROVE LeaseTyping' /\ Lease!Exclusive'
    BY <1>2, <2>3 DEF Lease!Finish
  <2>4. CASE UNCHANGED Lease!leaseState
    BY <1>2, <2>4 DEF Lease!leaseState
  <2> QED
    BY <1>2, <2>1, <2>2, <2>3, <2>4 DEF Lease!Next
<1> QED  BY <1>1, <1>2

(* The lease of a port that the log functions implement is exclusive.      *)
THEOREM LeaseExclusive == Lease!Spec => []Lease!Exclusive
BY LeaseKeepsExclusive, PTL DEF Lease!Spec

-----------------------------------------------------------------------------
(* The two mutexes.                                                        *)

(* Who holds a mutex is in a stretch that frees it: no client that waits   *)
(* for the mutex around `ports` holds any, and none that waits for the one *)
(* around `logs` holds that one.                                           *)
Holders ==
  \A c \in Clients : /\ portsLock = c <=> pc[c] \in {"writing", "statusLogs"}
                     /\ logsLock = c <=> pc[c] \in {"stopJoin", "closeJoin"}

LEMMA HoldersInit == Init => Holders
BY ManagerAssumption DEF Init, Holders

(* A stretch that takes and frees no mutex, between two such stretches.    *)
LEMMA HoldersGoto ==
  ASSUME Typing, Holders, NEW c \in Clients, NEW s, Goto(c, s), UNCHANGED lockVars,
         pc[c] \notin {"writing", "statusLogs", "stopJoin", "closeJoin"},
         s \notin {"writing", "statusLogs", "stopJoin", "closeJoin"}
  PROVE  Holders'
BY DEF Typing, TypeOK, Holders, Goto, lockVars

LEMMA HoldersHandler ==
  ASSUME Typing, Holders, NEW c \in Clients, Handler(c)
  PROVE  Holders'
<1>1. CASE OpenPort(c) \/ CloseRemove(c) \/ TakeNoLog(c) \/ StartRefused(c) \/ StartInsert(c) \/ UpdateLog(c)
  BY <1>1, HoldersGoto DEF OpenPort, CloseRemove, TakeNoLog, StartRefused, StartInsert, UpdateLog
<1>2. CASE StartSubscribe(c)
  BY <1>2, HoldersGoto DEF StartSubscribe
<1>3. CASE WriteBegin(c)
  <2>1. CASE inMap[portArg[c]]
    BY <1>3, <2>1, ManagerAssumption DEF WriteBegin, Typing, TypeOK, Holders, Goto
  <2>2. CASE ~inMap[portArg[c]]
    BY <1>3, <2>2, HoldersGoto DEF WriteBegin, lockVars
  <2> QED  BY <2>1, <2>2
<1>4. CASE WriteEnd(c) \/ StatusLogs(c)
  <2>1. portsLock = c /\ portsLock' = Free /\ logsLock' = logsLock /\ pc' = [pc EXCEPT ![c] = "idle"]
    BY <1>4 DEF WriteEnd, StatusLogs, Holders, Goto
  <2>2. pc[c] \in {"writing", "statusLogs"}
    BY <1>4 DEF WriteEnd, StatusLogs
  <2> QED  BY <2>1, <2>2, ManagerAssumption DEF Typing, TypeOK, Holders
<1>5. CASE TakeLog(c)
  <2>1. logsLock = Free /\ logsLock' = c /\ portsLock' = portsLock /\ pc[c] \in {"stopLog", "closePort"}
    BY <1>5 DEF TakeLog
  <2>2. pc' = [pc EXCEPT ![c] = "stopJoin"] \/ pc' = [pc EXCEPT ![c] = "closeJoin"]
    BY <1>5 DEF TakeLog, Goto
  <2> QED  BY <2>1, <2>2, ManagerAssumption DEF Typing, TypeOK, Holders
<1>6. CASE JoinLog(c)
  <2>1. logsLock' = Free /\ portsLock' = portsLock /\ pc[c] \in {"stopJoin", "closeJoin"}
    BY <1>6 DEF JoinLog
  <2>2. pc' = [pc EXCEPT ![c] = "idle"] \/ pc' = [pc EXCEPT ![c] = "closeRemove"]
    BY <1>6 DEF JoinLog, Goto
  <2> QED  BY <2>1, <2>2, ManagerAssumption DEF Typing, TypeOK, Holders
<1>7. CASE StatusPorts(c)
  BY <1>7, ManagerAssumption DEF StatusPorts, Typing, TypeOK, Holders, Goto
<1> QED  BY <1>1, <1>2, <1>3, <1>4, <1>5, <1>6, <1>7 DEF Handler

LEMMA HoldersStep == Typing /\ Holders /\ [Next]_vars => Holders'
<1> SUFFICES ASSUME Typing, Holders, [Next]_vars PROVE Holders'
  OBVIOUS
<1>1. ASSUME NEW c \in Clients, Request(c) PROVE Holders'
  <2>1. PICK cmd \in Commands[c] : Goto(c, cmd)
    BY <1>1 DEF Request
  <2>2. cmd \in AllCommands
    BY ManagerAssumption
  <2> QED  BY <1>1, <2>1, <2>2, HoldersGoto DEF Request, AllCommands
<1>2. CASE UNCHANGED <<pc, lockVars>>
  BY <1>2 DEF Holders, lockVars
<1>3. ASSUME NEW l \in LogIds, LogTask(l) \/ Timer(l) PROVE UNCHANGED <<pc, lockVars>>
  BY <1>3 DEF LogTask, LogCreate, LogCancelled, LogRecv, LogLagged, LogClosed, LogWritten, Timer,
              TimerExpires, TimerNotifies, clientVars
<1>4. (\E p \in Ports : ReadStep(p)) \/ Sigint \/ CloseAll \/ UNCHANGED vars => UNCHANGED <<pc, lockVars>>
  BY DEF ReadStep, Sigint, CloseAll, DrainLogs, DrainPorts, vars, clientVars
<1> QED  BY <1>1, <1>2, <1>3, <1>4, HoldersHandler DEF Next

(* The requests cannot all wait for each other, however many clients there *)
(* are: whoever holds `logs` waits for no mutex, and whoever holds `ports` *)
(* waits for that one at most (serial.rs:254, 453).                        *)
THEOREM NoDeadlock == Spec => []SomebodyGoesOn
<1>1. Typing /\ Holders => SomebodyGoesOn
  <2> SUFFICES ASSUME Typing, Holders, NEW c \in Clients, pc[c] # "idle"
               PROVE  \E d \in Clients : GoesOn(d)
    BY DEF SomebodyGoesOn
  <2>1. CASE logsLock # Free
    <3>1. logsLock \in Clients /\ pc[logsLock] \in AtWork
      BY <2>1 DEF Typing, TypeOK, Holders, AtWork
    <3> QED  BY <3>1 DEF GoesOn
  <2>2. CASE logsLock = Free /\ portsLock # Free
    <3>1. portsLock \in Clients /\ pc[portsLock] \in {"writing", "statusLogs"}
      BY <2>2 DEF Typing, TypeOK, Holders
    <3> QED  BY <2>2, <3>1 DEF GoesOn, AtWork, NeedsLogs
  <2>3. CASE logsLock = Free /\ portsLock = Free
    <3>1. pc[c] \in AtWork \cup NeedsPorts \cup NeedsLogs
      BY DEF Typing, TypeOK, Stretches, AllCommands, AtWork, NeedsPorts, NeedsLogs
    <3> QED  BY <2>3, <3>1 DEF GoesOn
  <2> QED  BY <2>1, <2>2, <2>3
<1> QED  BY <1>1, IInvInit, IInvStep, HoldersInit, HoldersStep, PTL DEF Spec, IInv
==============================================================================
