------------------------------- MODULE Monitor -------------------------------
(***************************************************************************)
(* The web monitor's life (monitor.rs, the monitor commands of dispatch in *)
(* daemon.rs) and the SIGINT cleanup of run.  DaemonState.monitor is a     *)
(* mutex around an optional MonitorHandle; close_monitor and the cleanup   *)
(* wait for the server task while they hold it.  The server is axum's,     *)
(* with graceful shutdown: once cancelled it accepts no connection and     *)
(* ends when the last one it has is gone, and an /events connection only   *)
(* ends when its browser leaves, for sse_handler loops for ever.           *)
(***************************************************************************)
EXTENDS FiniteSets

CONSTANTS
  Clients,        \* connections that issue requests
  Browsers,       \* pages that show the monitor
  Signal,         \* the task that waits for SIGINT
  Free            \* value of the mutex that nobody holds

ASSUME MonitorAssumption == Free \notin Clients \cup {Signal} /\ Signal \notin Clients

VARIABLES
  pc,             \* pc[c]: where c's handler is
  lock,           \* holder of the mutex across an await
  handle,         \* the mutex holds Some(MonitorHandle)
  cancelled,      \* the token of the newest server
  server,         \* the server task: "none" or "serving"
  viewing,        \* browsers with an open /events connection
  cleanup         \* the SIGINT task

vars == <<pc, lock, handle, cancelled, server, viewing, cleanup>>

Commands == {"open_monitor", "close_monitor", "port_status"}

TypeOK ==
  /\ pc \in [Clients -> Commands \cup {"idle", "stopping"}]
  /\ lock \in Clients \cup {Signal, Free}
  /\ handle \in BOOLEAN /\ cancelled \in BOOLEAN
  /\ server \in {"none", "serving"}
  /\ viewing \subseteq IF server = "serving" THEN Browsers ELSE {}
  /\ cleanup \in {"waiting", "signalled", "stopping", "close_all", "exited"}

Init ==
  /\ pc = [c \in Clients |-> "idle"]
  /\ lock = Free
  /\ handle = FALSE /\ cancelled = FALSE
  /\ server = "none"
  /\ viewing = {}
  /\ cleanup = "waiting"

Goto(c, where) == pc' = [pc EXCEPT ![c] = where]

Request(c) ==
  /\ pc[c] = "idle" /\ cleanup # "exited"
  /\ \E cmd \in Commands : Goto(c, cmd)
  /\ UNCHANGED <<lock, handle, cancelled, server, viewing, cleanup>>

(* open_monitor asks the handle only: bind() may succeed beside a server   *)
(* without a handle, on another httpPort or on one that this server has    *)
(* ceased to listen to.  bind() may also fail.                             *)
OpenMonitor(c) ==
  /\ pc[c] = "open_monitor" /\ lock = Free /\ cleanup # "exited"
  /\ \/ /\ ~handle
        /\ handle' = TRUE /\ server' = "serving" /\ cancelled' = FALSE
     \/ UNCHANGED <<handle, server, cancelled>>
  /\ Goto(c, "idle")
  /\ UNCHANGED <<lock, viewing, cleanup>>

(* monitor.take() and, for Some(handle), the cancel() of stop().           *)
StopWithoutCancel == handle' = FALSE /\ UNCHANGED cancelled

StopServer == handle' = FALSE /\ cancelled' = TRUE

CloseMonitor(c) ==
  /\ pc[c] = "close_monitor" /\ lock = Free /\ cleanup # "exited"
  /\ IF handle
       THEN StopServer /\ lock' = c /\ Goto(c, "stopping")
       ELSE UNCHANGED <<handle, cancelled, lock>> /\ Goto(c, "idle")
  /\ UNCHANGED <<server, viewing, cleanup>>

(* The await of the server task in stop().                                 *)
NotAwaited == TRUE
ServerAwaited == server = "none"

CloseMonitorJoined(c) ==
  /\ pc[c] = "stopping" /\ ServerAwaited /\ cleanup # "exited"
  /\ lock' = Free
  /\ Goto(c, "idle")
  /\ UNCHANGED <<handle, cancelled, server, viewing, cleanup>>

(* port_status looks into the mutex for its reply.                         *)
PortStatus(c) ==
  /\ pc[c] = "port_status" /\ lock = Free /\ cleanup # "exited"
  /\ Goto(c, "idle")
  /\ UNCHANGED <<lock, handle, cancelled, server, viewing, cleanup>>

-----------------------------------------------------------------------------
(* The server task and the browsers.                                       *)

BrowserConnects(b) ==
  /\ server = "serving" /\ ~cancelled /\ b \notin viewing /\ cleanup # "exited"
  /\ viewing' = viewing \cup {b}
  /\ UNCHANGED <<pc, lock, handle, cancelled, server, cleanup>>

BrowserLeaves(b) ==
  /\ b \in viewing /\ cleanup # "exited"
  /\ viewing' = viewing \ {b}
  /\ UNCHANGED <<pc, lock, handle, cancelled, server, cleanup>>

Drained == viewing = {}

ServerEnds ==
  /\ server = "serving" /\ cancelled /\ Drained /\ cleanup # "exited"
  /\ server' = "none"
  /\ UNCHANGED <<pc, lock, handle, cancelled, viewing, cleanup>>

-----------------------------------------------------------------------------
(* SIGINT.                                                                 *)

Sigint ==
  /\ cleanup = "waiting"
  /\ cleanup' = "signalled"
  /\ UNCHANGED <<pc, lock, handle, cancelled, server, viewing>>

(* The guard of `if let Some(handle) = monitor.lock().await.take()` lives  *)
(* to the end of the block, over the await of stop().                      *)
CleanupTakes ==
  /\ cleanup = "signalled" /\ lock = Free
  /\ IF handle
       THEN StopServer /\ lock' = Signal /\ cleanup' = "stopping"
       ELSE UNCHANGED <<handle, cancelled, lock>> /\ cleanup' = "close_all"
  /\ UNCHANGED <<pc, server, viewing>>

CleanupJoined ==
  /\ cleanup = "stopping" /\ ServerAwaited
  /\ lock' = Free
  /\ cleanup' = "close_all"
  /\ UNCHANGED <<pc, handle, cancelled, server, viewing>>

(* SerialManager's close_all, then exit(0).                                *)
CleanupExits ==
  /\ cleanup = "close_all"
  /\ cleanup' = "exited"
  /\ server' = "none" /\ viewing' = {}
  /\ UNCHANGED <<pc, lock, handle, cancelled>>

-----------------------------------------------------------------------------

Handler(c) == OpenMonitor(c) \/ CloseMonitor(c) \/ CloseMonitorJoined(c) \/ PortStatus(c)
Cleanup == CleanupTakes \/ CleanupJoined \/ CleanupExits

Next ==
  \/ \E c \in Clients : Request(c) \/ Handler(c)
  \/ \E b \in Browsers : BrowserConnects(b) \/ BrowserLeaves(b)
  \/ ServerEnds \/ Sigint \/ Cleanup

Spec == Init /\ [][Next]_vars

(* The mutex is FIFO and the runtime polls every task.  Nothing makes a    *)
(* browser leave.                                                          *)
FairSpec ==
  /\ Spec
  /\ \A c \in Clients : SF_vars(Handler(c))
  /\ WF_vars(ServerEnds) /\ SF_vars(Cleanup)

-----------------------------------------------------------------------------
(* Properties.                                                             *)

(* Whenever the mutex is free the handle tells the truth: a reply that the *)
(* monitor has ended means that its TCP port can be bound again, and a     *)
(* server that runs can be stopped.  Whenever somebody holds it, no server *)
(* goes on that has not been told to end: the wait of stop() is never for  *)
(* one that nobody has cancelled (open_monitor, close_monitor, SIGINT).    *)
HandleIsServer ==
  cleanup # "exited" =>
    IF lock = Free
      THEN /\ handle <=> server = "serving"
           /\ handle => ~cancelled
      ELSE ~handle /\ (server = "serving" => cancelled)

(* Nothing but a browser that keeps its page open for ever can keep a      *)
(* command from its answer: not the mutex, not SIGINT, not browsers that   *)
(* come and go while the server is told to end (monitor.rs:30-34).         *)
StaysForEver(b) == [](b \in viewing)

RequestsAnswered ==
  \A c \in Clients :
    pc[c] # "idle" ~> \/ pc[c] = "idle" \/ cleanup = "exited"
                      \/ \E b \in Browsers : StaysForEver(b)

(* Ctrl+C cleans up all ports, logs and the monitor and so ends the daemon *)
(* (README.md:122).  It does not, as long as a page is open.               *)
SigintEnds == cleanup # "waiting" ~> cleanup = "exited"
==============================================================================
