---------------------------- MODULE ReplSession ------------------------------
(***************************************************************************)
(* A REPL (repl.rs) and its connection to the daemon (daemon.rs): the      *)
(* handler answers the commands, the notify task forwards the notices of   *)
(* logs that stopped, the stream task pushes what ports receive that the   *)
(* REPL has subscribed to, and all three write whole lines to the same     *)
(* socket.  At the REPL a task receives the lines, prints the notices and  *)
(* the data and passes the responses on; the loop asks for one command     *)
(* after the other and waits at most 5 s for each response.  Nothing in a  *)
(* response says which command it answers.                                 *)
(*                                                                         *)
(* A command is its number, as is the response to it; notices are numbered *)
(* from the first one posted after the REPL connected.                     *)
(***************************************************************************)
EXTENDS Broadcast

CONSTANTS
  Window,         \* lines that the socket takes before a write must wait
  ChannelSize,    \* mpsc::channel(32) of responses
  MaxCommands,    \* bound: commands typed
  MaxNotices      \* bound: notices posted

ASSUME ReplAssumption ==
  /\ Window \in Nat \ {0} /\ ChannelSize \in Nat \ {0}
  /\ MaxCommands \in Nat /\ MaxNotices \in Nat

VARIABLES
  running,        \* the daemon runs
  posted,         \* notices posted
  next, notifier, \* notify_rx and the state of notify_task
  handler, inHand,\* the state of handle_client, the command it works on
  link,           \* the socket as the daemon meets it
  toDaemon, toRepl, \* lines under way
  receiver, held, \* the state of recv_task, the response it holds
  responses,      \* resp_tx, resp_rx
  repl, asked,    \* the state of the loop, commands sent
  replies,        \* history: the response printed for each command, or 0
  printed         \* history: the notices printed

daemonVars == <<running, posted, next, notifier, handler, inHand>>
replVars == <<receiver, held, responses, repl, asked, replies, printed>>
vars == <<daemonVars, link, toDaemon, toRepl, replVars>>

Line == [kind : {"notice", "rx_data", "response"}, no : Nat]

TypeOK ==
  /\ running \in BOOLEAN
  /\ posted \in 0..MaxNotices /\ next \in 0..posted
  /\ notifier \in {"receiving", "writing", "ended"}
  /\ handler \in {"reading", "working", "left", "failed"} /\ inHand \in Nat
  /\ link \in {"open", "closing", "reset"}
  /\ toDaemon \in Seq(Nat) /\ toRepl \in Seq(Line)
  /\ receiver \in {"reading", "passing", "ended"} /\ held \in Nat
  /\ responses \in Seq(Nat) /\ Len(responses) <= ChannelSize
  /\ repl \in {"prompt", "waiting", "ended"} /\ asked \in 0..MaxCommands
  /\ replies \in Seq(Nat) /\ printed \in Seq(Nat)

Init ==
  /\ running = TRUE
  /\ posted = 0 /\ next = 0 /\ notifier = "receiving"
  /\ handler = "reading" /\ inHand = 0
  /\ link = "open" /\ toDaemon = <<>> /\ toRepl = <<>>
  /\ receiver = "reading" /\ held = 0 /\ responses = <<>>
  /\ repl = "prompt" /\ asked = 0
  /\ replies = <<>> /\ printed = <<>>

-----------------------------------------------------------------------------
(* The daemon.                                                             *)

Notices == [i \in 1..posted |-> i]

(* A log task or a timer of any connection's log sends a notice.           *)
PostNotice ==
  /\ running /\ posted < MaxNotices
  /\ posted' = posted + 1
  /\ UNCHANGED <<running, next, notifier, handler, inHand, link, toDaemon, toRepl, replVars>>

(* The first write after the REPL has gone is accepted by the system and   *)
(* answered with a reset, the next one fails.                              *)
Write(line) ==
  CASE link = "open"    -> /\ Len(toRepl) < Window
                           /\ toRepl' = Append(toRepl, line) /\ link' = link
    [] link = "closing" -> link' = "reset" /\ toRepl' = toRepl
    [] link = "reset"   -> UNCHANGED <<link, toRepl>>

TakeNotice ==
  /\ running /\ notifier = "receiving"
  /\ HasValue(Notices, next)
  /\ next' = next + 1 /\ notifier' = "writing"
  /\ UNCHANGED <<running, posted, handler, inHand, link, toDaemon, toRepl, replVars>>

(* recv() returns Lagged, which the while-let takes for the end.           *)
SkipsOverwritten == notifier' = "receiving" /\ next' = Overwritten(Notices)
EndsAtLagged == notifier' = "ended" /\ next' = next

NotifierLags ==
  /\ running /\ notifier = "receiving"
  /\ Lagged(Notices, next)
  /\ EndsAtLagged
  /\ UNCHANGED <<running, posted, handler, inHand, link, toDaemon, toRepl, replVars>>

WriteNotice ==
  /\ running /\ notifier = "writing"
  /\ Write([kind |-> "notice", no |-> next])
  /\ notifier' = IF link = "reset" THEN "ended" ELSE "receiving"
  /\ UNCHANGED <<running, posted, next, handler, inHand, toDaemon, replVars>>

(* The abort at the end of handle_client.                                  *)
NotifierAborted ==
  /\ running /\ handler = "left" /\ notifier # "ended"
  /\ notifier' = "ended"
  /\ UNCHANGED <<running, posted, next, handler, inHand, link, toDaemon, toRepl, replVars>>

ReadRequest ==
  /\ running /\ handler = "reading" /\ toDaemon # <<>>
  /\ inHand' = Head(toDaemon) /\ toDaemon' = Tail(toDaemon)
  /\ handler' = "working"
  /\ UNCHANGED <<running, posted, next, notifier, link, toRepl, replVars>>

(* End of file leaves the loop, an error leaves the function at once.      *)
ReadEnd ==
  /\ running /\ handler = "reading" /\ toDaemon = <<>> /\ link # "open"
  /\ handler' = IF link = "reset" THEN "failed" ELSE "left"
  /\ UNCHANGED <<running, posted, next, notifier, inHand, link, toDaemon, toRepl, replVars>>

(* The stream task writes an entry of a port.  The command to subscribe is *)
(* any one that the handler has taken.  What the task does after the REPL  *)
(* has gone is RxSession's; a write to the socket's remains is all of it   *)
(* that is seen here.                                                      *)
PushRx ==
  /\ running /\ inHand # 0 /\ link # "reset"
  /\ Write([kind |-> "rx_data", no |-> 0])
  /\ UNCHANGED <<running, posted, next, notifier, handler, inHand, toDaemon, replVars>>

Respond ==
  /\ running /\ handler = "working"
  /\ Write([kind |-> "response", no |-> inHand])
  /\ handler' = IF link = "reset" THEN "failed" ELSE "reading"
  /\ UNCHANGED <<running, posted, next, notifier, inHand, toDaemon, replVars>>

(* The daemon exits; what it has written may still arrive.                 *)
DaemonExits ==
  /\ running
  /\ running' = FALSE
  /\ toRepl' \in {toRepl, <<>>} /\ toDaemon' = <<>>
  /\ UNCHANGED <<posted, next, notifier, handler, inHand, link, replVars>>

Notifier == TakeNotice \/ NotifierLags \/ WriteNotice \/ NotifierAborted

-----------------------------------------------------------------------------
(* The REPL.                                                               *)

(* recv_task tells notifications from responses by their field "notify".   *)
IsNotification(line) == line.kind \in {"notice", "rx_data"}

PrintNotice ==
  /\ receiver = "reading" /\ toRepl # <<>> /\ IsNotification(Head(toRepl))
  /\ Head(toRepl).kind = "notice"
  /\ printed' = Append(printed, Head(toRepl).no)
  /\ toRepl' = Tail(toRepl)
  /\ UNCHANGED <<daemonVars, link, toDaemon, receiver, held, responses, repl, asked, replies>>

PrintRxData ==
  /\ receiver = "reading" /\ toRepl # <<>> /\ IsNotification(Head(toRepl))
  /\ Head(toRepl).kind = "rx_data"
  /\ toRepl' = Tail(toRepl)
  /\ UNCHANGED <<daemonVars, link, toDaemon, replVars>>

TakeResponse ==
  /\ receiver = "reading" /\ toRepl # <<>> /\ ~IsNotification(Head(toRepl))
  /\ held' = Head(toRepl).no /\ receiver' = "passing"
  /\ toRepl' = Tail(toRepl)
  /\ UNCHANGED <<daemonVars, link, toDaemon, responses, repl, asked, replies, printed>>

PassResponse ==
  /\ receiver = "passing" /\ Len(responses) < ChannelSize
  /\ responses' = Append(responses, held) /\ receiver' = "reading"
  /\ UNCHANGED <<daemonVars, link, toDaemon, toRepl, held, repl, asked, replies, printed>>

ReceiveEnd ==
  /\ receiver = "reading" /\ toRepl = <<>> /\ ~running
  /\ receiver' = "ended"
  /\ UNCHANGED <<daemonVars, link, toDaemon, toRepl, held, responses, repl, asked, replies, printed>>

(* The loop is left, recv_task aborted and the process gone.  A socket     *)
(* that is closed with unread lines is reset.                              *)
Leave ==
  /\ repl' = "ended" /\ receiver' = "ended"
  /\ responses' = <<>> /\ toRepl' = <<>>
  /\ link' = IF toRepl = <<>> THEN "closing" ELSE "reset"
  /\ UNCHANGED <<daemonVars, held, asked, printed>>

(* A line that is a complete command.  After the daemon has gone the write *)
(* may fail or may still be accepted.  Other lines change nothing.         *)
SendCommand ==
  /\ repl = "prompt" /\ asked < MaxCommands
  /\ asked' = asked + 1 /\ repl' = "waiting"
  /\ toDaemon' = IF running THEN Append(toDaemon, asked + 1) ELSE toDaemon
  /\ UNCHANGED <<daemonVars, link, toRepl, receiver, held, responses, replies, printed>>

(* exit, quit, end of input, or the write fails.                           *)
Exit == repl = "prompt" /\ Leave /\ UNCHANGED <<toDaemon, replies>>

PrintResponse ==
  /\ repl = "waiting" /\ responses # <<>>
  /\ replies' = Append(replies, Head(responses))
  /\ responses' = Tail(responses) /\ repl' = "prompt"
  /\ UNCHANGED <<daemonVars, link, toDaemon, toRepl, receiver, held, asked, printed>>

(* 5 s have passed, or the receive task and with it resp_tx have gone.     *)
OnlyDisconnected == repl = "waiting" /\ receiver = "ended"
NoResponse == repl = "waiting"

BackToPrompt == repl' = "prompt" /\ UNCHANGED <<daemonVars, link, toRepl, receiver, held, responses, asked, printed>>
OnNoResponse == Leave

GiveUp ==
  /\ NoResponse
  /\ replies' = Append(replies, 0)
  /\ OnNoResponse
  /\ UNCHANGED toDaemon

Receiver == PrintNotice \/ PrintRxData \/ TakeResponse \/ PassResponse \/ ReceiveEnd
Loop == PrintResponse \/ GiveUp
User == SendCommand \/ Exit

Next == \/ PostNotice \/ Notifier \/ ReadRequest \/ ReadEnd \/ PushRx \/ Respond \/ DaemonExits
        \/ Receiver \/ Loop \/ User

Spec == Init /\ [][Next]_vars

(* The runtimes poll their tasks and the clock runs.  Tokio's mutex of the *)
(* writer is fair, so that a port which never pauses cannot keep a notice  *)
(* from being written.  Whether and when a handler responds is not         *)
(* assumed.                                                                *)
FairSpec ==
  /\ Spec
  /\ WF_vars(Notifier) /\ SF_vars(WriteNotice)
  /\ WF_vars(Receiver) /\ WF_vars(Loop)

-----------------------------------------------------------------------------
(* Properties.                                                             *)

(* The response that the loop prints for a command is the response to it   *)
(* (repl.rs:84-104), although a late one may arrive after the 5 s.         *)
OwnAnswer == \A k \in 1..Len(replies) : replies[k] \in {0, k}

(* The notices are printed in the order of their posting and without       *)
(* holes: who is shown a notice was shown all before it (daemon.rs:191).   *)
NoticesWithoutHoles == \A i \in 1..Len(printed) : printed[i] = i

(* Whatever the daemon does, a command ends with a response or by giving   *)
(* up (repl.rs:92-99).                                                     *)
CommandEnds ==
  \A k \in 1..MaxCommands : repl = "waiting" /\ asked = k ~> repl # "waiting" \/ asked # k

(* A notice is printed, unless the channel of notices overruns or either   *)
(* side goes (README.md:41, repl.rs:37).                                   *)
NoticeShown ==
  \A n \in 1..MaxNotices :
    posted >= n ~> \/ Len(printed) >= n
                   \/ notifier = "ended" \/ ~running \/ repl = "ended"
==============================================================================
