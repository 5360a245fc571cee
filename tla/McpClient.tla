------------------------------ MODULE McpClient ------------------------------
(***************************************************************************)
(* DaemonClient of the MCP server (mcp-server/index.js): tool calls share  *)
(* one socket to the daemon and a list of resolvers, pending, in which the *)
(* n-th response is taken to answer the n-th request.  JavaScript runs one *)
(* event at a time; an action is one event.  Sockets are numbered in the   *)
(* order of their creation.  The daemon answers the requests of a socket   *)
(* in their order (handle_client in daemon.rs).                            *)
(***************************************************************************)
EXTENDS Naturals, Sequences

CONSTANTS
  Calls,          \* tool calls, each made once
  NoCall,         \* "no call"
  Failed,         \* answer of a call that ends with an error
  MaxSockets      \* bound: sockets created

ASSUME ClientAssumption ==
  /\ NoCall \notin Calls /\ Failed \notin Calls /\ NoCall # Failed
  /\ MaxSockets \in Nat \ {0}

Sockets == 1..MaxSockets
NoSocket == 0

VARIABLES
  created,        \* number of sockets created
  socket,         \* this.socket
  pending,        \* this.pending, as the calls that its resolvers belong to
  state,          \* state[s]: "unused", "connecting", "open" or "destroyed"
  connector,      \* connector[s]: the call that awaits the connection
  listening,      \* listening[s]: how often the data and close listeners are attached
  closeDue,       \* closeDue[s]: a close event is on its way
  written,        \* written[s]: requests written to s and not yet answered
  answer,         \* answer[c]: NoCall, the call whose response c got, or Failed
  cutOff          \* history: a connection was refused or destroyed by stop_daemon

vars == <<created, socket, pending, state, connector, listening, closeDue, written,
          answer, cutOff>>

TypeOK ==
  /\ created \in 0..MaxSockets
  /\ socket \in Sockets \cup {NoSocket}
  /\ pending \in Seq(Calls)
  /\ state \in [Sockets -> {"unused", "connecting", "open", "destroyed"}]
  /\ connector \in [Sockets -> Calls \cup {NoCall}]
  /\ \A s \in Sockets : state[s] \in {"unused", "open"} => connector[s] = NoCall
  /\ listening \in [Sockets -> Nat] /\ closeDue \in [Sockets -> BOOLEAN]
  /\ written \in [Sockets -> Seq(Calls)]
  /\ answer \in [Calls -> Calls \cup {NoCall, Failed}] /\ cutOff \in BOOLEAN

Init ==
  /\ created = 0 /\ socket = NoSocket /\ pending = <<>>
  /\ state = [s \in Sockets |-> "unused"]
  /\ connector = [s \in Sockets |-> NoCall]
  /\ listening = [s \in Sockets |-> 0]
  /\ closeDue = [s \in Sockets |-> FALSE]
  /\ written = [s \in Sockets |-> <<>>]
  /\ answer = [c \in Calls |-> NoCall] /\ cutOff = FALSE

(* The call has begun and waits, for the connection or for its response.   *)
Waits(c) ==
  \/ \E s \in Sockets : connector[s] = c
  \/ \E i \in 1..Len(pending) : pending[i] = c

Fresh(c) ==
  /\ answer[c] = NoCall /\ ~Waits(c)

-----------------------------------------------------------------------------
(* connect() returns the socket at hand.                                   *)
Reused == IF socket = NoSocket THEN FALSE ELSE state[socket] # "destroyed"

(* send: connect() finds a socket that is not destroyed, be it connected   *)
(* or not; the request is queued on it.                                    *)
Send(c) ==
  /\ Fresh(c)
  /\ Reused
  /\ pending' = Append(pending, c)
  /\ written' = [written EXCEPT ![socket] = Append(@, c)]
  /\ UNCHANGED <<created, socket, state, connector, listening, closeDue, answer, cutOff>>

(* send: connect() makes a new socket and waits for it.                    *)
Connect(c) ==
  /\ Fresh(c)
  /\ ~Reused
  /\ created < MaxSockets
  /\ created' = created + 1
  /\ socket' = created'
  /\ state' = [state EXCEPT ![created'] = "connecting"]
  /\ connector' = [connector EXCEPT ![created'] = c]
  /\ UNCHANGED <<pending, listening, closeDue, written, answer, cutOff>>

(* The promise of connect() on s is settled, and its call awaits no more.  *)
Settled(s) == [connector EXCEPT ![s] = NoCall]

(* The connection is there and send resumes.  It goes on with this.socket, *)
(* which need not be s: the close event of an older socket may have set it *)
(* to null, and then send throws and s has no listeners; and another send  *)
(* may have connected anew, and then that socket gets listeners twice.     *)
(* Node delivers the close event of a destroyed socket before it polls for *)
(* connections again.                                                      *)
SendOn(t, c) ==
  /\ listening' = [listening EXCEPT ![t] = @ + 1]
  /\ pending' = Append(pending, c)
  /\ written' = [written EXCEPT ![t] = Append(@, c)]

Connected(s) ==
  /\ state[s] = "connecting" /\ \A t \in Sockets : ~closeDue[t]
  /\ state' = [state EXCEPT ![s] = "open"]
  /\ connector' = Settled(s)
  /\ \/ socket # NoSocket /\ SendOn(socket, connector[s]) /\ UNCHANGED answer
     \/ /\ socket = NoSocket
        /\ answer' = [answer EXCEPT ![connector[s]] = Failed]
        /\ UNCHANGED <<listening, pending, written>>
  /\ UNCHANGED <<created, socket, closeDue, cutOff>>

(* A destroyed socket gets no responses; its listeners, if it has any, get *)
(* a close event.                                                          *)
Destroy(s) ==
  /\ state' = [state EXCEPT ![s] = "destroyed"]
  /\ closeDue' = [closeDue EXCEPT ![s] = listening[s] > 0]
  /\ written' = [written EXCEPT ![s] = <<>>]

(* connect() rejects and so does send of the call that awaited it.  Other  *)
(* calls that have used the socket meanwhile stay in pending.              *)
ConnectFails(s) ==
  /\ state[s] = "connecting" /\ \A t \in Sockets : ~closeDue[t]
  /\ Destroy(s)
  /\ cutOff' = TRUE
  /\ connector' = Settled(s)
  /\ answer' = [answer EXCEPT ![connector[s]] = Failed]
  /\ UNCHANGED <<created, socket, pending, listening>>

(* The daemon goes away.                                                   *)
Lost(s) ==
  /\ state[s] = "open"
  /\ Destroy(s)
  /\ UNCHANGED <<created, socket, pending, connector, listening, answer, cutOff>>

(* stop_daemon destroys the socket, be it connected or not.  The promise   *)
(* of a connection that is not there yet stays unsettled.                  *)
StopDaemon ==
  /\ Reused
  /\ Destroy(socket)
  /\ cutOff' = TRUE
  /\ UNCHANGED <<created, socket, pending, connector, listening, answer>>

(* A response arrives, and every data listener resolves the first of       *)
(* pending with it.  (A chunk holds one response here.)                    *)
LastResolved(k) == {pending[i] : i \in Len(pending) - k + 1..Len(pending)}
Resolved(k) == {pending[i] : i \in 1..k}

Respond(s) ==
  /\ state[s] = "open" /\ listening[s] > 0 /\ written[s] # <<>>
  /\ LET k == IF listening[s] > Len(pending) THEN Len(pending) ELSE listening[s]
     IN  /\ answer' = [c \in Calls |-> IF c \in Resolved(k) THEN Head(written[s]) ELSE answer[c]]
         /\ pending' = SubSeq(pending, k + 1, Len(pending))
  /\ written' = [written EXCEPT ![s] = Tail(@)]
  /\ UNCHANGED <<created, socket, state, connector, listening, closeDue, cutOff>>

(* The close listener, of whatever socket: every pending call ends with an *)
(* error, and this.socket becomes null.                                    *)
KeepPending == pending
PendingAfterClose == <<>>

NoneSettled == {}
SettledByClose == {pending[i] : i \in 1..Len(pending)}

CloseEvent(s) ==
  /\ closeDue[s]
  /\ closeDue' = [closeDue EXCEPT ![s] = FALSE]
  /\ answer' = [c \in Calls |-> IF c \in SettledByClose THEN Failed ELSE answer[c]]
  /\ pending' = PendingAfterClose
  /\ socket' = NoSocket
  /\ UNCHANGED <<created, state, connector, listening, written, cutOff>>

Next ==
  \/ \E c \in Calls : Send(c) \/ Connect(c)
  \/ StopDaemon
  \/ \E s \in Sockets : \/ Connected(s) \/ ConnectFails(s)
                        \/ Respond(s) \/ Lost(s) \/ CloseEvent(s)

Spec == Init /\ [][Next]_vars

(* Connecting comes to an end, close events are delivered, and the daemon  *)
(* answers every request that it has got on a connection that is listened  *)
(* to, unless the connection is lost first.  A connection with nothing to  *)
(* answer may stay as it is.                                               *)
Awaited(s) == listening[s] > 0 /\ written[s] # <<>>

FairSpec ==
  /\ Spec
  /\ \A s \in Sockets : /\ WF_vars(Connected(s) \/ ConnectFails(s))
                        /\ WF_vars(CloseEvent(s))
                        /\ WF_vars(Awaited(s) /\ (Respond(s) \/ Lost(s)))

-----------------------------------------------------------------------------
(* Properties.                                                             *)

(* The first socket may have been lost, and nothing worse has happened.    *)
OneLoss == ~cutOff /\ created <= 2

(* The result of a tool call is the response to its own request            *)
(* (PLAN.md:157), or an error, over a loss of the connection.  A refused   *)
(* connection or a second loss breaks it: the n-th response is then not    *)
(* the one that the n-th of pending waits for.                             *)
OwnAnswer == OneLoss => \A c \in Calls : answer[c] \in {c, NoCall, Failed}

(* A call is settled once: an error that a close event reported is not     *)
(* followed by a response, nor a response by another one, whatever is      *)
(* lost, refused or stopped.                                               *)
SettledOnce == [][\A c \in Calls : answer[c] # NoCall => answer'[c] = answer[c]]_vars

(* No waiting call is forgotten: unless a close event is on its way, which *)
(* ends them all, the requests of the pending calls are exactly what the   *)
(* daemon has to answer on this.socket, which is connected and has one set *)
(* of listeners or is still connecting (index.js, connect and send).       *)
NoOrphanCall ==
  OneLoss /\ pending # <<>> =>
    \/ \E s \in Sockets : closeDue[s]
    \/ /\ socket # NoSocket /\ written[socket] = pending
       /\ state[socket] = "open" => listening[socket] = 1
       /\ state[socket] \in {"connecting", "open"}

(* A call that waits for its response gets one, or an error, also when     *)
(* a connection is lost while calls go on.                                 *)
CallsSettle == \A c \in Calls : Waits(c) ~> answer[c] # NoCall \/ ~OneLoss
==============================================================================
