----------------------------- MODULE CppRxClient -----------------------------
(***************************************************************************)
(* The C++ client (commmon_rx_client.cpp): the application's thread calls  *)
(* Connect, Disconnect and the destructor, a receive thread per connection *)
(* reads the socket that m_socket names at that moment, cuts what arrives  *)
(* into lines and calls back.  The two share m_socket and m_running, which *)
(* nothing protects; a read sees the value before or after a write.        *)
(*                                                                         *)
(* A socket and the thread created for it have the same number.  A line    *)
(* travels in two pieces, of which the second holds the line feed, and     *)
(* recv returns any number of pieces.  The application calls Connect when  *)
(* it is not connected, and no member from within a callback.              *)
(***************************************************************************)
EXTENDS Naturals, Sequences

CONSTANTS
  MaxConnects,    \* bound: calls of Connect
  MaxLines        \* bound: lines per connection

ASSUME ClientAssumption == MaxConnects \in Nat /\ MaxLines \in Nat

Sockets == 1..MaxConnects
None == 0         \* INVALID_SOCKET and NULL

VARIABLES
  mSocket, mRunning, mThread,     \* the members
  app,            \* where the application's thread is
  destroying,     \* Disconnect was called by the destructor
  made, open,     \* sockets created, and those not closed
  sent, taken,    \* pieces sent to and received from each socket
  ended,          \* connections that the daemon has closed
  thread,         \* where each receive thread is
  sock,           \* the socket of its recv
  buffer,         \* its pieces, as <<socket, number>>
  lines,          \* history: the lines that each thread has passed to callbacks
  expired         \* history: WaitForSingleObject has given up after 3 s

members == <<mSocket, mRunning, mThread>>
appVars == <<app, destroying, made, expired>>
netVars == <<open, sent, taken, ended>>
threadVars == <<thread, sock, buffer, lines>>
vars == <<members, appVars, netVars, threadVars>>

Pieces == Sockets \X (1..2 * MaxLines)

TypeOK ==
  /\ mSocket \in Sockets \cup {None} /\ mThread \in Sockets \cup {None}
  /\ mRunning \in BOOLEAN /\ destroying \in BOOLEAN /\ expired \in BOOLEAN
  /\ app \in {"free", "connect", "stop", "close", "forget", "join", "gone"}
  /\ app = "join" => mSocket = None
  /\ made \in 0..MaxConnects /\ open \subseteq 1..made /\ ended \subseteq 1..made
  /\ sent \in [Sockets -> 0..2 * MaxLines]
  /\ taken \in [Sockets -> 0..2 * MaxLines] /\ \A s \in Sockets : taken[s] <= sent[s]
  /\ thread \in [Sockets -> {"none", "test", "call", "recv", "cut", "callback", "over"}]
  /\ sock \in [Sockets -> Sockets \cup {None}]
  /\ buffer \in [Sockets -> Seq(Pieces)] /\ lines \in [Sockets -> Seq(Seq(Pieces))]

Init ==
  /\ mSocket = None /\ mRunning = FALSE /\ mThread = None
  /\ app = "free" /\ destroying = FALSE /\ made = 0 /\ expired = FALSE
  /\ open = {} /\ ended = {}
  /\ sent = [s \in Sockets |-> 0] /\ taken = sent
  /\ thread = [s \in Sockets |-> "none"] /\ sock = [s \in Sockets |-> None]
  /\ buffer = [s \in Sockets |-> <<>>] /\ lines = buffer

-----------------------------------------------------------------------------
(* The application's thread.                                               *)

ConnectBegin ==
  /\ app = "free" /\ mThread = None /\ made < MaxConnects
  /\ made' = made + 1 /\ mSocket' = made + 1 /\ open' = open \cup {made + 1}
  /\ app' = "connect"
  /\ UNCHANGED <<mRunning, mThread, destroying, expired, sent, taken, ended, threadVars>>

ConnectRefused ==
  /\ app = "connect"
  /\ open' = open \ {mSocket} /\ mSocket' = None
  /\ app' = "free"
  /\ UNCHANGED <<mRunning, mThread, destroying, made, expired, sent, taken, ended, threadVars>>

ConnectSucceeds ==
  /\ app = "connect"
  /\ mRunning' = TRUE /\ mThread' = mSocket
  /\ thread' = [thread EXCEPT ![mSocket] = "test"]
  /\ app' = "free"
  /\ UNCHANGED <<mSocket, destroying, made, expired, netVars, sock, buffer, lines>>

Disconnect ==
  /\ app = "free"
  /\ destroying' \in BOOLEAN
  /\ app' = "stop"
  /\ UNCHANGED <<members, made, expired, netVars, threadVars>>

Stop ==
  /\ app = "stop"
  /\ mRunning' = FALSE
  /\ app' = IF mSocket = None THEN "join" ELSE "close"
  /\ UNCHANGED <<mSocket, mThread, destroying, made, expired, netVars, threadVars>>

LeftOpen == open
Closed == open \ {mSocket}

CloseSocket ==
  /\ app = "close"
  /\ open' = Closed
  /\ app' = "forget"
  /\ UNCHANGED <<members, destroying, made, expired, sent, taken, ended, threadVars>>

Forgotten == None

ForgetSocket ==
  /\ app = "forget"
  /\ mSocket' = Forgotten
  /\ app' = "join"
  /\ UNCHANGED <<mRunning, mThread, destroying, made, expired, netVars, threadVars>>

(* WaitForSingleObject(m_thread, 3000): only a callback takes that long.   *)
ThreadOver == mThread \in Sockets => thread[mThread] = "over"
WaitExpires == mThread \in Sockets /\ thread[mThread] = "callback"
NotWaited == TRUE
Waited == ThreadOver \/ WaitExpires

Join ==
  /\ app = "join"
  /\ Waited
  /\ expired' = (expired \/ (WaitExpires /\ ~ThreadOver))
  /\ mThread' = None
  /\ app' = IF destroying THEN "gone" ELSE "free"
  /\ UNCHANGED <<mSocket, mRunning, destroying, made, netVars, threadVars>>

Application == \/ ConnectRefused \/ ConnectSucceeds
               \/ Stop \/ CloseSocket \/ ForgetSocket \/ Join

-----------------------------------------------------------------------------
(* The receive threads.                                                    *)

TestRunning(t) ==
  /\ thread[t] = "test"
  /\ thread' = [thread EXCEPT ![t] = IF mRunning THEN "call" ELSE "over"]
  /\ UNCHANGED <<members, appVars, netVars, sock, buffer, lines>>

CallRecv(t) ==
  /\ thread[t] = "call"
  /\ sock' = [sock EXCEPT ![t] = mSocket]
  /\ thread' = [thread EXCEPT ![t] = "recv"]
  /\ UNCHANGED <<members, appVars, netVars, buffer, lines>>

(* The buffer is kept from one recv to the next.                           *)
OnlyLast(b, chunk) == chunk
Received(b, chunk) == b \o chunk

RecvData(t) ==
  /\ thread[t] = "recv" /\ sock[t] \in open
  /\ \E n \in taken[sock[t]] + 1..sent[sock[t]] :
       LET new == n - taken[sock[t]]
       IN  /\ buffer' = [buffer EXCEPT ![t] =
                           Received(@, [i \in 1..new |-> <<sock[t], taken[sock[t]] + i>>])]
           /\ taken' = [taken EXCEPT ![sock[t]] = n]
  /\ thread' = [thread EXCEPT ![t] = "cut"]
  /\ UNCHANGED <<members, appVars, open, sent, ended, sock, lines>>

(* n <= 0: the socket is invalid or was closed, or the daemon has gone.    *)
RecvEnds(t) ==
  /\ thread[t] = "recv"
  /\ \/ sock[t] \notin open
     \/ sock[t] \in ended /\ taken[sock[t]] = sent[sock[t]]
  /\ thread' = [thread EXCEPT ![t] = "over"]
  /\ UNCHANGED <<members, appVars, netVars, sock, buffer, lines>>

(* buffer.find of the line feed.                                           *)
HasLineFeed(piece) == piece[2] % 2 = 0
LineFeeds(t) == {i \in 1..Len(buffer[t]) : HasLineFeed(buffer[t][i])}

CutLine(t) ==
  /\ thread[t] = "cut"
  /\ \E i \in LineFeeds(t) :
       /\ \A j \in LineFeeds(t) : i <= j
       /\ lines' = [lines EXCEPT ![t] = Append(@, SubSeq(buffer[t], 1, i))]
       /\ buffer' = [buffer EXCEPT ![t] = SubSeq(@, i + 1, Len(@))]
  /\ thread' = [thread EXCEPT ![t] = "callback"]
  /\ UNCHANGED <<members, appVars, netVars, sock>>

NoLine(t) ==
  /\ thread[t] = "cut" /\ LineFeeds(t) = {}
  /\ thread' = [thread EXCEPT ![t] = "test"]
  /\ UNCHANGED <<members, appVars, netVars, sock, buffer, lines>>

CallbackReturns(t) ==
  /\ thread[t] = "callback"
  /\ thread' = [thread EXCEPT ![t] = "cut"]
  /\ UNCHANGED <<members, appVars, netVars, sock, buffer, lines>>

ReceiveThread(t) == \/ TestRunning(t) \/ CallRecv(t) \/ RecvData(t) \/ RecvEnds(t)
                    \/ CutLine(t) \/ NoLine(t)

-----------------------------------------------------------------------------
(* The daemon pushes rx_data to a connection, or closes it.                *)

Connected(s) == s \in open /\ s \notin ended /\ thread[s] # "none"

Push(s) ==
  /\ Connected(s) /\ sent[s] < 2 * MaxLines
  /\ sent' = [sent EXCEPT ![s] = @ + 1]
  /\ UNCHANGED <<members, appVars, open, taken, ended, threadVars>>

DaemonCloses(s) ==
  /\ Connected(s)
  /\ ended' = ended \cup {s}
  /\ UNCHANGED <<members, appVars, open, sent, taken, threadVars>>

Next ==
  \/ ConnectBegin \/ Disconnect \/ Application
  \/ \E t \in Sockets : ReceiveThread(t) \/ CallbackReturns(t) \/ Push(t) \/ DaemonCloses(t)

Spec == Init /\ [][Next]_vars

(* Threads are scheduled.  Nothing is assumed of callbacks.                *)
FairSpec == Spec /\ WF_vars(Application) /\ \A t \in Sockets : WF_vars(ReceiveThread(t))

-----------------------------------------------------------------------------
(* Properties.                                                             *)

Disconnected == app \in {"free", "gone"} /\ mThread = None

(* Once Disconnect or the destructor has returned, no receive thread calls *)
(* back or touches the members any more, unless a callback made the wait   *)
(* expire (cpp:66-76).                                                     *)
NoThreadAfterDisconnect ==
  Disconnected /\ ~expired => \A t \in Sockets : thread[t] \in {"none", "over"}

(* While Disconnect waits for a thread, nothing but callbacks keeps it     *)
(* from ending: its loop is over at the next test, and its recv, wherever  *)
(* it stood when m_socket changed, is not on an open socket, also after an *)
(* earlier wait has expired (cpp:66-72).                                   *)
JoinedThreadStops ==
  app = "join" /\ mThread # None =>
    ~mRunning /\ (thread[mThread] = "recv" => sock[mThread] \notin open)

(* However the stream is cut into chunks, callbacks get the lines of each  *)
(* connection whole, in order and without holes (cpp:99-124), unless a     *)
(* wait has expired and two threads read one socket.                       *)
LinesWhole ==
  ~expired => \A s \in Sockets : \A n \in 1..Len(lines[s]) :
    lines[s][n] = <<<<s, 2 * n - 1>>, <<s, 2 * n>>>>

(* Disconnect returns, even if a callback does not (cpp:72).               *)
DisconnectEnds == app \in {"stop", "close", "forget", "join"} ~> app \in {"free", "gone"}
==============================================================================
