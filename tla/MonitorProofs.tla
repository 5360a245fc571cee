---------------------------- MODULE MonitorProofs ----------------------------
(***************************************************************************)
(* Proofs about Monitor, for every set of clients and browsers.            *)
(***************************************************************************)
EXTENDS Monitor, TLAPS

(* Who waits for the server task holds the mutex, and took the handle out. *)
HolderStops ==
  /\ \A c \in Clients : pc[c] = "stopping" <=> lock = c
  /\ cleanup = "stopping" <=> lock = Signal
  /\ lock # Free => ~handle

(* The handle belongs to a server that serves; a server without a handle   *)
(* is one that somebody waits for, and it has been cancelled.              *)
HandleServes ==
  cleanup # "exited" =>
    /\ handle => server = "serving" /\ ~cancelled
    /\ server = "serving" /\ ~handle => lock # Free /\ cancelled

MInv == TypeOK /\ HolderStops /\ HandleServes

LEMMA MInvInit == Init => MInv
BY MonitorAssumption DEF Init, MInv, TypeOK, HolderStops, HandleServes

LEMMA MInvHandler ==
  ASSUME MInv, NEW c \in Clients, Request(c) \/ Handler(c)
  PROVE  MInv'
<1> USE MonitorAssumption DEF MInv, TypeOK, HolderStops, HandleServes, Goto, Commands
<1>1. CASE Request(c)
  BY <1>1 DEF Request
<1>2. CASE OpenMonitor(c)
  <2>1. pc' = [pc EXCEPT ![c] = "idle"] /\ lock' = lock /\ lock # c
    BY <1>2 DEF OpenMonitor
  <2>2. TypeOK'
    BY <1>2, <2>1 DEF OpenMonitor
  <2>3. HolderStops'
    BY <1>2, <2>1 DEF OpenMonitor
  <2> QED
    BY <1>2, <2>2, <2>3 DEF OpenMonitor
<1>3. CASE CloseMonitor(c)
  <2>1. CASE handle
    <3>1. pc' = [pc EXCEPT ![c] = "stopping"] /\ lock' = c /\ ~handle' /\ lock = Free
      BY <1>3, <2>1 DEF CloseMonitor, StopServer
    <3>2. TypeOK'
      BY <1>3, <2>1, <3>1 DEF CloseMonitor, StopServer
    <3>3. HolderStops'
      BY <1>3, <3>1 DEF CloseMonitor
    <3> QED
      BY <1>3, <2>1, <3>1, <3>2, <3>3 DEF CloseMonitor, StopServer
  <2>2. CASE ~handle
    BY <1>3, <2>2 DEF CloseMonitor
  <2> QED
    BY <2>1, <2>2
<1>4. CASE CloseMonitorJoined(c)
  BY <1>4 DEF CloseMonitorJoined, ServerAwaited
<1>5. CASE PortStatus(c)
  BY <1>5 DEF PortStatus
<1> QED
  BY <1>1, <1>2, <1>3, <1>4, <1>5 DEF Handler

LEMMA MInvServer ==
  ASSUME MInv,
         \/ \E b \in Browsers : BrowserConnects(b) \/ BrowserLeaves(b)
         \/ ServerEnds
  PROVE  MInv'
<1> USE DEF MInv, TypeOK, HolderStops, HandleServes
<1>1. ASSUME NEW b \in Browsers, BrowserConnects(b) PROVE MInv'
  BY <1>1 DEF BrowserConnects
<1>2. ASSUME NEW b \in Browsers, BrowserLeaves(b) PROVE MInv'
  BY <1>2 DEF BrowserLeaves
<1>3. CASE ServerEnds
  BY <1>3 DEF ServerEnds, Drained
<1> QED
  BY <1>1, <1>2, <1>3

LEMMA MInvCleanup ==
  ASSUME MInv, Sigint \/ Cleanup
  PROVE  MInv'
<1> USE MonitorAssumption DEF MInv, TypeOK, HolderStops, HandleServes
<1>1. CASE Sigint
  BY <1>1 DEF Sigint
<1>2. CASE CleanupTakes
  BY <1>2 DEF CleanupTakes, StopServer
<1>3. CASE CleanupJoined
  BY <1>3 DEF CleanupJoined, ServerAwaited
<1>4. CASE CleanupExits
  BY <1>4 DEF CleanupExits
<1> QED
  BY <1>1, <1>2, <1>3, <1>4 DEF Cleanup

LEMMA MInvStep == MInv /\ [Next]_vars => MInv'
<1> SUFFICES ASSUME MInv, [Next]_vars PROVE MInv'
  OBVIOUS
<1>1. CASE UNCHANGED vars
  BY <1>1 DEF vars, MInv, TypeOK, HolderStops, HandleServes
<1> QED
  BY <1>1, MInvHandler, MInvServer, MInvCleanup DEF Next

(* The mutex, the handle, the server and the SIGINT task keep their types, *)
(* for any clients and browsers.                                           *)
THEOREM TypeCorrect == Spec => []TypeOK
<1>1. MInv => TypeOK
  BY DEF MInv
<1> QED
  BY <1>1, MInvInit, MInvStep, PTL DEF Spec

(* Whenever nobody holds the mutex around DaemonState.monitor, the handle  *)
(* in it is that of a server that serves and has not been told to stop,    *)
(* and there is no other one; whenever somebody does, the server has ended *)
(* or been cancelled (open_monitor, close_monitor, SIGINT).                *)
THEOREM HandleTellsTruth == Spec => []HandleIsServer
<1>1. MInv => HandleIsServer
  BY DEF MInv, HolderStops, HandleServes, HandleIsServer
<1> QED
  BY <1>1, MInvInit, MInvStep, PTL DEF Spec
==============================================================================
