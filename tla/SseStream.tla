------------------------------ MODULE SseStream ------------------------------
(***************************************************************************)
(* The loop behind one /events connection of the monitor (sse_handler in   *)
(* monitor.rs), while connections of the daemon open and close ports.      *)
(* An entry is its channel and its number in it.                           *)
(***************************************************************************)
EXTENDS PortTable, SequencesExt

ASSUME SseAssumption == IsFiniteSet(Ports)

VARIABLES
  receivers,      \* receivers[p]
  names,          \* port_names of this round
  phase, todo,    \* part of the loop, ports left in this part
  shown           \* history: shown[p]: the last entry of p that was yielded

loopVars == <<receivers, names, phase, todo, shown>>
vars == <<tableVars, loopVars>>

TypeOK ==
  /\ TableTypeOK
  /\ receivers \in [Ports -> Receivers \cup {NoRx}]
  /\ names \subseteq Ports
  /\ phase \in {"list", "subscribe", "poll"}
  /\ todo \in Seq(Ports)
  /\ shown \in [Ports -> (0..MaxOpens) \X Nat]

Init ==
  /\ TableInit
  /\ receivers = [p \in Ports |-> NoRx]
  /\ names = {} /\ phase = "list" /\ todo = <<>>
  /\ shown = [p \in Ports |-> <<0, 0>>]

SentTo(r) == sent[r.port][r.gen]
Held(rs) == {p \in Ports : rs[p] # NoRx}

(* open_port_names, under the lock; the loop then takes the lock again for *)
(* each port that it has no receiver for.  EveryPort: without the question *)
(* whether it has one.                                                     *)
EveryPort(ps) == ps
NewPorts(ps) == ps \ Held(receivers)

ListPorts ==
  /\ phase = "list"
  /\ names' = {p \in Ports : inMap[p]}
  /\ todo' \in SetToSeqs(NewPorts(names'))
  /\ phase' = "subscribe"
  /\ UNCHANGED <<tableVars, receivers, shown>>

SubscribeNext ==
  /\ phase = "subscribe" /\ todo # <<>>
  /\ receivers' = IF inMap[Head(todo)] THEN [receivers EXCEPT ![Head(todo)] = Subscribe(Head(todo))]
                                       ELSE receivers
  /\ todo' = Tail(todo)
  /\ UNCHANGED <<tableVars, names, phase, shown>>

(* receivers.retain: a port that was closed and opened since the last      *)
(* round is among the names, and keeps its receiver.                       *)
RetainAll == receivers
Retained == [p \in Ports |-> IF p \in names THEN receivers[p] ELSE NoRx]

RetainNamed ==
  /\ phase = "subscribe" /\ todo = <<>>
  /\ receivers' = Retained
  /\ phase' = IF Held(Retained) = {} THEN "list" ELSE "poll"
  /\ todo' \in SetToSeqs(Held(Retained))
  /\ UNCHANGED <<tableVars, names, shown>>

(* try_recv() of the receiver at hand: an entry is yielded, anything else, *)
(* a Lagged too, ends this port's turn.                                    *)
YieldEntry ==
  /\ phase = "poll" /\ todo # <<>>
  /\ LET r == receivers[Head(todo)]
     IN  /\ HasValue(SentTo(r), r.next)
         /\ receivers' = [receivers EXCEPT ![Head(todo)].next = @ + 1]
         /\ shown' = [shown EXCEPT ![Head(todo)] = <<r.gen, r.next + 1>>]
  /\ UNCHANGED <<tableVars, names, phase, todo>>

NextPort ==
  /\ phase = "poll" /\ todo # <<>>
  /\ LET r == receivers[Head(todo)]
     IN  /\ ~HasValue(SentTo(r), r.next)
         /\ receivers' = IF Lagged(SentTo(r), r.next)
                           THEN [receivers EXCEPT ![Head(todo)].next = Overwritten(SentTo(r))]
                           ELSE receivers
  /\ todo' = Tail(todo)
  /\ UNCHANGED <<tableVars, names, phase, shown>>

NextRound ==
  /\ phase = "poll" /\ todo = <<>>
  /\ phase' = "list"
  /\ UNCHANGED <<tableVars, receivers, names, todo, shown>>

Loop == ListPorts \/ SubscribeNext \/ RetainNamed \/ YieldEntry \/ NextPort \/ NextRound

(* open_port and close_port of any connection, and the read tasks.         *)
TableStep(p) == (OpenStream(p) \/ RemovePort(p) \/ ReadTask(p)) /\ UNCHANGED loopVars

Next == Loop \/ \E p \in Ports : TableStep(p)

Spec == Init /\ [][Next]_vars

(* The runtime polls the stream, which never waits for anything but time.  *)
FairSpec == Spec /\ WF_vars(Loop)

-----------------------------------------------------------------------------
(* Properties.                                                             *)

(* What the page is shown of a port is in order, without duplicates, and   *)
(* lacks only entries that the ring had overwritten or that came while     *)
(* the loop listened to no channel or to another one (monitor.rs:88-117):  *)
(* the loop never leaves a channel and comes back to it, although it       *)
(* lists, subscribes and retains while ports are closed and reopened.      *)
Follows(p, e, f) ==
  \/ e[1] < f[1]
  \/ e[1] = f[1] /\ e[2] < f[2] /\ (f[2] = e[2] + 1 \/ f[2] <= Overwritten(sent[p][e[1]]) + 1)

ShownWithoutHoles ==
  [][\A p \in Ports : shown'[p] # shown[p] => Follows(p, shown[p], shown'[p])]_vars

(* Every entry that reaches a channel the page listens to is shown, unless *)
(* the ring overwrites it or the port is closed (README.md:40).            *)
AwaitsView(p, i) ==
  receivers[p] # NoRx /\ receivers[p].next < i /\ i <= Len(SentTo(receivers[p]))

EntryShown == \A p \in Ports, i \in 1..MaxEntries : AwaitsView(p, i) ~> ~AwaitsView(p, i)

(* A port that stays open and that the loop has no receiver for, whether   *)
(* it is new or was dropped since its last channel, comes to be listened   *)
(* to on the channel it has now, and remains so.  A port that stays closed *)
(* is let go of, so that its next opening is such a case (README.md:40).   *)
(* Not so a port whose closing the loop has not noticed (monitor.rs:89).   *)
Listens(p) == receivers[p] # NoRx /\ receivers[p].gen = opens[p]

WatchFollowsTable ==
  \A p \in Ports :
    /\ receivers[p] = NoRx /\ [](inMap[p]) ~> [](Listens(p))
    /\ [](~inMap[p]) ~> [](receivers[p] = NoRx)
==============================================================================
