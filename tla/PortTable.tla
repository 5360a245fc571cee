------------------------------ MODULE PortTable ------------------------------
(***************************************************************************)
(* The `ports` map of SerialManager (serial.rs) and the read task that     *)
(* open_port spawns for every port it opens.  The components that use the  *)
(* map, SerialManager and RxSession, extend this module and decide who     *)
(* takes these steps and when.                                             *)
(*                                                                         *)
(* Every successful open_port creates a broadcast channel.  The channels   *)
(* of a port are numbered 1, 2, ... in the order of the opens; a receiver  *)
(* stays with the channel it was subscribed to, even when the port has     *)
(* been closed and opened again.                                           *)
(***************************************************************************)
EXTENDS Broadcast

CONSTANTS
  Ports,          \* names of serial ports
  Data,           \* what one read() can return, as far as keywords tell
  MaxOpens,       \* bound: successful opens per port
  NoRx,           \* "no receiver"
  MaxEntries      \* bound: entries sent per channel

Channels == 1..MaxOpens
Receivers == [port : Ports, gen : Channels, next : Nat]

ASSUME TableAssumption ==
  /\ MaxOpens \in Nat /\ MaxEntries \in Nat
  /\ NoRx \notin Receivers

VARIABLES
  inMap,          \* inMap[p]: the `ports` map has an OpenPort for p
  opens,          \* opens[p]: number of p's newest channel
  reader,         \* reader[p]: p's newest read task
  sent            \* sent[p][g]: entries sent on channel g of p

tableVars == <<inMap, opens, reader, sent>>

TableTypeOK ==
  /\ inMap \in [Ports -> BOOLEAN]
  /\ opens \in [Ports -> 0..MaxOpens]
  /\ reader \in [Ports -> {"none", "reading", "aborting"}]
  /\ sent \in [Ports -> [Channels -> Seq(Data)]]

TableInit ==
  /\ inMap = [p \in Ports |-> FALSE]
  /\ opens = [p \in Ports |-> 0]
  /\ reader = [p \in Ports |-> "none"]
  /\ sent = [p \in Ports |-> [g \in Channels |-> <<>>]]

(* Both Senders of channel g are gone: the one in OpenPort and the clone   *)
(* that the read task owns.                                                *)
ChannelClosed(p, g) == g < opens[p] \/ (~inMap[p] /\ reader[p] = "none")

(* subscribe: a receiver at the end of the port's newest channel.          *)
SubscribeReplayingLast(p) ==
  [port |-> p, gen |-> opens[p], next |-> Len(sent[p][opens[p]]) - 1]

Subscribe(p) ==
  [port |-> p, gen |-> opens[p], next |-> Len(sent[p][opens[p]])]

(* The locked part of open_port when SerialStream::open succeeds.  A COM   *)
(* port is opened exclusively, so the stream halves of the last open must  *)
(* have been dropped: the writer with its OpenPort, the reader with its    *)
(* task.                                                                   *)
OpenStream(p) ==
  /\ ~inMap[p]
  /\ reader[p] = "none"
  /\ opens[p] < MaxOpens
  /\ inMap' = [inMap EXCEPT ![p] = TRUE]
  /\ opens' = [opens EXCEPT ![p] = @ + 1]
  /\ reader' = [reader EXCEPT ![p] = "reading"]
  /\ UNCHANGED sent

(* abort() marks a task; it takes effect where the task next yields.       *)
NotAborted(r) == r

Aborted(r) == IF r = "reading" THEN "aborting" ELSE r

(* The locked part of close_port: ports.remove and read_task.abort.        *)
RemovePort(p) ==
  /\ inMap[p]
  /\ inMap' = [inMap EXCEPT ![p] = FALSE]
  /\ reader' = [reader EXCEPT ![p] = Aborted(@)]
  /\ UNCHANGED <<opens, sent>>

(* reader.read returned n > 0 bytes and the entry is sent to the channel.  *)
ReadData(p) ==
  /\ reader[p] # "none"
  /\ Len(sent[p][opens[p]]) < MaxEntries
  /\ \E d \in Data : sent' = [sent EXCEPT ![p][opens[p]] = Append(@, d)]
  /\ UNCHANGED <<inMap, opens, reader>>

(* reader.read returned 0 or an error (the device went away): the task     *)
(* ends.  Nothing else changes, the port stays in the map.                 *)
ReadFailed(p) ==
  /\ reader[p] = "reading"
  /\ reader' = [reader EXCEPT ![p] = "none"]
  /\ UNCHANGED <<inMap, opens, sent>>

(* The abort reaches the read task.                                        *)
ReaderAborted(p) ==
  /\ reader[p] = "aborting"
  /\ reader' = [reader EXCEPT ![p] = "none"]
  /\ UNCHANGED <<inMap, opens, sent>>

(* Steps of the read tasks and of the devices they read.                   *)
ReadTask(p) == ReadData(p) \/ ReadFailed(p) \/ ReaderAborted(p)
==============================================================================
