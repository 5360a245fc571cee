---------------------------- MODULE Subscription ----------------------------
(***************************************************************************)
(* What subscribe_rx and unsubscribe_rx promise on one connection.  A      *)
(* request decides at once what is to be streamed of its port: a channel,  *)
(* or nothing.  The port then settles: what is streamed may go on as it    *)
(* was, or follow a decision overtaken since, until it becomes what was    *)
(* decided last.  A settled port's stream ends before its subscription     *)
(* only when its channel has ended or the stream task has, and is never    *)
(* resumed.                                                                *)
(***************************************************************************)
CONSTANTS Ports, Channels, NoStream

VARIABLES
  subscribed,     \* the ports with a subscription
  decided,        \* decided[p]: the channel that is to be pushed, or NoStream
  settling,       \* the ports with a decision that the stream task has yet to follow
  stream,         \* stream[p]: the channel that is pushed, or NoStream
  ended,          \* <<p, g>> in ended: nothing more comes on channel g of p
  up              \* the stream task has not ended

state == <<subscribed, decided, settling, stream, ended, up>>

Init ==
  /\ subscribed = {}
  /\ decided = [p \in Ports |-> NoStream]
  /\ settling = {}
  /\ stream = [p \in Ports |-> NoStream]
  /\ ended = {}
  /\ up = TRUE

Decide(p, g) ==
  /\ decided' = [decided EXCEPT ![p] = IF up THEN g ELSE NoStream]
  /\ settling' = IF up THEN settling \cup {p} ELSE settling

Subscribe(p, g) ==
  /\ p \notin subscribed /\ <<p, g>> \notin ended
  /\ subscribed' = subscribed \cup {p}
  /\ Decide(p, g)
  /\ UNCHANGED <<stream, ended, up>>

(* By unsubscribe_rx, or by close_port, with which channels may end.       *)
Unsubscribe(p) ==
  /\ p \in subscribed
  /\ subscribed' = subscribed \ {p}
  /\ Decide(p, NoStream)
  /\ ended \subseteq ended'
  /\ UNCHANGED <<stream, up>>

(* The stream follows a decision that is not the last one.                 *)
Overtaken(p) ==
  /\ p \in settling
  /\ \E g \in Channels \cup {NoStream} : stream' = [stream EXCEPT ![p] = g]
  /\ UNCHANGED <<subscribed, decided, settling, ended, up>>

Settle(p) ==
  /\ p \in settling
  /\ stream' = [stream EXCEPT ![p] = decided[p]]
  /\ settling' = settling \ {p}
  /\ UNCHANGED <<subscribed, decided, ended, up>>

Lose(p) ==
  /\ <<p, stream[p]>> \in ended
  /\ stream' = [stream EXCEPT ![p] = NoStream]
  /\ decided' = [decided EXCEPT ![p] = IF p \in settling THEN @ ELSE NoStream]
  /\ UNCHANGED <<subscribed, settling, ended, up>>

ChannelsEnd ==
  /\ ended \subseteq ended'
  /\ UNCHANGED <<subscribed, decided, settling, stream, up>>

StreamTaskEnds ==
  /\ up /\ up' = FALSE
  /\ decided' = [p \in Ports |-> NoStream]
  /\ settling' = {}
  /\ stream' = [p \in Ports |-> NoStream]
  /\ UNCHANGED <<subscribed, ended>>

Next ==
  \/ \E p \in Ports :
       Unsubscribe(p) \/ Overtaken(p) \/ Settle(p) \/ Lose(p) \/ \E g \in Channels : Subscribe(p, g)
  \/ ChannelsEnd \/ StreamTaskEnds

Spec == Init /\ [][Next]_state

(* A port that has settled is not streamed without a subscription, and is  *)
(* not streamed with one only after a channel of the port, or the stream   *)
(* task, has ended.                                                        *)
StreamsOfSubscriptions ==
  \A p \in Ports \ settling :
    /\ stream[p] # NoStream => p \in subscribed
    /\ up /\ p \in subscribed /\ stream[p] = NoStream => \E g \in Channels : <<p, g>> \in ended
==============================================================================
