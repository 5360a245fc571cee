------------------------------ MODULE Broadcast ------------------------------
(***************************************************************************)
(* tokio::sync::broadcast, as far as serial.rs, daemon.rs and monitor.rs   *)
(* depend on it.  The values ever sent on a channel form a sequence s, of  *)
(* which the ring retains the last Capacity.  A receiver is a cursor next: *)
(* how many of the values it has received or lost.  subscribe() returns a  *)
(* cursor at the end of the sequence, so that nothing sent before it is    *)
(* seen.                                                                   *)
(***************************************************************************)
EXTENDS Naturals, Sequences

CONSTANT Capacity      \* broadcast::channel(n): 256 per port, 64 for notices

ASSUME CapacityAssumption == Capacity \in Nat \ {0}

(* Number of values of s that a later value has overwritten in the ring.   *)
Overwritten(s) == IF Len(s) > Capacity THEN Len(s) - Capacity ELSE 0

(* try_recv() or recv() returns Lagged: it moves the cursor to the oldest  *)
(* retained value and delivers nothing.                                    *)
Lagged(s, next) == next < Overwritten(s)

(* try_recv() or recv() returns Ok.                                        *)
HasOlderValue(s, next) == Overwritten(s) <= next /\ next + 1 < Len(s)

HasValue(s, next) == Overwritten(s) <= next /\ next < Len(s)

(* try_recv() returns Empty, or Closed once every Sender has been dropped. *)
CaughtUp(s, next) == next = Len(s)
==============================================================================
