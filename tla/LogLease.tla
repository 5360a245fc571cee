------------------------------ MODULE LogLease ------------------------------
(***************************************************************************)
(* What a log is to the clients of SerialManager: a lease on a port.  At   *)
(* most one lease on a port is active.  An active lease is revoked before  *)
(* its holder ends, or its holder gives it up; a revoked one ends after a  *)
(* while, and an ended one never becomes active again.                     *)
(***************************************************************************)
CONSTANTS Resources, Leases, NoOwner

VARIABLES
  phase,          \* phase[l] \in {"unused", "recording", "ending", "ended"}
  owner           \* owner[l]: the port that l records

leaseState == <<phase, owner>>

Init ==
  /\ phase = [l \in Leases |-> "unused"]
  /\ owner = [l \in Leases |-> NoOwner]

Active(l) == phase[l] = "recording"

Begin(l, r) ==
  /\ phase[l] = "unused"
  /\ \A m \in Leases : Active(m) => owner[m] # r
  /\ phase' = [phase EXCEPT ![l] = "recording"]
  /\ owner' = [owner EXCEPT ![l] = r]

(* The leases in S are revoked; a holder that has not yet noticed goes on. *)
Revoke(S) ==
  /\ \A l \in S : Active(l)
  /\ phase' = [l \in Leases |-> IF l \in S THEN "ending" ELSE phase[l]]
  /\ UNCHANGED owner

(* The holders of the leases in S are gone, revoked or not.                *)
Finish(S) ==
  /\ \A l \in S : phase[l] \in {"recording", "ending"}
  /\ phase' = [l \in Leases |-> IF l \in S THEN "ended" ELSE phase[l]]
  /\ UNCHANGED owner

Next ==
  \/ \E l \in Leases, r \in Resources : Begin(l, r)
  \/ \E S \in SUBSET Leases : Revoke(S) \/ Finish(S)

Spec == Init /\ [][Next]_leaseState

RevokedFinishes(l) == phase[l] = "ending" /\ Finish({l})

FairSpec == Spec /\ \A l \in Leases : WF_leaseState(RevokedFinishes(l))

(* No two active leases on a port: two tasks never record one port.        *)
Exclusive ==
  \A l, m \in Leases : Active(l) /\ Active(m) /\ owner[l] = owner[m] => l = m
==============================================================================
