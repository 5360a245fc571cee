---------------------------- MODULE MCSseStream ----------------------------
(* Instances of SseStream for TLC.                                         *)
EXTENDS SseStream

CONSTANT Quiet    \* bound: ports that are opened once and get one entry

QuietNext == Next /\ \A p \in Quiet : opens'[p] <= 1 /\ Len(sent'[p][1]) <= 1

(* Quiet bounds no step of the loop, whose fairness is that of FairSpec.   *)
QuietSpec == Init /\ [][QuietNext]_vars /\ WF_vars(Loop)
==============================================================================
