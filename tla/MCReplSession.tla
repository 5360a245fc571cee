---------------------------- MODULE MCReplSession ----------------------------
(* Instances of ReplSession for TLC.                                       *)
EXTENDS ReplSession
==============================================================================
