---------------------------- MODULE MCCppRxClient ----------------------------
(* Instances of CppRxClient for TLC.                                       *)
EXTENDS CppRxClient
==============================================================================
