------------------------------ MODULE MCMonitor ------------------------------
(* The module that TLC runs for Monitor; the configurations name the sets. *)
EXTENDS Monitor
==============================================================================
