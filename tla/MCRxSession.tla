----------------------------- MODULE MCRxSession -----------------------------
(* Instances of RxSession for TLC.                                         *)
EXTENDS RxSession, TLC

(* Keywords are interchangeable.                                           *)
Symmetry == Permutations(Keywords)
==============================================================================
