----------------------------- MODULE MCRestart -----------------------------
(* Calls that overlap or do not, across a restart.  The deliverers and the *)
(* calls are interchangeable.                                              *)
EXTENDS Restart, TLC

Symmetry == Permutations(Deliverers) \cup Permutations(Handlers)
=============================================================================
