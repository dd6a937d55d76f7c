----------------------------- MODULE MCGenCache -----------------------------
(* Handlers racing on two keys; they are interchangeable.                  *)
EXTENDS GenCache, TLC

Symmetry == Permutations(Readers) \cup Permutations(Writers) \cup Permutations(Keys)
=============================================================================
