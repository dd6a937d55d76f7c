----------------------------- MODULE MCLongPoll -----------------------------
(* Concurrent getUpdates calls on one buffer; they are interchangeable.    *)
EXTENDS LongPoll, TLC

Symmetry == Permutations(Pollers)
=============================================================================
