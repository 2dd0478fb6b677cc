-------------------------- MODULE MCHostTransfers --------------------------
(* TLC: runs of one kind are interchangeable, and so are reversals. *)
EXTENDS HostTransfers, TLC

Symmetry == Permutations(Releasers) \cup Permutations(Reversers) \cup Permutations(Asks)
=============================================================================
