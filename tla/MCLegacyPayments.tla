------------------------- MODULE MCLegacyPayments -------------------------
(* TLC: concurrent requests of one kind are interchangeable. *)
EXTENDS LegacyPayments, TLC

Symmetry == Permutations(Refunders) \cup Permutations(Checkouts)
=============================================================================
