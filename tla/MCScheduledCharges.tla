------------------------- MODULE MCScheduledCharges -------------------------
(* The charge protocol on a small instance. *)
EXTENDS ScheduledCharges, TLC
DeferredOnly == {1}
DeferredOrImmediate == {1, NoTime}
WorkerSymmetry == Permutations(Workers)
=============================================================================
