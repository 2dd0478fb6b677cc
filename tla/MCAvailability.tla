--------------------------- MODULE MCAvailability ---------------------------
(* The calendar of a property on a small instance.  The keys are           *)
(* interchangeable, in the specification and in what is checked of it.      *)
EXTENDS Availability, TLC
EmptyOrMiddle == {{}, {1}}
Symmetry == Permutations(Keys)
=============================================================================
