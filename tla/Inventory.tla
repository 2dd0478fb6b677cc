----------------------------- MODULE Inventory -----------------------------
(***************************************************************************)
(* What the availability calendar of a property promises: a reservation    *)
(* takes all of its nights at once, none of them another's, and only its   *)
(* own leaving frees them.                                                 *)
(***************************************************************************)
CONSTANTS Nights, Keys

VARIABLE held   \* the nights each reservation holds

Init == held = [b \in Keys |-> {}]

Reserve(b, nights) ==
  /\ held[b] = {}
  /\ \A other \in Keys : held[other] \cap nights = {}
  /\ held' = [held EXCEPT ![b] = nights]

\* A cancellation, an expired hold or a discarded checkout.
Release(b) ==
  /\ held[b] # {}
  /\ held' = [held EXCEPT ![b] = {}]

Next == \E b \in Keys :
  \/ \E nights \in (SUBSET Nights) \ {{}} : Reserve(b, nights)
  \/ Release(b)

Spec == Init /\ [][Next]_held
=============================================================================
