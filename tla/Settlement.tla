----------------------------- MODULE Settlement -----------------------------
(***************************************************************************)
(* What a host sees of one booking's money: its share arrives once, and    *)
(* each reversal that is asked for takes its part back once, afterwards.   *)
(***************************************************************************)
EXTENDS Naturals

CONSTANT Asks   \* the reversals that may be asked for

VARIABLES
  moved,    \* how often the host's share was transferred
  returned  \* how often each reversal was made

vars == <<moved, returned>>

Init == moved = 0 /\ returned = [q \in Asks |-> 0]

Move == moved = 0 /\ moved' = 1 /\ UNCHANGED returned

Return(q) ==
  /\ moved = 1 /\ returned[q] = 0
  /\ returned' = [returned EXCEPT ![q] = 1]
  /\ UNCHANGED moved

Next == Move \/ \E q \in Asks : Return(q)

Spec == Init /\ [][Next]_vars
=============================================================================
