------------------------------ MODULE Gallery ------------------------------
(***************************************************************************)
(* What the pictures of a property promise to guests: an ordered gallery    *)
(* with one cover picture, whatever the pages, callbacks and retries that   *)
(* maintain it do at the same time.                                         *)
(***************************************************************************)
EXTENDS Sequences, SequencesExt

CONSTANTS Pictures, NoPicture

VARIABLES gallery, cover

Init == gallery = <<>> /\ cover = NoPicture

\* A new picture goes last; the first of all is the cover.
Add(p) ==
  /\ gallery' = Append(gallery, p)
  /\ cover' = IF gallery = <<>> THEN p ELSE cover

Choose(p) ==
  /\ cover' = p
  /\ UNCHANGED gallery

\* No picture is lost or made by changing the order.
Arrange ==
  /\ gallery' \in [DOMAIN gallery -> ToSet(gallery)]
  /\ ToSet(gallery') = ToSet(gallery)
  /\ UNCHANGED cover

\* When the cover goes, the first that remains takes its place.
TakeDown(p) ==
  /\ \E i \in DOMAIN gallery : gallery[i] = p /\ gallery' = RemoveAt(gallery, i)
  /\ cover' = IF cover # p THEN cover
              ELSE IF gallery' = <<>> THEN NoPicture ELSE Head(gallery')

Next ==
  \/ Arrange
  \/ \E p \in ToSet(gallery) : Choose(p) \/ TakeDown(p)
  \/ \E p \in Pictures \ ToSet(gallery) : Add(p)

state == <<gallery, cover>>

Spec == Init /\ [][Next]_state
=============================================================================
