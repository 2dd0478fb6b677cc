-------------------------- MODULE PropertyImages --------------------------
(***************************************************************************)
(* The pictures of one property: the rows of property_images               *)
(* (lib/hosts/propertyImages.ts), the blobs they point to, the upload       *)
(* callback of the blob store, and the image managers hosts have open       *)
(* (components/PropertyImageManager.tsx), whose lists may be stale.         *)
(*                                                                         *)
(* Every operation on the rows locks the property's row first, so each is   *)
(* one step; calls to the blob store are steps of their own.  The store     *)
(* delivers its callback at least once.                                     *)
(***************************************************************************)
EXTENDS Integers, Sequences, FiniteSets, SequencesExt

CONSTANTS
  Blobs,        \* the uploads, by blob_url
  Managers,     \* open image managers
  NoRow,        \* no image
  MaxImages,    \* MAX_PROPERTY_IMAGES
  MaxRows       \* bound: rows ever inserted

\* A row's id is never used again: <<b, n>> is the n-th row ever inserted, for b.
Rows == Blobs \X (1..MaxRows)

ASSUME ImagesAssumption == MaxImages \in Nat \ {0} /\ MaxRows \in Nat /\ NoRow \notin Rows

VARIABLES
  images,     \* the rows of property_images
  order,      \* sort_order of each
  covers,     \* the rows with is_cover
  inserted,   \* how many rows there ever were
  stored,     \* the blobs in the store
  callback,   \* what the store's callback for each blob has come to
  shown       \* the list each manager shows

vars == <<images, order, covers, inserted, stored, callback, shown>>
rowVars == <<images, order, covers, inserted>>
storeVars == <<stored, callback>>

RowsTyped ==
  /\ images \subseteq Rows
  /\ order \in [Rows -> Nat]
  /\ covers \subseteq Rows
  /\ inserted \in 0..MaxRows
  /\ stored \subseteq Blobs
  /\ callback \in [Blobs -> {"none", "due", "checked", "done"}]

TypeOK ==
  /\ RowsTyped
  /\ shown \in [Managers -> Seq(Rows)]

Init ==
  /\ images = {} /\ covers = {}
  /\ order = [r \in Rows |-> 0]
  /\ inserted = 0
  /\ stored = {}
  /\ callback = [b \in Blobs |-> "none"]
  /\ shown = [m \in Managers |-> <<>>]

\* ORDER BY sort_order: the i-th picture has i - 1 before it.
Before(S, o, r) == {s \in S : o[s] < o[r]}
InOrder(S, o) ==
  [i \in 1..Cardinality(S) |-> CHOOSE r \in S : Cardinality(Before(S, o, r)) = i - 1]

Full == Cardinality(images) >= MaxImages
RowsOf(b) == {r \in images : r[1] = b}

\* COALESCE(MAX(sort_order), -1) + 1
NextOrder ==
  CHOOSE n \in {0} \cup {order[r] + 1 : r \in images} : \A r \in images : order[r] < n

-----------------------------------------------------------------------------
(* The blob store. *)

\* The manager checks the list it shows against the limit, then the browser uploads.
FitsInList(m) == Len(shown[m]) + 1 <= MaxImages
HandleUpload(m, b) ==
  /\ callback[b] = "none"
  /\ FitsInList(m)
  /\ stored' = stored \cup {b}
  /\ callback' = [callback EXCEPT ![b] = "due"]
  /\ UNCHANGED <<rowVars, shown>>

\* head(), which throws when the blob is gone.
OnUploadCompleted(b) ==
  /\ callback[b] = "due"
  /\ callback' = [callback EXCEPT ![b] = IF b \in stored THEN "checked" ELSE "done"]
  /\ UNCHANGED <<rowVars, stored, shown>>

\* The answer was not a success, or was lost; or the page confirms the upload itself.
UploadConfirmedAgain(b) ==
  /\ callback[b] = "done"
  /\ callback' = [callback EXCEPT ![b] = "due"]
  /\ UNCHANGED <<rowVars, stored, shown>>

-----------------------------------------------------------------------------
(* The rows. *)

MayInsert(r) == RowsOf(r[1]) = {} /\ ~Full

\* Known blobs are answered with their row.
RegisterUploadedPropertyImage(b) ==
  /\ callback[b] = "checked"
  /\ inserted < MaxRows \/ RowsOf(b) # {} \/ Full
  /\ callback' = [callback EXCEPT ![b] = "done"]
  /\ LET r == <<b, inserted + 1>> IN
       IF MayInsert(r)
       THEN /\ images' = images \cup {r}
            /\ order' = [order EXCEPT ![r] = NextOrder]
            /\ covers' = IF images = {} THEN {r} ELSE covers
            /\ inserted' = inserted + 1
       ELSE UNCHANGED rowVars
  /\ UNCHANGED <<stored, shown>>

\* The page offers what it shows; the server looks the row up.
GetOwnedImage(m, r) == Contains(shown[m], r) /\ r \in images

\* (AlsoCover, a mutated form, forgets to clear the old cover.)
AlsoCover(r) == covers \cup {r}
OnlyCover(r) == {r}

SetPropertyImageCover(m, r) ==
  /\ GetOwnedImage(m, r)
  /\ covers' = OnlyCover(r)
  /\ UNCHANGED <<images, order, inserted, storeVars, shown>>

\* The manager moves a picture one place in the list it shows.
MoveImage(m, i) == [shown[m] EXCEPT ![i] = shown[m][i + 1], ![i + 1] = shown[m][i]]

\* The route parses a list of ids; every picture must be in it once.
ExactOrder(ids) ==
  ids \in Seq(Rows) /\ Len(ids) = Cardinality(images) /\ ToSet(ids) = images
Position(ids, r) == CHOOSE i \in DOMAIN ids : ids[i] = r

\* The server takes the whole list, or refuses it and the manager loads it again.
ReorderPropertyImages(m, i) ==
  LET ids == MoveImage(m, i) IN
    /\ i \in 1..(Len(shown[m]) - 1)
    /\ order' = IF ExactOrder(ids)
                THEN [r \in Rows |-> IF r \in ToSet(ids) THEN Position(ids, r) - 1 ELSE order[r]]
                ELSE order
    /\ shown' = [shown EXCEPT ![m] = InOrder(images, order')]
    /\ UNCHANGED <<images, covers, inserted, storeVars>>

\* (PromotedLast, a mutated form, takes the last.)
PromotedLast(rest) == {r \in rest : \A s \in rest : order[s] <= order[r]}
Promoted(rest) == {r \in rest : \A s \in rest : order[r] <= order[s]}

\* The row in a transaction, then the blob, which stays when del() fails or is
\* never called.
DeletePropertyImage(m, r) ==
  /\ GetOwnedImage(m, r)
  /\ images' = images \ {r}
  /\ order' = [order EXCEPT ![r] = 0]
  /\ covers' = IF r \in covers THEN Promoted(images \ {r}) ELSE covers
  /\ stored' \in {stored, stored \ {r[1]}}
  /\ UNCHANGED <<inserted, callback, shown>>

\* On opening, and after each operation.
LoadImages(m) ==
  /\ shown' = [shown EXCEPT ![m] = InOrder(images, order)]
  /\ UNCHANGED <<rowVars, storeVars>>

-----------------------------------------------------------------------------
\* The routes.
UploadRoute(b) ==
  OnUploadCompleted(b) \/ UploadConfirmedAgain(b) \/ RegisterUploadedPropertyImage(b)
PatchRoute(m) ==
  \/ \E r \in Rows : SetPropertyImageCover(m, r)
  \/ \E i \in 1..MaxImages : ReorderPropertyImages(m, i)
DeleteRoute(m) == \E r \in Rows : DeletePropertyImage(m, r)

Next ==
  \/ \E b \in Blobs : UploadRoute(b) \/ \E m \in Managers : HandleUpload(m, b)
  \/ \E m \in Managers : LoadImages(m) \/ PatchRoute(m) \/ DeleteRoute(m)

Spec == Init /\ [][Next]_vars

-----------------------------------------------------------------------------
(* Properties. *)

\* A property with pictures has exactly one cover, and one without has none, as the
\* index property_images_one_cover_idx and the readiness check cover_count = 1 assume.
OneCover ==
  /\ covers \subseteq images
  /\ images # {} => \E r \in covers : covers = {r}

\* The order of the pictures is total: no two share a sort_order, although pictures
\* are added at MAX + 1, leave gaps when deleted, and are renumbered from stale lists.
OrdersDistinct == \A r, s \in images : order[r] = order[s] => r = s

\* Callbacks that arrive together, twice or late never exceed MAX_PROPERTY_IMAGES, and
\* never show an upload twice.
WithinLimit ==
  /\ Cardinality(images) <= MaxImages
  /\ \A r, s \in images : r[1] = s[1] => r = s

\* The rows implement the ordered gallery guests see.
Guests == INSTANCE Gallery WITH
  Pictures <- Rows, NoPicture <- NoRow,
  gallery <- InOrder(images, order),
  cover <- IF covers = {} THEN NoRow ELSE CHOOSE r \in covers : TRUE
ImplementsGallery == Guests!Spec
=============================================================================
