------------------------------ MODULE Listings ------------------------------
(***************************************************************************)
(* One property from draft to live listing: its row (status,                *)
(* compliance_status, pilot_review_status and the listing columns), its     *)
(* compliance items, the editor pages that save it                          *)
(* (lib/hosts/hostProperties.ts), the compliance and pilot reviews          *)
(* (lib/compliance/propertyCompliance.ts, lib/hosts/listingReadiness.ts),   *)
(* and the triggers of migration 028 that void an approval.                 *)
(*                                                                         *)
(* Saving is not a transaction: the readiness check, the UPDATE, the DELETE *)
(* of the amenities and each INSERT commit by themselves, and the other     *)
(* operations, which are transactions, come between them.  Pictures are     *)
(* counted only: PropertyImages shows that some mean exactly one cover.     *)
(***************************************************************************)
EXTENDS Integers, FiniteSets

CONSTANTS
  Texts,          \* what the listing columns can say
  CompleteTexts,  \* those that pass the checks of details, capacity, price, stay, address
  Amenities,
  Categories,     \* COMPLIANCE_CATEGORIES
  Tabs,           \* open editor pages
  MinimumImages,  \* MINIMUM_LISTING_IMAGE_COUNT
  MaxImages       \* bound: pictures

ASSUME ListingsAssumption ==
  /\ CompleteTexts \subseteq Texts
  /\ MinimumImages \in Nat /\ MaxImages \in Nat

VARIABLES
  property,     \* the properties row
  amenities,    \* the property_amenities rows
  pictures,     \* how many property_images rows
  items,        \* the property_compliance_items rows
  host,         \* what readiness reads of the host_profiles row
  editor,       \* the editor pages, and the saves they have in flight
  reviewed      \* history: a pilot review has ever approved the listing

vars == <<property, amenities, pictures, items, host, editor, reviewed>>

\* gaps: some optional column is NULL, which the editor shows, and saves, as "".
Contents == [text : Texts, gaps : BOOLEAN]
Statuses == {"draft", "published", "paused"}
Properties ==
  [content : Contents, status : Statuses,
   compliance : {"not_started", "in_progress", "submitted", "changes_required", "approved"},
   pilot : {"pending", "approved", "changes_required"}]
\* evidence: "absent" no row, "missing" not declared or not linked, "undated" complete
\* without valid_until (or not applicable and explained), "dated" complete, "lapsed"
\* once valid_until has passed.
Evidence == {"absent", "missing", "undated", "dated", "lapsed"}
Items == [evidence : Evidence, review : {"not_reviewed", "approved", "changes_required"}]
\* What a save declares of every category.
Declarations == [Categories -> Evidence \ {"absent"}]
Hosts == [agreed : BOOLEAN, payout : {"not_connected", "pending", "active"}]
Forms == [text : Texts, status : Statuses, amenities : SUBSET Amenities]
Editors ==
  [step : {"closed", "open", "checking", "updating", "clearing", "inserting"},
   form : Forms, left : SUBSET Amenities]

TypeOK ==
  /\ property \in Properties
  /\ amenities \subseteq Amenities
  /\ pictures \in 0..MaxImages
  /\ items \in [Categories -> Items]
  /\ host \in Hosts
  /\ editor \in [Tabs -> Editors]
  /\ reviewed \in BOOLEAN

Absent == [evidence |-> "absent", review |-> "not_reviewed"]
FormOf(p, a) == [text |-> p.content.text, status |-> p.status, amenities |-> a]
Editing(step, form) == [step |-> step, form |-> form, left |-> {}]

\* The page for a new property sends "draft" and leaves empty optional fields out.
NewProperty(text, gaps) ==
  [content |-> [text |-> text, gaps |-> gaps], status |-> "draft",
   compliance |-> "not_started", pilot |-> "pending"]

\* createPropertyForHost
Init ==
  /\ \E text \in Texts, gaps \in BOOLEAN : property = NewProperty(text, gaps)
  /\ amenities \in SUBSET Amenities
  /\ pictures = 0
  /\ items = [c \in Categories |-> Absent]
  /\ host = [agreed |-> FALSE, payout |-> "not_connected"]
  /\ editor = [t \in Tabs |-> Editing("closed", FormOf(property, amenities))]
  /\ reviewed = FALSE

-----------------------------------------------------------------------------
(* Readiness, and the triggers. *)

Complete(item) == item.evidence \in {"undated", "dated"}
\* Readiness counts incomplete items and expired ones apart.
Filled(item) == item.evidence \in {"undated", "dated", "lapsed"}

ComplianceReady ==
  /\ property.compliance = "approved"
  /\ \A c \in Categories :
       items[c].evidence # "absent" => Complete(items[c]) /\ items[c].review = "approved"
  /\ \E c \in Categories : items[c].evidence # "absent"

\* buildChecks, all but the pilot review
Blockers ==
  ~ /\ property.content.text \in CompleteTexts
    /\ pictures >= MinimumImages
    /\ host.agreed /\ host.payout = "active"
    /\ ComplianceReady

\* getListingReadiness
ListingReady == ~Blockers /\ property.pilot = "approved"

\* properties_invalidate_pilot_review, BEFORE UPDATE of the listing columns or of
\* compliance_status: what is written when new is asked for.
\* (UnpublishOnly, a mutated form, hides the listing but keeps its approval.)
UnpublishOnly(new) ==
  IF property.pilot = "approved"
     /\ <<new.content, new.compliance>> # <<property.content, property.compliance>>
     /\ property.status = "published"
  THEN [new EXCEPT !.status = "draft"] ELSE new
Written(new) ==
  IF property.pilot = "approved"
     /\ <<new.content, new.compliance>> # <<property.content, property.compliance>>
  THEN [new EXCEPT !.pilot = "pending",
                   !.status = IF property.status = "published" THEN "draft" ELSE @]
  ELSE new

\* property_images_invalidate_pilot_review, AFTER any change of a picture
\* (KeepsApproval is a mutated form.)
KeepsApproval == property
PicturesChanged ==
  IF property.pilot # "approved" THEN property
  ELSE [property EXCEPT !.pilot = "pending",
                        !.status = IF @ = "published" THEN "draft" ELSE @]

-----------------------------------------------------------------------------
(* The editor: load, check, update, amenities. *)

\* On opening, and after a save; what was edited meanwhile is lost.
LoadProperty(t) ==
  /\ editor[t].step \in {"closed", "open"}
  /\ editor' = [editor EXCEPT ![t] = Editing("open", FormOf(property, amenities))]
  /\ UNCHANGED <<property, amenities, pictures, items, host, reviewed>>

SetText(t, text) ==
  /\ editor[t].step = "open"
  /\ editor' = [editor EXCEPT ![t].form.text = text]
  /\ UNCHANGED <<property, amenities, pictures, items, host, reviewed>>

SetStatus(t, status) ==
  /\ editor[t].step = "open"
  /\ editor' = [editor EXCEPT ![t].form.status = status]
  /\ UNCHANGED <<property, amenities, pictures, items, host, reviewed>>

ToggleAmenity(t, a) ==
  /\ editor[t].step = "open"
  /\ editor' = [editor EXCEPT ![t].form.amenities = IF a \in @ THEN @ \ {a} ELSE @ \cup {a}]
  /\ UNCHANGED <<property, amenities, pictures, items, host, reviewed>>

\* The page sends the whole form, whatever was edited.
HandleSave(t) ==
  /\ editor[t].step = "open"
  /\ editor' = [editor EXCEPT ![t] = Editing("checking", editor[t].form)]
  /\ UNCHANGED <<property, amenities, pictures, items, host, reviewed>>

\* (TrustTheForm, a mutated form, leaves the check to the page.)
TrustTheForm(t) == TRUE
MayPublish(t) ==
  editor[t].form.status = "published" /\ property.status # "published" => ListingReady

\* updatePropertyForHost, up to assertPropertyCanPublish; the refusal is a 409.
AssertCanPublish(t) ==
  /\ editor[t].step = "checking"
  /\ editor' = [editor EXCEPT ![t] =
       Editing(IF MayPublish(t) THEN "updating" ELSE "open", editor[t].form)]
  /\ UNCHANGED <<property, amenities, pictures, items, host, reviewed>>

UpdatePropertyForHost(t) ==
  /\ editor[t].step = "updating"
  /\ property' = Written([property EXCEPT
       !.content = [text |-> editor[t].form.text, gaps |-> FALSE],
       !.status = editor[t].form.status])
  /\ editor' = [editor EXCEPT ![t] = Editing("clearing", editor[t].form)]
  /\ UNCHANGED <<amenities, pictures, items, host, reviewed>>

\* setPropertyAmenities: DELETE, then one INSERT for each.
ClearAmenities(t) ==
  /\ editor[t].step = "clearing"
  /\ amenities' = {}
  /\ editor' = [editor EXCEPT ![t] =
       [step |-> "inserting", form |-> editor[t].form, left |-> editor[t].form.amenities]]
  /\ UNCHANGED <<property, pictures, items, host, reviewed>>

InsertAmenity(t, a) ==
  /\ editor[t].step = "inserting" /\ a \in editor[t].left
  /\ amenities' = amenities \cup {a}
  /\ editor' = [editor EXCEPT ![t] =
       [step |-> "inserting", form |-> editor[t].form, left |-> editor[t].left \ {a}]]
  /\ UNCHANGED <<property, pictures, items, host, reviewed>>

SaveEnds(t) ==
  /\ editor[t].step = "inserting" /\ editor[t].left = {}
  /\ editor' = [editor EXCEPT ![t] = Editing("open", editor[t].form)]
  /\ UNCHANGED <<property, amenities, pictures, items, host, reviewed>>

\* The process dies; what was committed stays.
SaveDies(t) ==
  /\ editor[t].step \in {"checking", "updating", "clearing", "inserting"}
  /\ editor' = [editor EXCEPT ![t] = Editing("open", editor[t].form)]
  /\ UNCHANGED <<property, amenities, pictures, items, host, reviewed>>

-----------------------------------------------------------------------------
(* Pictures, compliance and the reviews: transactions on a locked row. *)

\* Registering, deleting, or changing one (its order, cover or description).
ChangePictures(n) ==
  /\ n \in {pictures - 1, pictures, pictures + 1} /\ n \in 0..MaxImages
  /\ pictures > 0 \/ n > 0
  /\ pictures' = n
  /\ property' = PicturesChanged
  /\ UNCHANGED <<amenities, items, host, editor, reviewed>>

\* The owner's page sends every category; submitting needs each complete.
AfterSave(submit) == IF submit THEN "submitted" ELSE "in_progress"
SaveOwnerCompliance(evidence, submit) ==
  /\ items' = [c \in Categories |-> [evidence |-> evidence[c], review |-> "not_reviewed"]]
  /\ submit => \A c \in Categories : Complete(items'[c])
  /\ property' = Written([property EXCEPT !.compliance = AfterSave(submit)])
  /\ UNCHANGED <<amenities, pictures, host, editor, reviewed>>

\* (The items can lapse after they were submitted.)
ReviewPropertyCompliance(decision) ==
  /\ property.compliance = "submitted"
  /\ decision = "approved" => \A c \in Categories : Complete(items[c])
  /\ items' = [c \in Categories |->
       IF items[c].evidence = "absent" THEN items[c] ELSE [items[c] EXCEPT !.review = decision]]
  /\ property' = Written([property EXCEPT !.compliance = decision])
  /\ UNCHANGED <<amenities, pictures, host, editor, reviewed>>

\* Nothing hides a published listing that is sent back.
ReviewPilotListing(decision) ==
  /\ decision = "approved" => ~Blockers
  /\ property' = [property EXCEPT !.pilot = decision]
  /\ reviewed' = (reviewed \/ decision = "approved")
  /\ UNCHANGED <<amenities, pictures, items, host, editor>>

-----------------------------------------------------------------------------
(* What the host and the calendar do meanwhile. *)

RecordHostAgreementAcceptance ==
  /\ host' = [host EXCEPT !.agreed = TRUE]
  /\ UNCHANGED <<property, amenities, pictures, items, editor, reviewed>>

\* HostOnboarding says how.
PayoutAccountChanges(status) ==
  /\ host' = [host EXCEPT !.payout = status]
  /\ UNCHANGED <<property, amenities, pictures, items, editor, reviewed>>

EvidenceLapses(c) ==
  /\ items[c].evidence = "dated"
  /\ items' = [items EXCEPT ![c].evidence = "lapsed"]
  /\ UNCHANGED <<property, amenities, pictures, host, editor, reviewed>>

-----------------------------------------------------------------------------
\* The pages and their routes.
EditorPage(t) ==
  \/ LoadProperty(t) \/ HandleSave(t)
  \/ \E text \in Texts : SetText(t, text)
  \/ \E status \in Statuses : SetStatus(t, status)
  \/ \E a \in Amenities : ToggleAmenity(t, a)
PropertyRoute(t) ==
  \/ AssertCanPublish(t) \/ UpdatePropertyForHost(t)
  \/ ClearAmenities(t) \/ \E a \in Amenities : InsertAmenity(t, a)
  \/ SaveEnds(t) \/ SaveDies(t)
ComplianceRoute ==
  \E evidence \in Declarations, submit \in BOOLEAN : SaveOwnerCompliance(evidence, submit)
AdminComplianceRoute ==
  \E decision \in {"approved", "changes_required"} : ReviewPropertyCompliance(decision)
AdminReadinessRoute ==
  \E decision \in {"approved", "changes_required"} : ReviewPilotListing(decision)

Next ==
  \/ \E t \in Tabs : EditorPage(t) \/ PropertyRoute(t)
  \/ \E n \in 0..MaxImages : ChangePictures(n)
  \/ ComplianceRoute \/ AdminComplianceRoute \/ AdminReadinessRoute
  \/ RecordHostAgreementAcceptance
  \/ \E status \in {"not_connected", "pending", "active"} : PayoutAccountChanges(status)
  \/ \E c \in Categories : EvidenceLapses(c)

Spec == Init /\ [][Next]_vars

-----------------------------------------------------------------------------
(* Properties. *)

\* What the reviewer approved is still what the listing says: complete columns, enough
\* pictures, the agreement, and compliance that is approved item by item.  (Evidence
\* may have lapsed since, and the payout account may have been restricted.)
ApprovalStillTrue ==
  property.pilot = "approved" =>
    /\ property.content.text \in CompleteTexts
    /\ pictures >= MinimumImages
    /\ host.agreed
    /\ property.compliance = "approved"
    /\ \A c \in Categories : items[c].evidence # "absent" /\ items[c].review = "approved"

\* A property whose compliance is approved has every category declared, complete when
\* it was approved, and approved itself: the count of seven holds whatever the owner
\* saved before, between and after.
ComplianceIsWhole ==
  property.compliance = "approved" =>
    \A c \in Categories : Filled(items[c]) /\ items[c].review = "approved"

\* A listing goes live only after a pilot review approved it, however saves, reviews and
\* edits interleave.
LiveWasReviewed == property.status = "published" => reviewed

\* No change of the listing's content, pictures or compliance leaves its approval in
\* place, whichever page or reviewer makes it, and however stale its form is.
ChangeVoidsApproval ==
  [][property.pilot = "approved"
       /\ (property.content # property'.content \/ pictures # pictures'
           \/ property.compliance # property'.compliance)
     => property'.pilot # "approved"]_vars

\* Migration 031: "Guest-facing queries already fail closed" for a property that is
\* published without an approved pilot review.  createBooking and the public queries
\* ask for status, compliance and unexpired evidence only.
Bookable ==
  /\ property.status = "published"
  /\ property.compliance = "approved"
  /\ \A c \in Categories : items[c].evidence # "lapsed"
UnreviewedIsHidden == Bookable => property.pilot = "approved"
=============================================================================
