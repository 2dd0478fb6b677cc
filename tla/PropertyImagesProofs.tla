------------------------ MODULE PropertyImagesProofs ------------------------
(***************************************************************************)
(* The rows of a property's pictures, for any number of uploads and open   *)
(* managers: their types, that their order is total, and that exactly one  *)
(* of them is the cover.                                                   *)
(***************************************************************************)
EXTENDS PropertyImages, FiniteSetTheorems, SequenceTheorems, WellFoundedInduction, TLAPS

\* There is a next sort_order.
OrdersBounded == \E n \in Nat : \A r \in images : order[r] < n

RowsInv == RowsTyped /\ OneCover /\ OrdersDistinct /\ OrdersBounded

-----------------------------------------------------------------------------
(* Orders.                                                                 *)

LEMMA LeastOf ==
  ASSUME NEW S \in SUBSET Nat, S # {}
  PROVE  \E m \in S : \A n \in S : m <= n
<1>1. PICK m \in S : \A n \in S : ~ (<<n, m>> \in OpToRel(<, Nat))
  BY NatLessThanWellFounded, WFMin
<1>2. ASSUME NEW n \in S PROVE m <= n
  <2>1. ~(n < m)
    BY <1>1 DEF OpToRel
  <2> QED BY <2>1
<1> QED BY <1>2

LEMMA NextOrderIsNext ==
  ASSUME RowsTyped, OrdersBounded
  PROVE  NextOrder \in Nat /\ \A r \in images : order[r] < NextOrder
<1> DEFINE Bounds == {n \in Nat : \A r \in images : order[r] < n}
           Candidates == {0} \cup {order[r] + 1 : r \in images}
<1>1. \A r \in images : order[r] \in Nat
  BY DEF RowsTyped
<1>2. PICK m \in Bounds : \A n \in Bounds : m <= n
  <2>1. Bounds \in SUBSET Nat /\ Bounds # {}
    BY DEF OrdersBounded
  <2> HIDE DEF Bounds
  <2> QED BY <2>1, LeastOf
<1>3. m \in Candidates
  <2>1. CASE m = 0
    BY <2>1
  <2>2. CASE m # 0
    <3>1. m - 1 \in Nat /\ m - 1 \notin Bounds
      BY <1>2, <2>2
    <3>2. PICK r \in images : ~(order[r] < m - 1)
      BY <3>1
    <3>3. order[r] + 1 = m
      BY <1>1, <1>2, <3>1, <3>2
    <3> QED BY <3>3
  <2> QED BY <2>1, <2>2
<1>4. \E n \in Candidates : \A r \in images : order[r] < n
  BY <1>2, <1>3
<1>5. NextOrder \in Candidates /\ \A r \in images : order[r] < NextOrder
  BY <1>4 DEF NextOrder
<1> QED BY <1>1, <1>5

LEMMA PromotedIsOne ==
  ASSUME RowsTyped, OrdersDistinct, NEW rest \in SUBSET images, rest # {}
  PROVE  \E r \in rest : Promoted(rest) = {r}
<1> DEFINE Orders == {order[r] : r \in rest}
<1>1. \A r \in rest : order[r] \in Nat
  BY DEF RowsTyped
<1>2. Orders \in SUBSET Nat /\ Orders # {}
  BY <1>1
<1>3. PICK m \in Orders : \A n \in Orders : m <= n
  <2> HIDE DEF Orders
  <2> QED BY <1>2, LeastOf
<1>4. PICK r \in rest : order[r] = m
  BY <1>3
<1>5. \A s \in rest : order[r] <= order[s]
  BY <1>3, <1>4
<1>6. ASSUME NEW s \in rest, \A t \in rest : order[s] <= order[t]
      PROVE  s = r
  BY <1>1, <1>5, <1>6 DEF OrdersDistinct
<1> QED BY <1>5, <1>6 DEF Promoted

LEMMA Renumbered ==
  ASSUME RowsTyped, NEW ids \in Seq(Rows), NEW r \in ToSet(ids), NEW s \in ToSet(ids)
  PROVE  /\ Position(ids, r) \in 1..Len(ids)
         /\ Position(ids, r) = Position(ids, s) => r = s
<1>1. ASSUME NEW q \in ToSet(ids)
      PROVE  Position(ids, q) \in DOMAIN ids /\ ids[Position(ids, q)] = q
  BY <1>1 DEF ToSet, Position
<1> QED BY <1>1

-----------------------------------------------------------------------------
(* The operations.                                                         *)

LEMMA RowsInit == Init => RowsInv
<1> SUFFICES ASSUME Init PROVE RowsInv
  OBVIOUS
<1>1. images = {} /\ covers = {} /\ inserted \in 0..MaxRows
  BY ImagesAssumption DEF Init
<1>2. order \in [Rows -> Nat] /\ stored \subseteq Blobs
      /\ callback \in [Blobs -> {"none", "due", "checked", "done"}]
  BY DEF Init
<1>3. OrdersBounded
  <2>1. 0 \in Nat /\ \A r \in images : order[r] < 0
    BY <1>1
  <2> QED BY <2>1 DEF OrdersBounded
<1> QED BY <1>1, <1>2, <1>3 DEF RowsInv, RowsTyped, OneCover, OrdersDistinct

(* Steps at the store, and pages that load, leave the rows alone.          *)
LEMMA RowsKept ==
  ASSUME RowsInv, UNCHANGED rowVars,
         stored' \subseteq Blobs, callback' \in [Blobs -> {"none", "due", "checked", "done"}]
  PROVE  RowsInv'
<1>1. UNCHANGED <<images, order, covers, inserted>>
  BY DEF rowVars
<1> QED BY <1>1 DEF RowsInv, RowsTyped, OneCover, OrdersDistinct, OrdersBounded

LEMMA RowsRegister ==
  ASSUME RowsInv, NEW b \in Blobs, RegisterUploadedPropertyImage(b)
  PROVE  RowsInv'
<1> DEFINE r == <<b, inserted + 1>>
<1>1. callback' \in [Blobs -> {"none", "due", "checked", "done"}] /\ UNCHANGED stored
  BY DEF RowsInv, RowsTyped, RegisterUploadedPropertyImage
<1>2. CASE ~MayInsert(r)
  BY <1>1, <1>2, RowsKept DEF RowsInv, RowsTyped, RegisterUploadedPropertyImage
<1>3. CASE MayInsert(r)
  <2>1. inserted < MaxRows
    BY <1>3 DEF RegisterUploadedPropertyImage, MayInsert
  <2>2. r \in Rows /\ inserted + 1 \in 0..MaxRows
    BY <2>1, ImagesAssumption DEF RowsInv, RowsTyped, Rows
  <2>3. r \notin images
    BY <1>3 DEF MayInsert, RowsOf
  <2>4. /\ images' = images \cup {r} /\ order' = [order EXCEPT ![r] = NextOrder]
        /\ covers' = (IF images = {} THEN {r} ELSE covers) /\ inserted' = inserted + 1
    BY <1>3 DEF RegisterUploadedPropertyImage
  <2>5. NextOrder \in Nat /\ \A s \in images : order[s] < NextOrder
    BY NextOrderIsNext DEF RowsInv
  <2>6. /\ images \subseteq Rows /\ order \in [Rows -> Nat] /\ covers \subseteq images
    BY DEF RowsInv, RowsTyped, OneCover
  <2>7. order' \in [Rows -> Nat] /\ order'[r] = NextOrder
        /\ \A s \in images : order'[s] = order[s]
    BY <2>2, <2>3, <2>4, <2>5, <2>6
  <2>8. RowsTyped'
    BY <1>1, <2>2, <2>4, <2>6, <2>7 DEF RowsInv, RowsTyped
  <2>9. OneCover'
    BY <2>4, <2>6 DEF RowsInv, OneCover
  <2>10. OrdersDistinct'
    BY <2>4, <2>5, <2>6, <2>7 DEF RowsInv, OrdersDistinct
  <2>11. OrdersBounded'
    <3>1. NextOrder + 1 \in Nat /\ \A s \in images' : order'[s] < NextOrder + 1
      BY <2>4, <2>5, <2>6, <2>7
    <3> QED BY <3>1 DEF OrdersBounded
  <2> QED BY <2>8, <2>9, <2>10, <2>11 DEF RowsInv
<1> QED BY <1>2, <1>3

LEMMA RowsCover ==
  ASSUME RowsInv, NEW m \in Managers, NEW r \in Rows, SetPropertyImageCover(m, r)
  PROVE  RowsInv'
<1>1. r \in images /\ covers' = {r} /\ UNCHANGED <<images, order, inserted, stored, callback>>
  BY DEF SetPropertyImageCover, GetOwnedImage, OnlyCover, storeVars
<1>2. RowsTyped' /\ OneCover'
  BY <1>1 DEF RowsInv, RowsTyped, OneCover
<1> QED BY <1>1, <1>2 DEF RowsInv, OrdersDistinct, OrdersBounded

(* The server renumbers every picture, or none.                            *)
LEMMA RowsReorder ==
  ASSUME RowsInv, NEW m \in Managers, NEW i, ReorderPropertyImages(m, i)
  PROVE  RowsInv'
<1> DEFINE ids == MoveImage(m, i)
           New == [r \in Rows |-> IF r \in ToSet(ids) THEN Position(ids, r) - 1 ELSE order[r]]
<1>1. UNCHANGED <<images, covers, inserted, stored, callback>>
      /\ order' = IF ExactOrder(ids) THEN New ELSE order
  BY DEF ReorderPropertyImages, storeVars
<1>2. CASE ~ExactOrder(ids)
  BY <1>1, <1>2, RowsKept DEF RowsInv, RowsTyped, rowVars
<1>3. CASE ExactOrder(ids)
  <2>1. ids \in Seq(Rows) /\ ToSet(ids) = images /\ Len(ids) \in Nat
    BY <1>3 DEF ExactOrder
  <2>2. \A r \in images : Position(ids, r) \in 1..Len(ids)
    BY <2>1, Renumbered DEF RowsInv
  <2>3. \A r, s \in images : Position(ids, r) = Position(ids, s) => r = s
    BY <2>1, Renumbered DEF RowsInv
  <2>4. order' \in [Rows -> Nat] /\ \A r \in images : order'[r] = Position(ids, r) - 1
    BY <1>1, <1>3, <2>1, <2>2 DEF RowsInv, RowsTyped
  <2>5. RowsTyped' /\ OneCover'
    BY <1>1, <2>4 DEF RowsInv, RowsTyped, OneCover
  <2> DEFINE place == [r \in images |-> Position(ids, r)]
             length == Len(ids)
  <2>6. /\ place \in [images -> 1..length] /\ length \in Nat /\ images' = images
        /\ \A r, s \in images : place[r] = place[s] => r = s
        /\ \A r \in images : order'[r] = place[r] - 1
    BY <1>1, <2>1, <2>2, <2>3, <2>4
  <2> HIDE DEF place, length
  <2>7. OrdersDistinct'
    BY <2>6 DEF OrdersDistinct
  <2>8. OrdersBounded'
    <3>1. \A r \in images' : order'[r] < length
      BY <2>6
    <3> QED BY <2>6, <3>1 DEF OrdersBounded
  <2> QED BY <2>5, <2>7, <2>8 DEF RowsInv
<1> QED BY <1>2, <1>3

(* When the cover goes, one picture takes its place if any is left.        *)
LEMMA RowsDelete ==
  ASSUME RowsInv, NEW m \in Managers, NEW r \in Rows, DeletePropertyImage(m, r)
  PROVE  RowsInv'
<1> DEFINE rest == images \ {r}
<1>1. /\ r \in images /\ images' = rest /\ order' = [order EXCEPT ![r] = 0]
      /\ covers' = (IF r \in covers THEN Promoted(rest) ELSE covers)
      /\ stored' \in {stored, stored \ {r[1]}} /\ UNCHANGED <<inserted, callback>>
  BY DEF DeletePropertyImage, GetOwnedImage
<1>2. order' \in [Rows -> Nat] /\ \A s \in rest : order'[s] = order[s]
  BY <1>1 DEF RowsInv, RowsTyped
<1>3. OneCover'
  <2>1. CASE r \notin covers
    BY <1>1, <2>1 DEF RowsInv, OneCover
  <2>2. CASE r \in covers /\ rest = {}
    BY <1>1, <2>2 DEF OneCover, Promoted
  <2>3. CASE r \in covers /\ rest # {}
    <3>1. PICK s \in rest : Promoted(rest) = {s}
      <4>1. rest \in SUBSET images
        OBVIOUS
      <4> HIDE DEF rest
      <4> QED BY <2>3, <4>1, PromotedIsOne DEF RowsInv
    <3> QED BY <1>1, <2>3, <3>1 DEF OneCover
  <2> QED BY <2>1, <2>2, <2>3
<1>4. RowsTyped'
  BY <1>1, <1>2, <1>3 DEF RowsInv, RowsTyped, OneCover
<1>5. OrdersDistinct' /\ OrdersBounded'
  BY <1>1, <1>2 DEF RowsInv, OrdersDistinct, OrdersBounded
<1> QED BY <1>3, <1>4, <1>5 DEF RowsInv

LEMMA RowsStep == RowsInv /\ [Next]_vars => RowsInv'
<1> SUFFICES ASSUME RowsInv, [Next]_vars PROVE RowsInv'
  OBVIOUS
<1>1. CASE UNCHANGED vars
  BY <1>1, RowsKept DEF vars, rowVars, RowsInv, RowsTyped
<1>2. ASSUME NEW b \in Blobs, \/ OnUploadCompleted(b) \/ UploadConfirmedAgain(b)
                              \/ \E m \in Managers : HandleUpload(m, b)
      PROVE  RowsInv'
  BY <1>2, RowsKept DEF OnUploadCompleted, UploadConfirmedAgain, HandleUpload, RowsInv, RowsTyped
<1>3. ASSUME NEW m \in Managers, LoadImages(m)
      PROVE  RowsInv'
  BY <1>3, RowsKept DEF LoadImages, storeVars, RowsInv, RowsTyped
<1> QED BY <1>1, <1>2, <1>3, RowsRegister, RowsCover, RowsReorder, RowsDelete
        DEF Next, UploadRoute, PatchRoute, DeleteRoute

(* However uploads, callbacks, managers with stale lists and deletions     *)
(* interleave, a property with pictures has exactly one cover              *)
(* (propertyImages.ts:283, :442).                                          *)
THEOREM CoverIsOne == Spec => []OneCover
BY RowsInit, RowsStep, PTL DEF Spec, RowsInv

(* No two pictures share a sort_order, although they are added at MAX + 1, *)
(* leave gaps when deleted and are renumbered from stale lists             *)
(* (propertyImages.ts:226, :386).                                          *)
THEOREM OrderIsTotal == Spec => [](RowsTyped /\ OrdersDistinct)
BY RowsInit, RowsStep, PTL DEF Spec, RowsInv

-----------------------------------------------------------------------------
(* The gallery: the pictures in their order.                               *)

(* The number of pictures before each is its place in the order.           *)
LEMMA PlacesAreDistinct ==
  ASSUME NEW S, IsFiniteSet(S), NEW o, \A r \in S : o[r] \in Nat,
         \A r, s \in S : o[r] = o[s] => r = s
  PROVE  /\ [r \in S |-> Cardinality(Before(S, o, r)) + 1] \in Bijection(S, 1..Cardinality(S))
         /\ \A r, s \in S :
              o[r] < o[s] <=> Cardinality(Before(S, o, r)) < Cardinality(Before(S, o, s))
<1> DEFINE B(r) == Before(S, o, r)
           n == Cardinality(S)
           place == [r \in S |-> Cardinality(B(r)) + 1]
<1>1. n \in Nat
  BY FS_CardinalityType
<1>2. ASSUME NEW r \in S
      PROVE  IsFiniteSet(B(r)) /\ Cardinality(B(r)) \in Nat /\ Cardinality(B(r)) + 1 <= n
  <2>1. B(r) \in SUBSET S /\ B(r) # S
    BY DEF Before
  <2>2. IsFiniteSet(B(r)) /\ Cardinality(B(r)) <= n /\ Cardinality(B(r)) # n
    BY <2>1, FS_Subset
  <2> HIDE DEF B, n
  <2> QED BY <1>1, <2>2, FS_CardinalityType
<1>3. ASSUME NEW r \in S, NEW s \in S, o[r] < o[s]
      PROVE  Cardinality(B(r)) < Cardinality(B(s))
  <2>1. B(r) \cup {r} \in SUBSET B(s) /\ r \notin B(r)
    BY <1>3 DEF Before
  <2>2. Cardinality(B(r) \cup {r}) = Cardinality(B(r)) + 1
    BY <1>2, <2>1, FS_AddElement
  <2>3. Cardinality(B(r) \cup {r}) <= Cardinality(B(s))
    BY <1>2, <2>1, FS_Subset
  <2> HIDE DEF B
  <2> QED BY <1>2, <2>2, <2>3
<1>4. \A r, s \in S : o[r] < o[s] <=> Cardinality(B(r)) < Cardinality(B(s))
  <2> SUFFICES ASSUME NEW r \in S, NEW s \in S
               PROVE  o[r] < o[s] <=> Cardinality(B(r)) < Cardinality(B(s))
    OBVIOUS
  <2>1. CASE o[r] < o[s]
    BY <1>3, <2>1
  <2>2. CASE o[r] = o[s]
    BY <1>2, <2>2
  <2>3. CASE o[s] < o[r]
    <3>1. Cardinality(B(s)) < Cardinality(B(r))
      BY <1>3, <2>3
    <3> HIDE DEF B
    <3> QED BY <1>2, <2>3, <3>1
  <2> QED BY <2>1, <2>2, <2>3
<1>5. place \in Injection(S, 1..n)
  <2>1. ASSUME NEW r \in S PROVE place[r] \in 1..n
    <3> HIDE DEF n, B
    <3> QED BY <1>1, <1>2
  <2>2. ASSUME NEW r \in S, NEW s \in S, place[r] = place[s] PROVE r = s
    <3>1. ~(o[r] < o[s]) /\ ~(o[s] < o[r])
      <4> HIDE DEF B
      <4> QED BY <1>2, <1>4, <2>2
    <3> QED BY <3>1
  <2>3. place \in [S -> 1..n]
    <3> HIDE DEF n, B
    <3> QED BY <2>1
  <2> HIDE DEF place, n
  <2> QED BY <2>2, <2>3 DEF Injection, IsInjective
<1>6. place \in Bijection(S, 1..n)
  <2>1. IsFiniteSet(1..n) /\ Cardinality(1..n) = n
    BY <1>1, FS_Interval
  <2> HIDE DEF place
  <2> QED BY <1>5, <2>1, FS_Injection DEF Bijection
<1> QED BY <1>4, <1>6

\* InOrder lists each picture once, by its order.
Lists(S, o) ==
  /\ Cardinality(S) \in Nat
  /\ InOrder(S, o) \in [1..Cardinality(S) -> S]
  /\ \A i \in 1..Cardinality(S) : Cardinality(Before(S, o, InOrder(S, o)[i])) = i - 1
  /\ \A r \in S : /\ Cardinality(Before(S, o, r)) + 1 \in 1..Cardinality(S)
                  /\ InOrder(S, o)[Cardinality(Before(S, o, r)) + 1] = r

LEMMA ListInOrder ==
  ASSUME NEW S, IsFiniteSet(S), NEW o, \A r \in S : o[r] \in Nat,
         \A r, s \in S : o[r] = o[s] => r = s
  PROVE  Lists(S, o)
<1> DEFINE n == Cardinality(S)
           before(r) == Cardinality(Before(S, o, r))
           place == [r \in S |-> before(r) + 1]
<1>1. n \in Nat
  BY FS_CardinalityType
<1>2. place \in Bijection(S, 1..n)
  BY PlacesAreDistinct
<1>3. ASSUME NEW r \in S PROVE before(r) \in Nat /\ before(r) + 1 \in 1..n
  <2>1. before(r) + 1 \in 1..n
    BY <1>2 DEF Bijection, Injection
  <2>2. IsFiniteSet(Before(S, o, r))
    BY FS_Subset DEF Before
  <2>3. before(r) \in Nat
    BY <2>2, FS_CardinalityType
  <2> QED BY <2>1, <2>3
<1>4. ASSUME NEW i \in 1..n PROVE \E r \in S : before(r) = i - 1
  <2>1. PICK r \in S : place[r] = i
    BY <1>2 DEF Bijection, Surjection
  <2>2. before(r) + 1 = i
    BY <2>1
  <2> HIDE DEF before
  <2> QED BY <1>3, <2>2
<1>5. ASSUME NEW i \in 1..n
      PROVE  InOrder(S, o)[i] \in S /\ before(InOrder(S, o)[i]) = i - 1
  <2>1. InOrder(S, o)[i] = CHOOSE r \in S : before(r) = i - 1
    BY DEF InOrder
  <2> HIDE DEF before
  <2> QED BY <1>4, <2>1
<1>6. ASSUME NEW r \in S PROVE InOrder(S, o)[before(r) + 1] = r
  <2> DEFINE s == InOrder(S, o)[before(r) + 1]
  <2>1. s \in S /\ before(s) = before(r)
    <3>1. s \in S /\ before(s) = (before(r) + 1) - 1
      <4>1. before(r) + 1 \in 1..n
        BY <1>3
      <4> HIDE DEF before
      <4> QED BY <1>5, <4>1
    <3> HIDE DEF before, s
    <3> QED BY <1>3, <3>1
  <2>2. ~(o[s] < o[r]) /\ ~(o[r] < o[s])
    <3> HIDE DEF s
    <3>1. before(r) \in Nat
      BY <1>3
    <3>2. /\ o[s] < o[r] <=> before(s) < before(r)
          /\ o[r] < o[s] <=> before(r) < before(s)
      BY <2>1, PlacesAreDistinct
    <3> HIDE DEF before
    <3> QED BY <2>1, <3>1, <3>2
  <2> HIDE DEF s
  <2>3. s = r
    BY <2>1, <2>2
  <2> QED BY <2>3 DEF s
<1>7. InOrder(S, o) \in [1..n -> S]
  <2>1. InOrder(S, o) = [i \in 1..n |-> InOrder(S, o)[i]]
    BY DEF InOrder
  <2> HIDE DEF n
  <2> QED BY <1>5, <2>1
<1> QED BY <1>1, <1>3, <1>5, <1>6, <1>7 DEF Lists

-----------------------------------------------------------------------------
(* The limit, and the lists the managers show.                             *)

\* Only what is registered is counted, and it is registered within the limit.
ImagesInv == RowsInv /\ IsFiniteSet(images) /\ WithinLimit

LEMMA GalleryLists ==
  /\ ImagesInv => Lists(images, order)
  /\ ImagesInv' => Lists(images', order')
<1>1. /\ ImagesInv => (\A r \in images : order[r] \in Nat)
      /\ ImagesInv' => (\A r \in images' : order'[r] \in Nat)
  BY DEF ImagesInv, RowsInv, RowsTyped
<1>2. /\ ImagesInv => (\A r, s \in images : order[r] = order[s] => r = s)
      /\ ImagesInv' => (\A r, s \in images' : order'[r] = order'[s] => r = s)
  BY DEF ImagesInv, RowsInv, OrdersDistinct
<1>3. (ImagesInv => IsFiniteSet(images)) /\ (ImagesInv' => IsFiniteSet(images'))
  BY DEF ImagesInv
<1> QED BY <1>1, <1>2, <1>3, ListInOrder

LEMMA LimitStep == ImagesInv /\ [Next]_vars => ImagesInv'
<1> SUFFICES ASSUME ImagesInv, [Next]_vars PROVE ImagesInv'
  OBVIOUS
<1>1. RowsInv'
  BY RowsStep DEF ImagesInv
<1>2. CASE UNCHANGED images
  BY <1>1, <1>2 DEF ImagesInv, WithinLimit
<1>3. ASSUME NEW b \in Blobs, RegisterUploadedPropertyImage(b), images' # images
      PROVE  ImagesInv'
  <2> DEFINE r == <<b, inserted + 1>>
  <2>1. RowsOf(b) = {} /\ ~Full /\ images' = images \cup {r}
    BY <1>3 DEF RegisterUploadedPropertyImage, MayInsert, rowVars
  <2>2. IsFiniteSet(images') /\ Cardinality(images') <= Cardinality(images) + 1
    <3>1. Cardinality(images) \in Nat
      BY FS_CardinalityType DEF ImagesInv
    <3>2. /\ IsFiniteSet(images \cup {r})
          /\ Cardinality(images \cup {r}) \in {Cardinality(images), Cardinality(images) + 1}
      BY FS_AddElement DEF ImagesInv
    <3> QED BY <2>1, <3>1, <3>2
  <2>3. Cardinality(images') <= MaxImages
    BY <2>1, <2>2, ImagesAssumption, FS_CardinalityType DEF Full, ImagesInv
  <2>4. \A s \in images : s[1] # b
    BY <2>1 DEF RowsOf
  <2>5. \A p, q \in images' : p[1] = q[1] => p = q
    BY <2>1, <2>4 DEF ImagesInv, WithinLimit
  <2> QED BY <1>1, <2>2, <2>3, <2>5 DEF ImagesInv, WithinLimit
<1>4. ASSUME NEW m \in Managers, NEW r \in Rows, DeletePropertyImage(m, r)
      PROVE  ImagesInv'
  <2>1. images' = images \ {r}
    BY <1>4 DEF DeletePropertyImage
  <2>2. IsFiniteSet(images') /\ Cardinality(images') <= Cardinality(images)
    <3>1. images' \in SUBSET images
      BY <2>1
    <3> QED BY <3>1, FS_Subset DEF ImagesInv
  <2>3. Cardinality(images') <= MaxImages
    BY <2>2, ImagesAssumption, FS_CardinalityType DEF ImagesInv, WithinLimit
  <2> QED BY <1>1, <2>1, <2>2, <2>3 DEF ImagesInv, WithinLimit
<1>5. CASE UNCHANGED vars
  BY <1>2, <1>5 DEF vars
<1>6. ASSUME NEW b \in Blobs, \/ OnUploadCompleted(b) \/ UploadConfirmedAgain(b)
                              \/ \E m \in Managers : HandleUpload(m, b)
      PROVE  UNCHANGED images
  BY <1>6 DEF OnUploadCompleted, UploadConfirmedAgain, HandleUpload, rowVars
<1>7. ASSUME NEW m \in Managers, LoadImages(m) \/ PatchRoute(m)
      PROVE  UNCHANGED images
  BY <1>7 DEF LoadImages, PatchRoute, SetPropertyImageCover, ReorderPropertyImages, rowVars
<1> QED BY <1>2, <1>3, <1>4, <1>5, <1>6, <1>7 DEF Next, UploadRoute, DeleteRoute

LEMMA LimitInit == Init => ImagesInv
<1> SUFFICES ASSUME Init PROVE ImagesInv
  OBVIOUS
<1>1. images = {}
  BY DEF Init
<1> QED BY <1>1, RowsInit, FS_EmptySet, ImagesAssumption DEF ImagesInv, WithinLimit

(* Callbacks that arrive together, twice or late never exceed               *)
(* MAX_PROPERTY_IMAGES, and never show an upload twice                      *)
(* (propertyImages.ts:177, :209).                                           *)
THEOREM LimitIsKept == Spec => []WithinLimit
BY LimitInit, LimitStep, PTL DEF Spec, ImagesInv

\* A list that was just loaded is one of rows.
LEMMA LoadedTyped ==
  ASSUME ImagesInv', NEW m \in Managers, TypeOK,
         shown' = [shown EXCEPT ![m] = InOrder(images', order')]
  PROVE  shown' \in [Managers -> Seq(Rows)]
<1>1. InOrder(images', order') \in [1..Cardinality(images') -> images']
      /\ Cardinality(images') \in Nat
  BY GalleryLists DEF Lists
<1>2. InOrder(images', order') \in Seq(Rows)
  BY <1>1 DEF ImagesInv, RowsInv, RowsTyped
<1> QED BY <1>2 DEF TypeOK

LEMMA TypeStep == ImagesInv /\ TypeOK /\ [Next]_vars => TypeOK'
<1> SUFFICES ASSUME ImagesInv, TypeOK, [Next]_vars PROVE TypeOK'
  OBVIOUS
<1>1. ImagesInv' /\ RowsTyped'
  BY LimitStep DEF ImagesInv, RowsInv
<1>2. CASE UNCHANGED shown
  BY <1>1, <1>2 DEF TypeOK
<1>3. ASSUME NEW m \in Managers, LoadImages(m) PROVE TypeOK'
  <2>1. shown' = [shown EXCEPT ![m] = InOrder(images', order')]
    BY <1>3 DEF LoadImages, rowVars
  <2> QED BY <1>1, <2>1, LoadedTyped DEF TypeOK
<1>4. ASSUME NEW m \in Managers, NEW i, ReorderPropertyImages(m, i) PROVE TypeOK'
  <2>1. shown' = [shown EXCEPT ![m] = InOrder(images', order')]
    BY <1>4 DEF ReorderPropertyImages
  <2> QED BY <1>1, <2>1, LoadedTyped DEF TypeOK
<1>5. CASE UNCHANGED vars
  BY <1>2, <1>5 DEF vars
<1>6. ASSUME NEW b \in Blobs, UploadRoute(b) \/ \E m \in Managers : HandleUpload(m, b)
      PROVE  UNCHANGED shown
  BY <1>6 DEF UploadRoute, OnUploadCompleted, UploadConfirmedAgain, HandleUpload,
              RegisterUploadedPropertyImage
<1>7. ASSUME NEW m \in Managers, NEW r \in Rows,
             SetPropertyImageCover(m, r) \/ DeletePropertyImage(m, r)
      PROVE  UNCHANGED shown
  BY <1>7 DEF SetPropertyImageCover, DeletePropertyImage
<1> QED BY <1>2, <1>3, <1>4, <1>5, <1>6, <1>7 DEF Next, PatchRoute, DeleteRoute

(* The rows, the callbacks and the lists of the managers keep their types. *)
THEOREM TypeCorrect == Spec => []TypeOK
<1>1. Init => TypeOK
  BY RowsInit DEF Init, RowsInv, TypeOK
<1> QED BY <1>1, LimitInit, LimitStep, TypeStep, PTL DEF Spec

-----------------------------------------------------------------------------
(* The rows implement the gallery.  What Guests sees of a state:           *)

gallery == InOrder(images, order)
cover == IF covers = {} THEN NoRow ELSE CHOOSE r \in covers : TRUE

LEMMA SameGallery == ASSUME UNCHANGED rowVars PROVE UNCHANGED Guests!state
BY DEF rowVars, Guests!state, InOrder, Before

LEMMA GalleryInit == Init => Guests!Init
<1> SUFFICES ASSUME Init PROVE Guests!Init
  OBVIOUS
<1>1. Cardinality(images) = 0 /\ covers = {}
  BY FS_EmptySet DEF Init
<1>2. InOrder(images, order) = <<>>
  BY <1>1 DEF InOrder
<1> QED BY <1>1, <1>2 DEF Guests!Init

(* The gallery holds the pictures.                                         *)
LEMMA GallerySet ==
  ASSUME NEW S, NEW o, Lists(S, o)
  PROVE  /\ ToSet(InOrder(S, o)) = S
         /\ DOMAIN InOrder(S, o) = 1..Cardinality(S)
         /\ Len(InOrder(S, o)) = Cardinality(S)
<1> DEFINE g == InOrder(S, o)
           n == Cardinality(S)
<1>1. n \in Nat /\ g \in [1..n -> S]
  BY DEF Lists
<1>2. \A r \in S : \E i \in 1..n : g[i] = r
  BY DEF Lists
<1> HIDE DEF g, n
<1>3. DOMAIN g = 1..n /\ Len(g) = n /\ ToSet(g) = S
  BY <1>1, <1>2 DEF ToSet
<1> QED BY <1>3 DEF g, n

LEMMA GalleryCover ==
  ASSUME ImagesInv, NEW m \in Managers, NEW r \in Rows, SetPropertyImageCover(m, r)
  PROVE  r \in ToSet(gallery) /\ Guests!Choose(r)
<1>1. r \in images /\ covers' = {r} /\ UNCHANGED <<images, order>>
  BY DEF SetPropertyImageCover, GetOwnedImage, OnlyCover
<1>2. r \in ToSet(gallery)
  BY <1>1, GalleryLists, GallerySet DEF gallery
<1>3. InOrder(images, order)' = InOrder(images, order)
  BY <1>1 DEF InOrder, Before
<1> QED BY <1>1, <1>2, <1>3 DEF Guests!Choose

LEMMA GalleryReorder ==
  ASSUME ImagesInv, ImagesInv', NEW m \in Managers, NEW i, ReorderPropertyImages(m, i)
  PROVE  Guests!Arrange
<1>1. UNCHANGED <<images, covers>>
  BY DEF ReorderPropertyImages
<1>2. Lists(images, order) /\ Lists(images, order')
  BY <1>1, GalleryLists
<1> DEFINE g == InOrder(images, order)
           h == InOrder(images, order')
           n == Cardinality(images)
<1>3. /\ g \in [1..n -> images] /\ h \in [1..n -> images]
      /\ ToSet(g) = images /\ ToSet(h) = images
  BY <1>2, GallerySet DEF Lists
<1>4. InOrder(images, order)' = h
  BY <1>1 DEF InOrder, Before
<1>5. h \in [DOMAIN g -> ToSet(g)] /\ ToSet(h) = ToSet(g)
  <2> HIDE DEF g, h, n
  <2> QED BY <1>3
<1>6. \A s : Guests!ToSet(s) = ToSet(s)
  BY DEF Guests!ToSet, ToSet
<1>7. UNCHANGED cover
  BY <1>1 DEF cover
<1> HIDE DEF g, h
<1>8. h \in [DOMAIN g -> Guests!ToSet(g)] /\ Guests!ToSet(h) = Guests!ToSet(g)
  BY <1>5, <1>6
<1> QED BY <1>4, <1>7, <1>8 DEF g, Guests!Arrange, cover

(* A new picture comes after all the others.                               *)
LEMMA GalleryRegister ==
  ASSUME ImagesInv, ImagesInv', NEW b \in Blobs, RegisterUploadedPropertyImage(b),
         ~UNCHANGED rowVars
  PROVE  \E r \in Rows \ ToSet(gallery) : Guests!Add(r)
<1> DEFINE r == <<b, inserted + 1>>
           g == InOrder(images, order)
           h == InOrder(images', order')
           n == Cardinality(images)
<1>1. /\ MayInsert(r) /\ images' = images \cup {r} /\ order' = [order EXCEPT ![r] = NextOrder]
      /\ covers' = IF images = {} THEN {r} ELSE covers
  BY DEF RegisterUploadedPropertyImage, rowVars
<1>2. r \notin images /\ r \in Rows
  BY <1>1 DEF MayInsert, RowsOf, ImagesInv, RowsInv, RowsTyped
<1>3. /\ \A s \in images : order'[s] = order[s] /\ order[s] < NextOrder
      /\ order'[r] = NextOrder /\ NextOrder \in Nat /\ \A s \in images : order[s] \in Nat
  BY <1>1, <1>2, NextOrderIsNext DEF ImagesInv, RowsInv, RowsTyped
<1>4. Lists(images, order) /\ Lists(images', order') /\ Cardinality(images') = n + 1
      /\ n \in Nat
  BY <1>1, <1>2, GalleryLists, FS_AddElement DEF ImagesInv, Lists
<1>5. \A s \in images : Before(images', order', s) = Before(images, order, s)
  BY <1>1, <1>2, <1>3 DEF Before
<1>6. Before(images', order', r) = images
  BY <1>1, <1>2, <1>3 DEF Before
<1>7. ASSUME NEW i \in 1..n PROVE h[i] = g[i]
  <2>1. g[i] \in images /\ Cardinality(Before(images, order, g[i])) = i - 1
    BY <1>4 DEF Lists
  <2>2. Cardinality(Before(images', order', g[i])) = i - 1
    BY <1>5, <2>1
  <2>3. h[Cardinality(Before(images', order', g[i])) + 1] = g[i]
    BY <1>1, <1>4, <2>1 DEF Lists
  <2>4. (i - 1) + 1 = i
    OBVIOUS
  <2> HIDE DEF g, h
  <2> QED BY <2>2, <2>3, <2>4
<1>8. h[n + 1] = r
  BY <1>1, <1>4, <1>6 DEF Lists
<1>9. h = Append(g, r)
  <2>1. g \in [1..n -> images] /\ h \in [1..(n + 1) -> images']
    BY <1>4 DEF Lists
  <2> HIDE DEF g, h, n, r
  <2>2. g \in Seq(images) /\ Len(g) = n
    BY <1>4, <2>1
  <2> QED BY <1>4, <1>7, <1>8, <2>1, <2>2
<1>10. InOrder(images, order)' = h
  BY DEF InOrder, Before
<1>11. g = <<>> <=> images = {}
  <2>1. Len(g) = n /\ g \in [1..n -> images]
    BY <1>4, GallerySet DEF Lists
  <2>2. n = 0 <=> images = {}
    BY FS_EmptySet DEF ImagesInv
  <2> HIDE DEF g, n
  <2> QED BY <1>4, <2>1, <2>2
<1>12. cover' = IF g = <<>> THEN r ELSE cover
  <2>1. (CHOOSE s \in {r} : TRUE) = r
    <3> HIDE DEF r
    <3> QED OBVIOUS
  <2>2. CASE images = {}
    BY <1>1, <1>11, <2>1, <2>2 DEF cover
  <2>3. CASE images # {}
    <3>1. covers' = covers
      BY <1>1, <2>3
    <3> QED BY <1>11, <2>3, <3>1 DEF cover
  <2> QED BY <2>2, <2>3
<1>13. r \in Rows \ ToSet(gallery)
  BY <1>2, <1>4, GallerySet DEF gallery
<1>14. Guests!Add(r)
  BY <1>9, <1>10, <1>12 DEF Guests!Add, cover
<1> QED BY <1>13, <1>14

(* A sequence without its k-th element.                                    *)
LEMMA Removed ==
  ASSUME NEW S, NEW n \in Nat, NEW g \in [1..n -> S], NEW k \in 1..n, NEW h,
         h = [i \in 1..(n - 1) |-> IF i < k THEN g[i] ELSE g[i + 1]]
  PROVE  h = RemoveAt(g, k)
<1> DEFINE left == SubSeq(g, 1, k - 1)
           right == SubSeq(g, k + 1, n)
<1>1. g \in Seq(S) /\ Len(g) = n
  OBVIOUS
<1>2. /\ left \in Seq(S) /\ Len(left) = k - 1
      /\ \A i \in 1..(k - 1) : left[i] = g[i]
  BY <1>1
<1>3. /\ right \in Seq(S) /\ Len(right) = n - k
      /\ \A i \in 1..(n - k) : right[i] = g[i + k]
  BY <1>1
<1> HIDE DEF left, right
<1>4. /\ left \o right \in Seq(S) /\ Len(left \o right) = n - 1
      /\ \A i \in 1..(n - 1) :
           (left \o right)[i] = IF i < k THEN left[i] ELSE right[i - (k - 1)]
  <2>1. /\ left \o right \in Seq(S) /\ Len(left \o right) = Len(left) + Len(right)
        /\ \A i \in 1..(Len(left) + Len(right)) :
             (left \o right)[i] = IF i <= Len(left) THEN left[i] ELSE right[i - Len(left)]
    BY <1>2, <1>3, ConcatProperties
  <2>2. Len(left) + Len(right) = n - 1 /\ \A i \in Int : i <= k - 1 <=> i < k
    BY <1>2, <1>3
  <2> QED BY <1>2, <2>1, <2>2
<1>5. ASSUME NEW i \in 1..(n - 1) PROVE (left \o right)[i] = h[i]
  <2>1. CASE i < k
    BY <1>2, <1>4, <2>1
  <2>2. CASE ~(i < k)
    <3>1. i - (k - 1) \in 1..(n - k) /\ (i - (k - 1)) + k = i + 1
      BY <2>2
    <3>2. right[i - (k - 1)] = g[i + 1]
      BY <1>3, <3>1
    <3> QED BY <1>4, <2>2, <3>2
  <2> QED BY <2>1, <2>2
<1>6. left \o right = h
  <2>1. h \in Seq(S) /\ Len(h) = n - 1
    OBVIOUS
  <2> QED BY <1>4, <1>5, <2>1, SeqEqual
<1> QED BY <1>1, <1>6 DEF RemoveAt, left, right

(* The pictures after the deleted one move up by one place.                *)
LEMMA GalleryShorter ==
  ASSUME ImagesInv, ImagesInv', NEW m \in Managers, NEW r \in Rows, DeletePropertyImage(m, r)
  PROVE  /\ Cardinality(Before(images, order, r)) + 1 \in DOMAIN gallery
         /\ gallery[Cardinality(Before(images, order, r)) + 1] = r
         /\ InOrder(images', order')
              = RemoveAt(gallery, Cardinality(Before(images, order, r)) + 1)
<1> DEFINE g == InOrder(images, order)
           h == InOrder(images', order')
           n == Cardinality(images)
           b(s) == Cardinality(Before(images, order, s))
           k == b(r) + 1
<1>1. r \in images /\ images' = images \ {r} /\ order' = [order EXCEPT ![r] = 0]
  BY DEF DeletePropertyImage, GetOwnedImage
<1>2. Lists(images, order) /\ Lists(images', order') /\ Cardinality(images') = n - 1 /\ n \in Nat
  BY <1>1, GalleryLists, FS_RemoveElement DEF ImagesInv, Lists
<1>3. /\ \A s \in images' : order'[s] = order[s]
      /\ \A s \in images : order[s] \in Nat
  BY <1>1 DEF ImagesInv, RowsInv, RowsTyped
<1>4. g \in [1..n -> images] /\ k \in 1..n /\ g[k] = r
  BY <1>1, <1>2 DEF Lists
<1>5. ASSUME NEW s \in images
      PROVE  IsFiniteSet(Before(images, order, s)) /\ b(s) \in Nat
             /\ (order[r] < order[s] <=> b(r) < b(s))
  <2>1. \A p, q \in images : order[p] = order[q] => p = q
    BY DEF ImagesInv, RowsInv, OrdersDistinct
  <2>2. IsFiniteSet(Before(images, order, s))
    BY FS_Subset DEF Before, ImagesInv
  <2>3. order[r] < order[s] <=> b(r) < b(s)
    BY <1>1, <1>3, <2>1, PlacesAreDistinct DEF ImagesInv
  <2> QED BY <2>2, <2>3, FS_CardinalityType
<1>6. ASSUME NEW s \in images'
      PROVE  Cardinality(Before(images', order', s)) = IF b(r) < b(s) THEN b(s) - 1 ELSE b(s)
  <2>1. Before(images', order', s) = Before(images, order, s) \ {r}
    BY <1>1, <1>3 DEF Before
  <2>2. r \in Before(images, order, s) <=> b(r) < b(s)
    <3>1. r \in Before(images, order, s) <=> order[r] < order[s]
      BY <1>1 DEF Before
    <3> HIDE DEF b
    <3> QED BY <1>1, <1>5, <3>1
  <2>3. IsFiniteSet(Before(images, order, s))
    BY <1>1, <1>5
  <2> QED BY <2>1, <2>2, <2>3, FS_RemoveElement
<1>7. ASSUME NEW i \in 1..(n - 1)
      PROVE  h[i] = IF i < k THEN g[i] ELSE g[i + 1]
  <2> DEFINE j == IF i < k THEN i ELSE i + 1
             s == g[j]
  <2>1. j \in 1..n /\ j # k
    <3> HIDE DEF k, n
    <3> QED BY <1>2, <1>4
  <2>2. s \in images /\ b(s) = j - 1
    <3> HIDE DEF j
    <3> QED BY <1>2, <2>1 DEF Lists
  <2>3. b(r) = k - 1
    <3>1. b(r) \in Nat
      BY <1>1, <1>5
    <3> HIDE DEF b
    <3> QED BY <3>1
  <2>4. s # r
    <3>1. j - 1 # k - 1
      <4> HIDE DEF j, k, n
      <4> QED BY <1>2, <1>4, <2>1
    <3> HIDE DEF j, k, b
    <3> QED BY <2>2, <2>3, <3>1
  <2>5. s \in images'
    BY <1>1, <2>2, <2>4
  <2>6. Cardinality(Before(images', order', s)) = i - 1
    <3>1. Cardinality(Before(images', order', s)) = IF b(r) < b(s) THEN b(s) - 1 ELSE b(s)
      <4> HIDE DEF s, b
      <4> QED BY <1>6, <2>5
    <3> HIDE DEF s, b, k, n
    <3> QED BY <1>2, <1>4, <2>2, <2>3, <3>1
  <2>7. h[(i - 1) + 1] = s
    <3> HIDE DEF s
    <3> QED BY <1>2, <2>5, <2>6 DEF Lists
  <2>8. (i - 1) + 1 = i
    OBVIOUS
  <2>9. h[i] = g[j]
    <3> HIDE DEF h, g, j
    <3> QED BY <2>7, <2>8
  <2> HIDE DEF h, g, k
  <2> QED BY <2>9
<1>8. h = [i \in 1..(n - 1) |-> IF i < k THEN g[i] ELSE g[i + 1]]
  <2>1. h \in [1..(n - 1) -> images']
    BY <1>2 DEF Lists
  <2> HIDE DEF h, g, k, n
  <2> QED BY <1>7, <2>1
<1>9. h = RemoveAt(g, k)
  <2> HIDE DEF h, g, k, n
  <2> QED BY <1>2, <1>4, <1>8, Removed
<1> QED BY <1>4, <1>9 DEF gallery

LEMMA GalleryDelete ==
  ASSUME ImagesInv, ImagesInv', NEW m \in Managers, NEW r \in Rows, DeletePropertyImage(m, r)
  PROVE  r \in ToSet(gallery) /\ Guests!TakeDown(r)
<1> DEFINE rest == images \ {r}
           h == InOrder(images', order')
<1>1. /\ r \in images /\ images' = rest /\ order' = [order EXCEPT ![r] = 0]
      /\ covers' = (IF r \in covers THEN Promoted(rest) ELSE covers)
  BY DEF DeletePropertyImage, GetOwnedImage
<1>2. r \in ToSet(gallery)
  BY <1>1, GalleryLists, GallerySet DEF gallery
<1>3. \E i \in DOMAIN gallery : gallery[i] = r /\ h = RemoveAt(gallery, i)
  BY GalleryShorter
<1>4. h = <<>> <=> rest = {}
  <2>1. Lists(images', order')
    BY GalleryLists
  <2>2. Len(h) = Cardinality(images') /\ h \in [1..Cardinality(images') -> images']
        /\ Cardinality(images') \in Nat
    BY <2>1, GallerySet DEF Lists
  <2>3. Cardinality(images') = 0 <=> rest = {}
    BY <1>1, FS_EmptySet DEF ImagesInv
  <2> HIDE DEF h
  <2> QED BY <2>2, <2>3
<1>5. ASSUME r \in covers, rest # {} PROVE covers' = {Head(h)}
  <2>1. PICK p \in rest : Promoted(rest) = {p}
    <3>1. rest \in SUBSET images
      OBVIOUS
    <3> HIDE DEF rest
    <3> QED BY <1>5, <3>1, PromotedIsOne DEF ImagesInv, RowsInv
  <2>2. \A s \in rest : order[p] <= order[s]
    BY <2>1 DEF Promoted
  <2>3. \A s \in rest : order'[s] = order[s] /\ order[s] \in Nat
    BY <1>1 DEF ImagesInv, RowsInv, RowsTyped
  <2>4. Before(images', order', p) = {}
    <3> HIDE DEF rest
    <3> QED BY <1>1, <2>1, <2>2, <2>3 DEF Before
  <2>5. Lists(images', order') /\ Cardinality(Before(images', order', p)) = 0
    BY <2>4, GalleryLists, FS_EmptySet
  <2>6. h[0 + 1] = p /\ h \in [1..Cardinality(images') -> images'] /\ Cardinality(images') \in Nat
    BY <1>1, <2>1, <2>5 DEF Lists
  <2>7. Head(h) = p
    <3> HIDE DEF h
    <3> QED BY <2>6
  <2> QED BY <1>1, <1>5, <2>1, <2>7
<1>6. PICK p \in covers : covers = {p}
  BY <1>1 DEF ImagesInv, RowsInv, OneCover
<1>7. cover = p
  BY <1>6 DEF cover
<1>8. cover' = IF cover # r THEN cover ELSE IF h = <<>> THEN NoRow ELSE Head(h)
  <2>1. CASE p # r
    <3>1. covers' = {p}
      BY <1>1, <1>6, <2>1
    <3> QED BY <1>7, <2>1, <3>1 DEF cover
  <2>2. CASE p = r /\ rest = {}
    <3>1. covers' = {}
      BY <1>1, <1>6, <2>2 DEF Promoted
    <3> QED BY <1>4, <1>7, <2>2, <3>1 DEF cover
  <2>3. CASE p = r /\ rest # {}
    <3>1. covers' = {Head(h)}
      BY <1>5, <1>6, <2>3
    <3>2. (CHOOSE s \in {Head(h)} : TRUE) = Head(h)
      <4> HIDE DEF h
      <4> QED OBVIOUS
    <3>3. cover' = Head(h)
      BY <3>1, <3>2 DEF cover
    <3> QED BY <1>4, <1>7, <2>3, <3>3
  <2> QED BY <2>1, <2>2, <2>3
<1>9. InOrder(images, order)' = h
  BY DEF InOrder, Before
<1>10. \A s, i : Guests!RemoveAt(s, i) = RemoveAt(s, i)
  BY DEF Guests!RemoveAt, RemoveAt
<1> HIDE DEF h
<1>11. Guests!TakeDown(r)
  BY <1>3, <1>8, <1>9, <1>10 DEF Guests!TakeDown, cover, gallery
<1> QED BY <1>2, <1>11

(* However uploads, callbacks and managers with stale lists interleave, the  *)
(* rows are an ordered gallery in which a new picture goes last, a change of *)
(* the order loses none, and the first that remains follows a deleted cover  *)
(* (propertyImages.ts:169-460).                                             *)
THEOREM RowsImplementGallery == Spec => ImplementsGallery
<1>1. Init => Guests!Init
  BY GalleryInit
<1>2. ASSUME ImagesInv, ImagesInv', [Next]_vars PROVE [Guests!Next]_(Guests!state)
  <2>1. CASE UNCHANGED rowVars
    BY <2>1, SameGallery
  <2>2. ASSUME NEW b \in Blobs, RegisterUploadedPropertyImage(b), ~UNCHANGED rowVars
        PROVE  Guests!Next
    BY <1>2, <2>2, GalleryRegister DEF Guests!Next, Guests!ToSet, ToSet, gallery
  <2>3. ASSUME NEW m \in Managers, NEW r \in Rows, SetPropertyImageCover(m, r)
        PROVE  Guests!Next
    BY <1>2, <2>3, GalleryCover DEF Guests!Next, Guests!ToSet, ToSet, gallery
  <2>4. ASSUME NEW m \in Managers, NEW i, ReorderPropertyImages(m, i)
        PROVE  Guests!Next
    BY <1>2, <2>4, GalleryReorder DEF Guests!Next
  <2>5. ASSUME NEW m \in Managers, NEW r \in Rows, DeletePropertyImage(m, r)
        PROVE  Guests!Next
    BY <1>2, <2>5, GalleryDelete DEF Guests!Next, Guests!ToSet, ToSet, gallery
  <2>6. ASSUME NEW b \in Blobs, \/ OnUploadCompleted(b) \/ UploadConfirmedAgain(b)
                                \/ \E m \in Managers : HandleUpload(m, b)
        PROVE  UNCHANGED rowVars
    BY <2>6 DEF OnUploadCompleted, UploadConfirmedAgain, HandleUpload
  <2>7. ASSUME NEW m \in Managers, LoadImages(m)
        PROVE  UNCHANGED rowVars
    BY <2>7 DEF LoadImages
  <2>8. CASE UNCHANGED vars
    BY <2>1, <2>8 DEF vars, rowVars
  <2> QED BY <1>2, <2>1, <2>2, <2>3, <2>4, <2>5, <2>6, <2>7, <2>8
          DEF Next, UploadRoute, PatchRoute, DeleteRoute
<1> QED BY <1>1, <1>2, LimitInit, LimitStep, PTL DEF Spec, ImplementsGallery, Guests!Spec
=============================================================================
