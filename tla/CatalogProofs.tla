---------------------------- MODULE CatalogProofs ----------------------------
(***************************************************************************)
(* The catalog, for any number of requests, photos and reviews: its types, *)
(* that a live listing was reviewed or paused by an admin, that only an    *)
(* outdated save undoes a decision or spoils an aggregate, and that the    *)
(* photos are numbered.                                                    *)
(***************************************************************************)
EXTENDS Catalog, FiniteSetTheorems, TLAPS

Calls == {Idle} \cup GalleryCall \cup CatalogCall

\* The columns of the table that e is in.
Kind(e) == CASE e = "listing"  -> Listing
             [] e = "profile"  -> Profile
             [] e = "document" -> Document
             [] OTHER          -> Review

\* Of the entities only a review may not exist yet.
RowsFit == \A e \in Entities : rows[e] \in Kind(e) \/ (e \in Reviews /\ rows[e] = NoRow)

\* A handler with an operation in hand.
Holds(c) == c.at \in {"vetting", "counting photos", "saving"}
InHand(w) == Holds(calls[w])

\* Its copy is one of the entity, in a status that the operation allows.
FitFor(c) == c.copy \in Kind(c.op.of) /\ c.copy.status \in c.op.when
CopiesFit == \A w \in Workers : InHand(w) => FitFor(calls[w])

\* What is about to be recorded was carried out.
RecordedIsSaved == \A w \in Workers : At(w, "recording") => calls[w].action \in saved

\* A listing that is live, or was before a pause, was approved or paused while
\* not live by an admin; so was the copy that a handler holds of one.
Reviewed == {"listing.approve", "listing.pause.unlisted"} \cap Accounted # {}
HoldsLive(c) == c.op.of = "listing" /\ c.copy.status \in BeenLive
LiveNeedsReview ==
    /\ rows["listing"].status \in BeenLive => Reviewed
    /\ \A w \in Workers : InHand(w) /\ HoldsLive(calls[w]) => Reviewed

IInv == TypeOK /\ RowsFit /\ CopiesFit /\ RecordedIsSaved /\ LiveNeedsReview

---------------------------------------------------------------------------
(* The operations. *)

\* Which operations there are on what.
LEMMA OperationsAre ==
    ASSUME NEW op \in Operations
    PROVE  \/ /\ op.of = "listing"
              /\ \/ op \in {update, submit, resume, pause}
                 \/ op \in {pauseAsAdmin, pauseUnlisted, reinstateAsAdmin, removeAsAdmin, approve,
                            reject, requestChanges, flagListing}
                 \/ \E n \in 0..Cardinality(Up) : op = Rate("listing", n)
           \/ /\ op.of = "profile"
              /\ \/ op \in {approveVerification, rejectVerification, removeProfile}
                 \/ \E n \in 0..Cardinality(Up) : op = Rate("profile", n)
           \/ op.of = "document" /\ op \in {approveDocument, rejectDocument}
           \/ \E r \in Reviews : op.of = r /\ op \in {hide(r), unhide(r), respondAsProvider(r)}
  BY DEF Operations, Ratings, Routes, OwnerRoutes, ListingAdminRoutes, ProviderAdminRoutes, ReviewAdminRoutes,
     ReviewRoutes, update, submit, resume, pause, pauseAsAdmin, pauseUnlisted, reinstateAsAdmin, removeAsAdmin, approve,
     reject, requestChanges, flagListing, approveVerification, rejectVerification, removeProfile,
     approveDocument, rejectDocument, hide, unhide, respondAsProvider, Rate, Plain, Audited, Reviews

\* A review is none of the other entities.
LEMMA ReviewKind == ASSUME NEW r \in Reviews PROVE Kind(r) = Review
  BY CatalogAssumption DEF Kind, Reviews

\* An operation is on an entity, and what it saves fits the table.
LEMMA SavesFit ==
    ASSUME NEW op \in Operations
    PROVE  /\ op.of \in Entities
           /\ \A r \in Kind(op.of) : Merge(r, op.set) \in Kind(op.of)
  <1>1. CASE op.of = "listing"
    <2> SUFFICES \A r \in Listing : Merge(r, op.set) \in Listing
      BY <1>1 DEF Kind, Entities
    <2> TAKE r \in Listing
    <2>1. CASE op \in {update, submit, resume, pause}
      BY <2>1 DEF update, submit, resume, pause, Plain, Merge, Listing, ListingStatuses, To, Unchanged
    <2>2. CASE op \in {pauseAsAdmin, pauseUnlisted, reinstateAsAdmin, removeAsAdmin, approve, reject, requestChanges, flagListing}
      <3>1. /\ pauseAsAdmin.set = To("paused") /\ pauseUnlisted.set = To("paused")
            /\ reinstateAsAdmin.set = To("live")
            /\ approve.set = To("live") /\ reject.set = To("rejected")
            /\ requestChanges.set = To("changes_requested")
        BY DEF pauseAsAdmin, pauseUnlisted, reinstateAsAdmin, approve, reject, requestChanges, Audited
      <3>2. removeAsAdmin.set = [deleted |-> TRUE] /\ flagListing.set = [flagged |-> TRUE]
        BY Zenon DEF removeAsAdmin, flagListing, Audited
      <3>3. Merge(r, [deleted |-> TRUE]) \in Listing /\ Merge(r, [flagged |-> TRUE]) \in Listing
        BY DEF Merge, Listing
      <3>4. \A s \in ListingStatuses : Merge(r, To(s)) \in Listing
        BY DEF Merge, Listing, To
      <3> QED BY <2>2, <3>1, <3>2, <3>3, <3>4 DEF ListingStatuses
    <2>3. ASSUME NEW n \in 0..Cardinality(Up), op = Rate("listing", n) PROVE Merge(r, op.set) \in Listing
      BY <2>3 DEF Rate, Audited, Merge, Listing
    <2> QED BY <1>1, <2>1, <2>2, <2>3, OperationsAre, CatalogAssumption DEF Reviews
  <1>2. CASE op.of = "profile"
    <2> SUFFICES \A r \in Profile : Merge(r, op.set) \in Profile
      BY <1>2 DEF Kind, Entities
    <2> TAKE r \in Profile
    <2>1. CASE op \in {approveVerification, rejectVerification, removeProfile}
      <3>1. approveVerification.set = To("verified") /\ rejectVerification.set = To("rejected")
        BY DEF approveVerification, rejectVerification, Audited
      <3>2. removeProfile.set = [deleted |-> TRUE]
        BY Zenon DEF removeProfile, Audited
      <3>3. Merge(r, [deleted |-> TRUE]) \in Profile
        BY DEF Merge, Profile
      <3>4. \A s \in {"verified", "rejected"} : Merge(r, To(s)) \in Profile
        BY DEF Merge, Profile, To
      <3> QED BY <2>1, <3>1, <3>2, <3>3, <3>4
    <2>2. ASSUME NEW n \in 0..Cardinality(Up), op = Rate("profile", n) PROVE Merge(r, op.set) \in Profile
      BY <2>2 DEF Rate, Audited, Merge, Profile
    <2> QED BY <1>2, <2>1, <2>2, OperationsAre, CatalogAssumption DEF Reviews
  <1>3. CASE op.of = "document"
    <2> SUFFICES \A r \in Document : Merge(r, op.set) \in Document
      BY <1>3 DEF Kind, Entities
    <2>1. op \in {approveDocument, rejectDocument}
      BY <1>3, OperationsAre, CatalogAssumption DEF Reviews
    <2> QED BY <2>1 DEF approveDocument, rejectDocument, Audited, Merge, Document, To
  <1>4. CASE op.of \in Reviews
    <2> SUFFICES \A r \in Review : Merge(r, op.set) \in Review
      BY <1>4, ReviewKind DEF Entities
    <2> TAKE r \in Review
    <2>1. PICK e \in Reviews : op \in {hide(e), unhide(e), respondAsProvider(e)}
      BY <1>4, OperationsAre, CatalogAssumption DEF Reviews
    <2>2. op.set \in {To("hidden"), To("visible"), [answered |-> TRUE]}
      <3>1. hide(e).set = To("hidden") /\ unhide(e).set = To("visible")
        BY DEF hide, unhide, Audited
      <3>2. respondAsProvider(e).set = [answered |-> TRUE]
        BY Zenon DEF respondAsProvider, Plain
      <3> QED BY <2>1, <3>1, <3>2
    <2>3. \A s \in {"hidden", "visible"} : Merge(r, To(s)) \in Review
      BY DEF Merge, Review, To
    <2>4. Merge(r, [answered |-> TRUE]) \in Review
      BY DEF Merge, Review
    <2> QED BY <2>2, <2>3, <2>4
  <1> QED BY <1>1, <1>2, <1>3, <1>4, OperationsAre

\* A rating may be saved to a row in any status, and is nothing to record.
LEMMA RatingsAre ==
    ASSUME NEW op \in Ratings
    PROVE  op \in Operations /\ op.of \in {"listing", "profile"} /\ op.when = Statuses
  BY DEF Ratings, Operations, Rate, Audited

\* The actions, and what is called when its save is done.
LEMMA AfterSave ==
    ASSUME NEW op \in Operations
    PROVE  /\ op.action \in Actions
           /\ After(op) \in Calls
           /\ ~Holds(After(op))
           /\ After(op).at = "recording" => After(op).action = op.action
           /\ op.action \in {"listing.approve", "listing.pause.unlisted"} => After(op).at = "recording"
  <1>1. op.action \in Actions
    BY DEF Actions
  <1> QED BY <1>1 DEF After, Calls, CatalogCall, Idle, Holds

\* A removal is of a listing or a profile.
LEMMA RemovalsAre ==
    ASSUME NEW op \in Operations, Removes(op)
    PROVE  op.of \in {"listing", "profile"}
  <1> SUFFICES ASSUME op.of \notin {"listing", "profile"} PROVE FALSE
    OBVIOUS
  <1>1. op.set = [deleted |-> TRUE]
    BY DEF Removes
  <1>2. op.set # [deleted |-> TRUE]
    <2>1. CASE op \in {approveDocument, rejectDocument}
      BY <2>1 DEF approveDocument, rejectDocument, Audited, To
    <2>2. ASSUME NEW r \in Reviews, op \in {hide(r), unhide(r)} PROVE op.set # [deleted |-> TRUE]
      BY <2>2 DEF hide, unhide, Audited, To
    <2>3. ASSUME NEW r \in Reviews, op = respondAsProvider(r) PROVE op.set # [deleted |-> TRUE]
      <3>1. op.set = [answered |-> TRUE]
        BY <2>3, Zenon DEF respondAsProvider, Plain
      <3>2. "answered" \in DOMAIN op.set
        BY <3>1
      <3>3. "answered" \notin DOMAIN [deleted |-> TRUE]
        OBVIOUS
      <3> QED BY <3>2, <3>3
    <2> QED BY <2>1, <2>2, <2>3, OperationsAre
  <1> QED BY <1>1, <1>2

\* What an operation does to a row in a status that it allows: it undoes no
\* decision, and makes a listing live only as approve and pauseAsAdmin do, or
\* where it was before.
Stands(op, r) ==
    LET new == Merge(r, op.set)
    IN  /\ op.of = "listing" =>
               /\ r.status \in {"rejected", "changes_requested"} => new.status # "live"
               /\ r.flagged => new.flagged
               /\ r.deleted => new.deleted
               /\ new.status \in BeenLive =>
                      r.status \in BeenLive \/ op.action \in {"listing.approve", "listing.pause.unlisted"}
        /\ op.of = "profile" => (r.deleted => new.deleted)
        /\ op.of = "document" => r.status = "pending"
        /\ op.of \in Reviews =>
               (r.status = "hidden" /\ new.status = "visible" => op = unhide(op.of))

LEMMA OperationsStand ==
    ASSUME NEW op \in Operations, NEW r \in Kind(op.of), r.status \in op.when
    PROVE  Stands(op, r)
  <1>1. CASE op.of = "listing"
    <2>1. r \in Listing
      BY <1>1 DEF Kind
    <2>2. CASE op \in {update, submit, resume, pause}
      BY <1>1, <2>1, <2>2, CatalogAssumption
         DEF update, submit, resume, pause, Plain, Stands, Merge, Listing, ListingStatuses, BeenLive, To,
             Unchanged, Reviews
    <2>3. CASE op \in {pauseAsAdmin, pauseUnlisted, reinstateAsAdmin, approve, reject, requestChanges}
      BY <1>1, <2>1, <2>3, CatalogAssumption
         DEF pauseAsAdmin, pauseUnlisted, reinstateAsAdmin, approve, reject, requestChanges, Audited, Stands, Merge,
             Listing, ListingStatuses, BeenLive, To, Reviews
    <2>4. CASE op \in {removeAsAdmin, flagListing}
      <3>1. removeAsAdmin.set = [deleted |-> TRUE] /\ flagListing.set = [flagged |-> TRUE]
        BY Zenon DEF removeAsAdmin, flagListing, Audited
      <3>2. \A set \in {[deleted |-> TRUE], [flagged |-> TRUE]} :
                /\ Merge(r, set).status = r.status
                /\ r.flagged => Merge(r, set).flagged
                /\ r.deleted => Merge(r, set).deleted
        BY <2>1 DEF Merge, Listing
      <3> QED BY <1>1, <2>4, <3>1, <3>2, CatalogAssumption DEF Stands, Reviews
    <2>5. ASSUME NEW n \in 0..Cardinality(Up), op = Rate("listing", n) PROVE Stands(op, r)
      <3>1. LET new == Merge(r, op.set)
            IN new.status = r.status /\ new.flagged = r.flagged /\ new.deleted = r.deleted
        BY <2>1, <2>5 DEF Rate, Audited, Merge, Listing
      <3> QED BY <1>1, <3>1, CatalogAssumption DEF Stands, Reviews
    <2> QED BY <1>1, <2>2, <2>3, <2>4, <2>5, OperationsAre, CatalogAssumption DEF Reviews
  <1>2. CASE op.of = "profile"
    <2>1. r \in Profile
      BY <1>2 DEF Kind
    <2>2. Merge(r, op.set).deleted = r.deleted \/ op.set = [deleted |-> TRUE]
      <3>1. CASE op \in {approveVerification, rejectVerification}
        BY <2>1, <3>1 DEF approveVerification, rejectVerification, Audited, Merge, To, Profile
      <3>2. CASE op = removeProfile
        BY <3>2, Zenon DEF removeProfile, Audited
      <3>3. ASSUME NEW n \in 0..Cardinality(Up), op = Rate("profile", n)
            PROVE  Merge(r, op.set).deleted = r.deleted
        BY <2>1, <3>3 DEF Rate, Audited, Merge, Profile
      <3> QED BY <1>2, <3>1, <3>2, <3>3, OperationsAre, CatalogAssumption DEF Reviews
    <2>3. op.set = [deleted |-> TRUE] => Merge(r, op.set).deleted
      BY <2>1 DEF Merge, Profile
    <2> QED BY <1>2, <2>2, <2>3, CatalogAssumption DEF Stands, Reviews
  <1>3. CASE op.of = "document"
    <2>1. op \in {approveDocument, rejectDocument}
      BY <1>3, OperationsAre, CatalogAssumption DEF Reviews
    <2>2. op.when = {"pending"}
      BY <2>1 DEF approveDocument, rejectDocument, Audited
    <2> QED BY <1>3, <2>2, CatalogAssumption DEF Stands, Reviews
  <1>4. CASE op.of \in Reviews
    <2>1. r \in Review
      BY <1>4, ReviewKind
    <2>2. PICK e \in Reviews : op \in {hide(e), unhide(e), respondAsProvider(e)}
      BY <1>4, OperationsAre, CatalogAssumption DEF Reviews
    <2>3. op.of = e
      BY <2>2 DEF hide, unhide, respondAsProvider, Audited, Plain
    <2>4. CASE op = hide(e)
      <3>1. op.set = To("hidden")
        BY <2>4 DEF hide, Audited
      <3>2. Merge(r, op.set).status = "hidden"
        BY <2>1, <3>1 DEF Merge, Review, To
      <3> QED BY <1>4, <3>2, CatalogAssumption DEF Stands, Reviews
    <2>5. CASE op = respondAsProvider(e)
      <3>1. op.set = [answered |-> TRUE]
        BY <2>5, Zenon DEF respondAsProvider, Plain
      <3>2. Merge(r, op.set).status = r.status
        BY <2>1, <3>1 DEF Merge, Review
      <3> QED BY <1>4, <3>2, CatalogAssumption DEF Stands, Reviews
    <2> QED BY <1>4, <2>2, <2>3, <2>4, <2>5, CatalogAssumption DEF Stands, Reviews
  <1> QED BY <1>1, <1>2, <1>3, <1>4, OperationsAre

---------------------------------------------------------------------------
(* Calls. *)

\* What a handler has in memory at each stage.
LEMMA CallKinds ==
    ASSUME TypeOK, NEW w \in Workers
    PROVE  /\ calls[w] \in Calls
           /\ At(w, "adding") => calls[w].position \in Nat
           /\ At(w, "removing") => calls[w] \in [at : {"removing"}, photo : PhotoIds]
           /\ At(w, "sequencing") =>
                  calls[w] \in [at : {"sequencing"}, copies : [PhotoIds -> Photo \cup {NoPhoto}],
                                index : [PhotoIds -> Nat]]
           /\ At(w, "marking") => calls[w] \in [at : {"marking"}, photo : PhotoIds, copy : Photo]
           /\ InHand(w) => calls[w] \in [at : {"vetting", "counting photos", "saving"},
                                         op : Operations, copy : Row]
           /\ At(w, "recording") => calls[w].action \in Actions
           /\ At(w, "reviewing") => calls[w].review \in Reviews
           /\ At(w, "counting") => calls[w].of \in {"listing", "profile"}
           /\ At(w, "rating") => calls[w].op \in Ratings
  <1>1. calls[w] \in Calls
    BY DEF TypeOK, Calls
  <1>2. CASE calls[w] = Idle
    BY <1>1, <1>2 DEF Idle, At, InHand, Holds
  <1>3. CASE calls[w] \in GalleryCall
    BY <1>1, <1>3 DEF GalleryCall, At, InHand, Holds
  <1>4. CASE calls[w] \in CatalogCall
    BY <1>1, <1>4 DEF CatalogCall, At, InHand, Holds
  <1> QED BY <1>1, <1>2, <1>3, <1>4 DEF Calls

\* The number of photos, and of reviews that count.
LEMMA CountsAreNat ==
    photoCount \in Nat /\ Cardinality(Counted) \in 0..Cardinality(Up)
  <1>1. photoCount \in Nat
    BY FS_Subset, FS_CardinalityType, GalleryAssumption DEF photoCount, Gallery
  <1>2. Cardinality(Counted) \in 0..Cardinality(Up)
    BY FS_Subset, FS_CardinalityType, CatalogAssumption DEF Counted
  <1> QED BY <1>1, <1>2

\* A row that is found has the columns of its table, and a status if it is
\* in a table with one.
LEMMA FoundFits ==
    ASSUME RowsFit, NEW e \in Entities, Found(e) \/ e \notin Reviews
    PROVE  rows[e] \in Kind(e)
  BY DEF RowsFit, Found, NoRow

LEMMA KindIsRow ==
    ASSUME NEW e \in Entities
    PROVE  Kind(e) \subseteq Row /\ \A r \in Kind(e) : r.status \in Statuses
  <1>1. \A k \in {Listing, Profile, Document, Review} : k \subseteq Row
    BY DEF Row
  <1>2. /\ \A r \in Listing : r.status \in Statuses
        /\ \A r \in Profile : r.status \in Statuses
        /\ \A r \in Document : r.status \in Statuses
        /\ \A r \in Review : r.status \in Statuses
    BY DEF Listing, Profile, Document, Review, Statuses, ListingStatuses
  <1>3. CASE e \in Reviews
    <2>1. Kind(e) = Review
      BY <1>3, ReviewKind
    <2> QED BY <1>1, <1>2, <2>1
  <1>4. CASE e \in {"listing", "profile", "document"}
    <2>1. \/ Kind(e) = Listing \/ Kind(e) = Profile \/ Kind(e) = Document
      BY <1>4 DEF Kind
    <2> QED BY <1>1, <1>2, <2>1
  <1> QED BY <1>3, <1>4 DEF Entities

\* What makes a listing reviewed.
LEMMA ReviewedIs ==
    Reviewed <=> \E a \in {"listing.approve", "listing.pause.unlisted"} :
                     \/ a \in trail
                     \/ \E v \in Workers : At(v, "recording") /\ calls[v].action = a
                     \/ crashed /\ a \in saved
  BY DEF Reviewed, Accounted

\* A step that changes a call of its own, and no row, keeps the invariant as
\* long as what it has in hand fits.
LEMMA OneCall ==
    ASSUME IInv, NEW w \in Workers, NEW c \in Calls,
           calls' = [calls EXCEPT ![w] = c],
           UNCHANGED <<rows, trail, saved, crashed>>,
           ~At(w, "recording"), c.at # "recording",
           Holds(c) => FitFor(c) /\ (HoldsLive(c) => Reviewed)
    PROVE  (RowsFit /\ CopiesFit /\ RecordedIsSaved /\ LiveNeedsReview)'
  <1>1. /\ calls'[w] = c
        /\ \A v \in Workers \ {w} : calls'[v] = calls[v]
    BY DEF IInv, TypeOK
  <1>2. RowsFit'
    BY DEF IInv, RowsFit
  <1>3. CopiesFit'
    BY <1>1 DEF IInv, CopiesFit, InHand, FitFor
  <1>4. \A v \in Workers : At(v, "recording")' => At(v, "recording") /\ calls'[v] = calls[v]
    BY <1>1 DEF At
  <1>5. RecordedIsSaved'
    BY <1>4 DEF IInv, RecordedIsSaved
  <1>6. Reviewed => Reviewed'
    <2>1. \A v \in Workers : At(v, "recording") => v # w /\ At(v, "recording")' /\ calls'[v] = calls[v]
      BY <1>1 DEF At
    <2> QED BY <2>1 DEF Reviewed, Accounted
  <1>7. LiveNeedsReview'
    BY <1>1, <1>6 DEF IInv, LiveNeedsReview, InHand
  <1> QED BY <1>2, <1>3, <1>5, <1>7

\* Where that call fits its types, they are kept too.
LEMMA OneCallTyped ==
    ASSUME TypeOK, NEW w \in Workers, NEW c \in Calls,
           calls' = [calls EXCEPT ![w] = c], started' \in 0..MaxCalls,
           GalleryTypeOK', UNCHANGED <<rows, trail, saved, crashed, clobbered>>
    PROVE  TypeOK'
  BY DEF TypeOK, Calls

---------------------------------------------------------------------------
(* The steps on photos. *)

\* The steps that are about photos alone: they keep the types of their rows
\* and of their call, which holds no operation.
PhotoStep(w) ==
    \E c \in Calls : /\ calls' = [calls EXCEPT ![w] = c]
                     /\ c.at \notin {"vetting", "counting photos", "saving", "recording"}
                     /\ ~At(w, "recording")

LEMMA SequencingFits ==
    ASSUME TypeOK, NEW P \in SUBSET Gallery, NEW index \in [Gallery -> Nat]
    PROVE  /\ Sequencing(P, index) \in Calls
           /\ Sequencing(P, index).at \in {"idle", "sequencing"}
  <1>1. CASE P = {}
    BY <1>1 DEF Sequencing, Idle, Calls
  <1>2. CASE P # {}
    <2> DEFINE copies == [p \in PhotoIds |-> IF p \in P THEN photos[p] ELSE NoPhoto]
               at == [p \in PhotoIds |-> IF p \in P THEN index[p] ELSE 0]
    <2>1. copies \in [PhotoIds -> Photo \cup {NoPhoto}]
      BY DEF TypeOK, GalleryTypeOK
    <2>2. at \in [PhotoIds -> Nat]
      BY CountsAreNat DEF Gallery
    <2>3. Sequencing(P, index) = [at |-> "sequencing", copies |-> copies, index |-> at]
      BY <1>2 DEF Sequencing
    <2> HIDE DEF copies, at
    <2> QED BY <2>1, <2>2, <2>3 DEF Calls, GalleryCall
  <1> QED BY <1>1, <1>2

LEMMA BeginsOrProceeds ==
    ASSUME TypeOK, NEW w \in Workers, NEW c, Begin(w, c) \/ Proceed(w, c)
    PROVE  calls' = [calls EXCEPT ![w] = c] /\ started' \in 0..MaxCalls
  BY RequestsAssumption DEF TypeOK, Begin, Proceed, Goto

LEMMA AddPhotoFits ==
    ASSUME TypeOK, NEW w \in Workers, AddPhoto(w)
    PROVE  PhotoStep(w) /\ GalleryTypeOK'
  <1>1. [at |-> "adding", position |-> photoCount] \in Calls
    BY CountsAreNat DEF Calls, GalleryCall
  <1>2. ~At(w, "recording")
    BY DEF AddPhoto, Begin, At, Idle
  <1> QED BY <1>1, <1>2 DEF AddPhoto, Begin, Goto, PhotoStep, TypeOK, GalleryTypeOK, galleryVars

LEMMA InsertPhotoFits ==
    ASSUME TypeOK, NEW w \in Workers, InsertPhoto(w)
    PROVE  PhotoStep(w) /\ GalleryTypeOK'
  <1>1. PhotoStep(w)
    BY DEF InsertPhoto, Proceed, Goto, PhotoStep, At, Idle, Calls
  <1>2. \A p \in PhotoIds : [position |-> calls[w].position, flagged |-> FALSE] \in Photo
    BY CallKinds DEF InsertPhoto, Photo
  <1>3. photos' \in [PhotoIds -> Photo \cup {NoPhoto}] /\ uploaded' \subseteq PhotoIds
    BY <1>2 DEF InsertPhoto, TypeOK, GalleryTypeOK
  <1>4. shuffled' \in BOOLEAN
    BY DEF InsertPhoto, TypeOK, GalleryTypeOK
  <1> QED BY <1>1, <1>3, <1>4 DEF GalleryTypeOK

LEMMA RemovePhotoFits ==
    ASSUME TypeOK, NEW w \in Workers, RemovePhoto(w)
    PROVE  PhotoStep(w) /\ GalleryTypeOK'
  <1>1. PICK p \in Gallery : Begin(w, [at |-> "removing", photo |-> p])
    BY DEF RemovePhoto
  <1>2. [at |-> "removing", photo |-> p] \in Calls
    BY DEF Calls, GalleryCall, Gallery
  <1>3. ~At(w, "recording")
    BY <1>1 DEF Begin, At, Idle
  <1> QED BY <1>1, <1>2, <1>3 DEF RemovePhoto, Begin, Goto, PhotoStep, TypeOK, GalleryTypeOK, galleryVars

LEMMA DeletePhotoFits ==
    ASSUME TypeOK, NEW w \in Workers, DeletePhoto(w)
    PROVE  PhotoStep(w) /\ GalleryTypeOK'
  <1>1. calls[w] \in [at : {"removing"}, photo : PhotoIds]
    BY CallKinds DEF DeletePhoto
  <1>2. [calls[w] EXCEPT !.at = "removed"] \in [at : {"removed"}, photo : PhotoIds]
    BY <1>1
  <1>3. PhotoStep(w)
    BY <1>1, <1>2 DEF DeletePhoto, Proceed, Goto, PhotoStep, At, Calls, GalleryCall
  <1>4. photos' \in [PhotoIds -> Photo \cup {NoPhoto}] /\ uploaded' \subseteq PhotoIds
    BY <1>1 DEF DeletePhoto, TypeOK, GalleryTypeOK
  <1>5. shuffled' \in BOOLEAN
    BY DEF DeletePhoto, TypeOK, GalleryTypeOK
  <1> QED BY <1>3, <1>4, <1>5 DEF GalleryTypeOK

LEMMA CloseGapFits ==
    ASSUME TypeOK, NEW w \in Workers, CloseGap(w)
    PROVE  PhotoStep(w) /\ GalleryTypeOK'
  <1>1. PICK index \in ByPosition : Proceed(w, Sequencing(ToClose(index), index))
    BY DEF CloseGap
  <1>2. index \in [Gallery -> Nat] /\ ToClose(index) \in SUBSET Gallery
    BY CountsAreNat DEF ByPosition, ToClose
  <1>3. ~At(w, "recording")
    BY DEF CloseGap, At
  <1> QED BY <1>1, <1>2, <1>3, SequencingFits
          DEF CloseGap, Proceed, Goto, PhotoStep, TypeOK, GalleryTypeOK, galleryVars

LEMMA ReorderPhotosFits ==
    ASSUME TypeOK, NEW w \in Workers, ReorderPhotos(w)
    PROVE  PhotoStep(w) /\ GalleryTypeOK'
  <1>1. PICK index \in Orders : Begin(w, Sequencing(Gallery, index))
    BY DEF ReorderPhotos
  <1>2. index \in [Gallery -> Nat]
    BY CountsAreNat DEF Orders
  <1>3. ~At(w, "recording")
    BY <1>1 DEF Begin, At, Idle
  <1>4. PhotoStep(w)
    BY <1>1, <1>2, <1>3, SequencingFits DEF Begin, Goto, PhotoStep
  <1>5. shuffled' \in BOOLEAN
    BY DEF ReorderPhotos, TypeOK, GalleryTypeOK
  <1> QED BY <1>4, <1>5 DEF ReorderPhotos, TypeOK, GalleryTypeOK

LEMMA SavePositionFits ==
    ASSUME TypeOK, NEW w \in Workers, SavePosition(w)
    PROVE  PhotoStep(w) /\ GalleryTypeOK'
  <1> DEFINE call == calls[w]
  <1>1. call \in [at : {"sequencing"}, copies : [PhotoIds -> Photo \cup {NoPhoto}], index : [PhotoIds -> Nat]]
    BY CallKinds DEF SavePosition
  <1>2. PICK p \in PhotoIds :
            /\ call.copies[p] # NoPhoto
            /\ photos' = [photos EXCEPT ![p] = Merge(call.copies[p], [position |-> call.index[p]])]
            /\ \/ Proceed(w, Idle)
               \/ Proceed(w, [call EXCEPT !.copies = [call.copies EXCEPT ![p] = NoPhoto]])
    BY DEF SavePosition
  <1>3. Merge(call.copies[p], [position |-> call.index[p]]) \in Photo
    BY <1>1, <1>2 DEF Merge, Photo
  <1>4. photos' \in [PhotoIds -> Photo \cup {NoPhoto}]
    BY <1>2, <1>3 DEF TypeOK, GalleryTypeOK
  <1>5. [call EXCEPT !.copies = [call.copies EXCEPT ![p] = NoPhoto]]
            \in [at : {"sequencing"}, copies : [PhotoIds -> Photo \cup {NoPhoto}], index : [PhotoIds -> Nat]]
    BY <1>1
  <1>6. ~At(w, "recording")
    BY DEF SavePosition, At
  <1>7. PhotoStep(w)
    BY <1>2, <1>5, <1>6 DEF Proceed, Goto, PhotoStep, Calls, GalleryCall, Idle
  <1>8. shuffled' \in BOOLEAN
    BY DEF SavePosition, TypeOK, GalleryTypeOK
  <1> QED BY <1>4, <1>7, <1>8 DEF SavePosition, TypeOK, GalleryTypeOK

LEMMA FlagPhotoFits ==
    ASSUME TypeOK, NEW w \in Workers, FlagPhoto(w)
    PROVE  PhotoStep(w) /\ GalleryTypeOK'
  <1>1. PICK p \in Gallery : Begin(w, [at |-> "marking", photo |-> p, copy |-> photos[p]])
    BY DEF FlagPhoto
  <1>2. p \in PhotoIds /\ photos[p] \in Photo
    BY DEF Gallery, TypeOK, GalleryTypeOK
  <1>3. [at |-> "marking", photo |-> p, copy |-> photos[p]] \in Calls
    BY <1>2 DEF Calls, GalleryCall
  <1>4. ~At(w, "recording")
    BY <1>1 DEF Begin, At, Idle
  <1> QED BY <1>1, <1>3, <1>4 DEF FlagPhoto, Begin, Goto, PhotoStep, TypeOK, GalleryTypeOK, galleryVars

LEMMA SaveFlagFits ==
    ASSUME TypeOK, NEW w \in Workers, SaveFlag(w)
    PROVE  PhotoStep(w) /\ GalleryTypeOK'
  <1>1. calls[w] \in [at : {"marking"}, photo : PhotoIds, copy : Photo]
    BY CallKinds DEF SaveFlag
  <1>2. [calls[w] EXCEPT !.at = "marked"] \in [at : {"marked"}, photo : PhotoIds, copy : Photo]
    BY <1>1
  <1>3. PhotoStep(w)
    BY <1>1, <1>2 DEF SaveFlag, Proceed, Goto, PhotoStep, At, Calls, GalleryCall
  <1>4. Merge(calls[w].copy, [flagged |-> TRUE]) \in Photo
    BY <1>1 DEF Merge, Photo
  <1>5. photos' \in [PhotoIds -> Photo \cup {NoPhoto}]
    BY <1>1, <1>4 DEF SaveFlag, TypeOK, GalleryTypeOK
  <1>6. shuffled' \in BOOLEAN
    BY DEF SaveFlag, TypeOK, GalleryTypeOK
  <1> QED BY <1>3, <1>5, <1>6 DEF SaveFlag, TypeOK, GalleryTypeOK

LEMMA GalleryStepKeeps ==
    ASSUME IInv, NEW w \in Workers, GalleryStep(w),
           UNCHANGED <<rows, trail, saved, crashed, clobbered>>
    PROVE  IInv'
  <1>1. TypeOK
    BY DEF IInv
  <1>2. PhotoStep(w) /\ GalleryTypeOK'
    BY <1>1, AddPhotoFits, InsertPhotoFits, RemovePhotoFits, DeletePhotoFits, CloseGapFits,
       ReorderPhotosFits, SavePositionFits, FlagPhotoFits, SaveFlagFits DEF GalleryStep
  <1>3. started' \in 0..MaxCalls
    <2>1. CASE AddPhoto(w) \/ RemovePhoto(w) \/ ReorderPhotos(w) \/ FlagPhoto(w)
      <3>1. started < MaxCalls /\ started' = started + 1
        BY <2>1, Zenon DEF AddPhoto, RemovePhoto, ReorderPhotos, FlagPhoto, Begin
      <3> QED BY <1>1, <3>1, RequestsAssumption DEF TypeOK
    <2>2. CASE InsertPhoto(w) \/ DeletePhoto(w) \/ CloseGap(w) \/ SaveFlag(w)
      BY <1>1, <2>2 DEF TypeOK, InsertPhoto, DeletePhoto, CloseGap, SaveFlag, Proceed
    <2>3. CASE SavePosition(w)
      BY <1>1, <2>3 DEF TypeOK, SavePosition, Proceed
    <2> QED BY <2>1, <2>2, <2>3 DEF GalleryStep
  <1>4. PICK c \in Calls : /\ calls' = [calls EXCEPT ![w] = c]
                           /\ c.at \notin {"vetting", "counting photos", "saving", "recording"}
                           /\ ~At(w, "recording")
    BY <1>2 DEF PhotoStep
  <1>5. TypeOK'
    BY <1>1, <1>2, <1>3, <1>4, OneCallTyped
  <1> QED BY <1>4, <1>5, OneCall DEF IInv, Holds

---------------------------------------------------------------------------
(* The steps that read rows. *)

\* A step that changes a call only.
LEMMA OnlyCallsKeeps ==
    ASSUME IInv, OnlyCalls, NEW w \in Workers, NEW c \in Calls,
           Begin(w, c) \/ Proceed(w, c), ~At(w, "recording"), c.at # "recording",
           Holds(c) => FitFor(c) /\ (HoldsLive(c) => Reviewed)
    PROVE  IInv'
  <1>1. TypeOK
    BY DEF IInv
  <1>2. calls' = [calls EXCEPT ![w] = c] /\ started' \in 0..MaxCalls
    BY <1>1, BeginsOrProceeds
  <1>3. GalleryTypeOK'
    BY <1>1 DEF OnlyCalls, galleryVars, TypeOK, GalleryTypeOK
  <1>4. UNCHANGED <<rows, trail, saved, crashed, clobbered>>
    BY DEF OnlyCalls
  <1>5. TypeOK'
    BY <1>1, <1>2, <1>3, <1>4, OneCallTyped
  <1> QED BY <1>2, <1>4, <1>5, OneCall DEF IInv

\* The copy of a row just found fits an operation that its status allows.
LEMMA SavingFits ==
    ASSUME IInv, NEW op \in Operations, Found(op.of), rows[op.of].status \in op.when,
           NEW at \in {"vetting", "saving"}
    PROVE  LET c == [at |-> at, op |-> op, copy |-> rows[op.of]]
           IN  c \in Calls /\ FitFor(c) /\ (HoldsLive(c) => Reviewed)
  <1> DEFINE c == [at |-> at, op |-> op, copy |-> rows[op.of]]
  <1>1. op.of \in Entities
    BY SavesFit
  <1>2. rows[op.of] \in Kind(op.of)
    BY <1>1, FoundFits DEF IInv
  <1>3. rows[op.of] \in Row
    BY <1>1, <1>2, KindIsRow
  <1>4. c \in Calls
    BY <1>3 DEF Calls, CatalogCall
  <1>5. FitFor(c)
    BY <1>2 DEF FitFor
  <1>6. HoldsLive(c) => Reviewed
    BY DEF HoldsLive, IInv, LiveNeedsReview
  <1> QED BY <1>4, <1>5, <1>6

LEMMA ReadKeeps == ASSUME IInv, NEW w \in Workers, Read(w) PROVE IInv'
  <1>1. PICK op \in Routes :
            /\ Found(op.of)
            /\ rows[op.of].status \in op.when
            /\ Begin(w, IF op \in {submit, resume} THEN [Saving(op) EXCEPT !.at = "vetting"] ELSE Saving(op))
    BY DEF Read
  <1>2. PICK at \in {"vetting", "saving"} : Begin(w, [at |-> at, op |-> op, copy |-> rows[op.of]])
    BY <1>1 DEF Saving
  <1> DEFINE c == [at |-> at, op |-> op, copy |-> rows[op.of]]
  <1>3. c \in Calls /\ FitFor(c) /\ (HoldsLive(c) => Reviewed)
    BY <1>1, SavingFits DEF Operations
  <1>4. ~At(w, "recording")
    BY <1>2 DEF Begin, At, Idle
  <1>5. c.at # "recording"
    OBVIOUS
  <1>6. Begin(w, c) /\ OnlyCalls
    BY <1>2 DEF Read
  <1> HIDE DEF c
  <1> QED BY <1>3, <1>4, <1>5, <1>6, OnlyCallsKeeps

\* Idle is nothing in hand.
LEMMA IdleFits == Idle \in Calls /\ ~Holds(Idle) /\ Idle.at # "recording"
  BY DEF Calls, Idle, Holds

\* A handler that goes on with what it has in hand.
LEMMA GoesOn ==
    ASSUME IInv, NEW w \in Workers, InHand(w), NEW at \in {"counting photos", "saving"}
    PROVE  LET c == [calls[w] EXCEPT !.at = at]
           IN  c \in Calls /\ c.at = at /\ FitFor(c) /\ (HoldsLive(c) => Reviewed)
  <1> DEFINE c == [calls[w] EXCEPT !.at = at]
  <1>1. calls[w] \in [at : {"vetting", "counting photos", "saving"}, op : Operations, copy : Row]
    BY CallKinds DEF IInv
  <1>2. c \in [at : {"vetting", "counting photos", "saving"}, op : Operations, copy : Row]
    BY <1>1
  <1>3. c.at = at /\ c.op = calls[w].op /\ c.copy = calls[w].copy
    BY <1>1
  <1>4. c \in Calls
    BY <1>2 DEF Calls, CatalogCall
  <1>5. FitFor(c)
    BY <1>3 DEF IInv, CopiesFit, FitFor
  <1>6. HoldsLive(c) => Reviewed
    BY <1>3 DEF IInv, LiveNeedsReview, HoldsLive
  <1> QED BY <1>3, <1>4, <1>5, <1>6

LEMMA VetKeeps == ASSUME IInv, NEW w \in Workers, Vet(w) PROVE IInv'
  <1>1. InHand(w) /\ ~At(w, "recording") /\ OnlyCalls
    BY DEF Vet, InHand, Holds, At
  <1>2. Proceed(w, [calls[w] EXCEPT !.at = "counting photos"]) \/ Proceed(w, Idle)
    BY DEF Vet
  <1>3. CASE Proceed(w, Idle)
    BY <1>1, <1>3, IdleFits, OnlyCallsKeeps
  <1>4. CASE Proceed(w, [calls[w] EXCEPT !.at = "counting photos"])
    <2> DEFINE c == [calls[w] EXCEPT !.at = "counting photos"]
    <2>1. c \in Calls /\ c.at = "counting photos" /\ FitFor(c) /\ (HoldsLive(c) => Reviewed)
      BY <1>1, GoesOn
    <2>2. Proceed(w, c)
      BY <1>4
    <2> HIDE DEF c
    <2> QED BY <1>1, <2>1, <2>2, OnlyCallsKeeps
  <1> QED BY <1>2, <1>3, <1>4

LEMMA CountPhotosKeeps == ASSUME IInv, NEW w \in Workers, CountPhotos(w) PROVE IInv'
  <1>1. InHand(w) /\ ~At(w, "recording") /\ OnlyCalls
    BY DEF CountPhotos, InHand, Holds, At
  <1>2. Proceed(w, [calls[w] EXCEPT !.at = "saving"]) \/ Proceed(w, Idle)
    BY DEF CountPhotos
  <1>3. CASE Proceed(w, Idle)
    BY <1>1, <1>3, IdleFits, OnlyCallsKeeps
  <1>4. CASE Proceed(w, [calls[w] EXCEPT !.at = "saving"])
    <2> DEFINE c == [calls[w] EXCEPT !.at = "saving"]
    <2>1. c \in Calls /\ c.at = "saving" /\ FitFor(c) /\ (HoldsLive(c) => Reviewed)
      BY <1>1, GoesOn
    <2>2. Proceed(w, c)
      BY <1>4
    <2> HIDE DEF c
    <2> QED BY <1>1, <2>1, <2>2, OnlyCallsKeeps
  <1> QED BY <1>2, <1>3, <1>4

LEMMA SubmitReviewKeeps == ASSUME IInv, NEW w \in Workers, SubmitReview(w) PROVE IInv'
  <1>1. PICK r \in Reviews : Begin(w, [at |-> "reviewing", review |-> r])
    BY DEF SubmitReview
  <1> DEFINE c == [at |-> "reviewing", review |-> r]
  <1>2. c \in Calls /\ ~Holds(c) /\ c.at # "recording"
    BY DEF Calls, CatalogCall, Holds
  <1>3. ~At(w, "recording")
    BY <1>1 DEF Begin, At, Idle
  <1>4. Begin(w, c) /\ OnlyCalls
    BY <1>1 DEF SubmitReview
  <1> HIDE DEF c
  <1> QED BY <1>2, <1>3, <1>4, OnlyCallsKeeps

LEMMA CountReviewsKeeps == ASSUME IInv, NEW w \in Workers, CountReviews(w) PROVE IInv'
  <1> DEFINE c == [at |-> "rating", op |-> Rate(calls[w].of, Cardinality(Counted))]
  <1>1. calls[w].of \in {"listing", "profile"}
    BY CallKinds DEF IInv, CountReviews
  <1>2. Rate(calls[w].of, Cardinality(Counted)) \in Ratings
    BY <1>1, CountsAreNat DEF Ratings
  <1>3. c \in Calls /\ ~Holds(c) /\ c.at # "recording"
    BY <1>2 DEF Calls, CatalogCall, Holds
  <1>4. Proceed(w, c) /\ OnlyCalls /\ ~At(w, "recording")
    BY DEF CountReviews, At
  <1> HIDE DEF c
  <1> QED BY <1>3, <1>4, OnlyCallsKeeps

LEMMA ReadRatedKeeps == ASSUME IInv, NEW w \in Workers, ReadRated(w) PROVE IInv'
  <1> DEFINE op == calls[w].op
             c == [at |-> "saving", op |-> op, copy |-> rows[op.of]]
  <1>1. OnlyCalls /\ ~At(w, "recording")
    BY DEF ReadRated, At
  <1>2. op \in Ratings
    BY CallKinds DEF IInv, ReadRated
  <1>3. CASE ~Found(op.of)
    BY <1>1, <1>3, IdleFits, OnlyCallsKeeps DEF ReadRated
  <1>4. CASE Found(op.of)
    <2>1. op \in Operations /\ op.when = Statuses /\ op.of \in Entities
      BY <1>2, RatingsAre DEF Entities
    <2>2. rows[op.of].status \in op.when
      BY <1>4, <2>1, FoundFits, KindIsRow DEF IInv
    <2>3. c \in Calls /\ FitFor(c) /\ (HoldsLive(c) => Reviewed)
      BY <1>4, <2>1, <2>2, SavingFits
    <2>4. Proceed(w, c)
      BY <1>4 DEF ReadRated, Saving
    <2>5. c.at # "recording"
      OBVIOUS
    <2> HIDE DEF c
    <2> QED BY <1>1, <2>3, <2>4, <2>5, OnlyCallsKeeps
  <1> QED BY <1>3, <1>4

---------------------------------------------------------------------------
(* The steps that write rows or the log. *)

\* What Save writes, and what it knows of it.
LEMMA SaveWrites ==
    ASSUME IInv, NEW w \in Workers, Save(w)
    PROVE  LET op == calls[w].op
               base == IF Removes(op) THEN rows[op.of] ELSE calls[w].copy
           IN  /\ op \in Operations /\ op.of \in Entities
               /\ FitFor(calls[w])
               /\ base \in Kind(op.of)
               /\ rows' = [rows EXCEPT ![op.of] = Merge(base, op.set)]
               /\ rows'[op.of] = Merge(base, op.set)
               /\ rows'[op.of] \in Kind(op.of)
  <1> DEFINE op == calls[w].op
             base == IF Removes(op) THEN rows[op.of] ELSE calls[w].copy
  <1>1. InHand(w)
    BY DEF Save, At, InHand, Holds
  <1>2. op \in Operations
    BY <1>1, CallKinds DEF IInv
  <1>3. op.of \in Entities
    BY <1>2, SavesFit
  <1>4. FitFor(calls[w])
    BY <1>1 DEF IInv, CopiesFit
  <1>5. base \in Kind(op.of)
    <2>1. CASE Removes(op)
      <3>1. op.of \in {"listing", "profile"}
        BY <1>2, <2>1, RemovalsAre
      <3>2. op.of \notin Reviews
        BY <3>1, CatalogAssumption DEF Reviews
      <3> QED BY <1>3, <2>1, <3>2, FoundFits DEF IInv
    <2>2. CASE ~Removes(op)
      BY <1>4, <2>2 DEF FitFor
    <2> QED BY <2>1, <2>2
  <1>6. rows' = [rows EXCEPT ![op.of] = Merge(base, op.set)]
    BY DEF Save
  <1>7. rows'[op.of] = Merge(base, op.set)
    BY <1>3, <1>6 DEF IInv, TypeOK
  <1>8. Merge(base, op.set) \in Kind(op.of)
    BY <1>2, <1>5, SavesFit
  <1> QED BY <1>2, <1>3, <1>4, <1>5, <1>6, <1>7, <1>8

\* Approvals and pauses stay accounted for when one call changes that was not
\* recording.
LEMMA ReviewedStays ==
    ASSUME TypeOK, Reviewed, NEW w \in Workers, NEW c,
           calls' = [calls EXCEPT ![w] = c], ~At(w, "recording"),
           trail \subseteq trail', saved \subseteq saved', crashed => crashed'
    PROVE  Reviewed'
  <1>1. \A v \in Workers : At(v, "recording") =>
            At(v, "recording")' /\ calls'[v] = calls[v]
    BY DEF TypeOK, At
  <1> QED BY <1>1 DEF Reviewed, Accounted

LEMMA SaveKeeps == ASSUME IInv, NEW w \in Workers, Save(w) PROVE IInv'
  <1> DEFINE op == calls[w].op
             base == IF Removes(op) THEN rows[op.of] ELSE calls[w].copy
             c == After(op)
  <1>1. /\ op \in Operations /\ op.of \in Entities
        /\ FitFor(calls[w])
        /\ base \in Kind(op.of)
        /\ rows' = [rows EXCEPT ![op.of] = Merge(base, op.set)]
        /\ rows'[op.of] = Merge(base, op.set)
        /\ rows'[op.of] \in Kind(op.of)
    BY SaveWrites
  <1>2. /\ At(w, "saving") /\ InHand(w) /\ ~At(w, "recording")
        /\ calls' = [calls EXCEPT ![w] = c] /\ started' = started
        /\ saved' = saved \cup {op.action}
        /\ trail' = trail /\ crashed' = crashed
        /\ clobbered' \in BOOLEAN
        /\ photos' = photos /\ uploaded' = uploaded /\ shuffled' = shuffled
    BY DEF Save, At, InHand, Holds, Proceed, Goto, galleryVars, IInv, TypeOK
  <1>3. /\ op.action \in Actions
        /\ c \in Calls
        /\ ~Holds(c)
        /\ c.at = "recording" => c.action = op.action
        /\ op.action \in {"listing.approve", "listing.pause.unlisted"} => c.at = "recording"
    BY <1>1, AfterSave
  <1>4. /\ calls'[w] = c
        /\ \A v \in Workers \ {w} : calls'[v] = calls[v]
    BY <1>2 DEF IInv, TypeOK
  <1> HIDE DEF op, base, c
  <1>5. TypeOK'
    <2>1. rows'[op.of] \in Row
      BY <1>1, KindIsRow
    <2>2. rows' \in [Entities -> Row \cup {NoRow}]
      BY <1>1, <2>1 DEF IInv, TypeOK
    <2>3. calls' \in [Workers -> {Idle} \cup GalleryCall \cup CatalogCall]
      BY <1>2, <1>3 DEF IInv, TypeOK, Calls
    <2>4. GalleryTypeOK'
      BY <1>2 DEF IInv, TypeOK, GalleryTypeOK
    <2> QED BY <1>2, <1>3, <2>2, <2>3, <2>4 DEF IInv, TypeOK
  <1>6. RowsFit'
    BY <1>1 DEF IInv, TypeOK, RowsFit
  <1>7. CopiesFit'
    BY <1>3, <1>4 DEF IInv, CopiesFit, InHand, FitFor
  <1>8. RecordedIsSaved'
    <2> SUFFICES ASSUME NEW v \in Workers, At(v, "recording")' PROVE (calls[v].action \in saved)'
      BY DEF RecordedIsSaved
    <2>1. CASE v = w
      BY <1>2, <1>3, <1>4, <2>1 DEF At
    <2>2. CASE v # w
      BY <1>2, <1>4, <2>2 DEF IInv, RecordedIsSaved, At
    <2> QED BY <2>1, <2>2
  <1>9. Reviewed => Reviewed'
    BY <1>2, ReviewedStays DEF IInv
  <1>10. rows'["listing"].status \in BeenLive => Reviewed'
    <2>1. CASE op.of # "listing"
      <3>1. rows'["listing"] = rows["listing"]
        BY <1>1, <2>1 DEF Entities, IInv, TypeOK
      <3> QED BY <1>9, <3>1 DEF IInv, LiveNeedsReview
    <2>2. CASE op.of = "listing" /\ Removes(op)
      <3>1. base = rows["listing"] /\ base \in Listing
        BY <1>1, <2>2 DEF base, Kind
      <3>2. Merge(base, op.set).status = base.status
        BY <2>2, <3>1 DEF Removes, Merge, Listing
      <3> QED BY <1>1, <1>9, <2>2, <3>1, <3>2 DEF IInv, LiveNeedsReview
    <2>3. CASE op.of = "listing" /\ ~Removes(op)
      <3>1. base = calls[w].copy /\ base.status \in op.when
        BY <1>1, <2>3 DEF base, op, FitFor
      <3>2. Stands(op, base)
        BY <1>1, <3>1, OperationsStand
      <3>3. ASSUME rows'["listing"].status \in BeenLive
            PROVE  base.status \in BeenLive \/ op.action \in {"listing.approve", "listing.pause.unlisted"}
        BY <1>1, <2>3, <3>2, <3>3 DEF Stands
      <3>4. CASE base.status \in BeenLive
        BY <1>2, <1>9, <2>3, <3>1, <3>4 DEF IInv, LiveNeedsReview, HoldsLive, op
      <3>5. CASE op.action \in {"listing.approve", "listing.pause.unlisted"}
        BY <1>3, <1>4, <3>5 DEF Reviewed, Accounted, At
      <3> QED BY <3>3, <3>4, <3>5
    <2> QED BY <2>1, <2>2, <2>3
  <1>11. LiveNeedsReview'
    BY <1>3, <1>4, <1>9, <1>10 DEF IInv, LiveNeedsReview, InHand, HoldsLive
  <1> QED BY <1>5, <1>6, <1>7, <1>8, <1>11 DEF IInv

LEMMA RecordKeeps == ASSUME IInv, NEW w \in Workers, Record(w) PROVE IInv'
  <1>1. /\ calls' = [calls EXCEPT ![w] = Idle] /\ started' = started
        /\ rows' = rows /\ saved' = saved /\ crashed' = crashed /\ clobbered' = clobbered
        /\ photos' = photos /\ uploaded' = uploaded /\ shuffled' = shuffled
    BY DEF Record, Proceed, Goto, galleryVars
  <1>2. \/ At(w, "recording") /\ trail' = trail \cup {calls[w].action}
        \/ At(w, "marked") /\ trail' = trail \cup {"listing_photo.flag"}
    BY DEF Record
  <1>3. /\ calls'[w] = Idle
        /\ \A v \in Workers \ {w} : calls'[v] = calls[v]
    BY <1>1 DEF IInv, TypeOK
  <1>4. trail' \subseteq Actions
    BY <1>2, CallKinds DEF IInv, TypeOK, Actions
  <1>5. TypeOK'
    BY <1>1, <1>4 DEF IInv, TypeOK, GalleryTypeOK
  <1>6. RowsFit' /\ CopiesFit' /\ RecordedIsSaved'
    BY <1>1, <1>3, IdleFits DEF IInv, RowsFit, CopiesFit, RecordedIsSaved, InHand, FitFor, At
  <1>7. Reviewed => Reviewed'
    <2>1. \A v \in Workers : At(v, "recording") =>
              \/ At(v, "recording")' /\ calls'[v] = calls[v]
              \/ calls[v].action \in trail'
      BY <1>2, <1>3 DEF At
    <2>2. trail \subseteq trail'
      BY <1>2
    <2> QED BY <1>1, <2>1, <2>2 DEF Reviewed, Accounted
  <1>8. LiveNeedsReview'
    BY <1>1, <1>3, <1>7, IdleFits DEF IInv, LiveNeedsReview, InHand
  <1> QED BY <1>5, <1>6, <1>8 DEF IInv

LEMMA InsertReviewKeeps == ASSUME IInv, NEW w \in Workers, InsertReview(w) PROVE IInv'
  <1> DEFINE r == calls[w].review
             new == [status |-> "visible", answered |-> FALSE, deleted |-> FALSE]
  <1>1. r \in Reviews /\ r \in Entities
    BY CallKinds DEF IInv, InsertReview, Entities
  <1>2. PICK c \in Calls : /\ calls' = [calls EXCEPT ![w] = c]
                           /\ ~Holds(c) /\ c.at # "recording"
    <2>1. \E c \in {Idle, [at |-> "counting", of |-> "listing"]} : calls' = [calls EXCEPT ![w] = c]
      BY DEF InsertReview, Proceed, Goto
    <2>2. [at |-> "counting", of |-> "listing"] \in Calls
      BY DEF Calls, CatalogCall
    <2> QED BY <2>1, <2>2, IdleFits DEF Holds
  <1>3. /\ started' = started /\ ~At(w, "recording")
        /\ trail' = trail /\ saved' = saved /\ crashed' = crashed /\ clobbered' = clobbered
        /\ photos' = photos /\ uploaded' = uploaded /\ shuffled' = shuffled
    BY DEF InsertReview, Proceed, At, galleryVars
  <1>4. rows' = rows \/ rows' = [rows EXCEPT ![r] = new]
    BY DEF InsertReview
  <1>5. new \in Review /\ new \in Row
    BY DEF Review, Row
  <1> HIDE DEF r, new
  <1>6. TypeOK'
    BY <1>1, <1>2, <1>3, <1>4, <1>5 DEF IInv, TypeOK, GalleryTypeOK, Calls
  <1>7. RowsFit'
    BY <1>1, <1>4, <1>5, ReviewKind DEF IInv, TypeOK, RowsFit
  <1>8. /\ calls'[w] = c
        /\ \A v \in Workers \ {w} : calls'[v] = calls[v]
    BY <1>2 DEF IInv, TypeOK
  <1>9. CopiesFit' /\ RecordedIsSaved'
    BY <1>2, <1>3, <1>8 DEF IInv, CopiesFit, RecordedIsSaved, InHand, FitFor, At
  <1>10. rows'["listing"] = rows["listing"]
    BY <1>1, <1>4, CatalogAssumption DEF IInv, TypeOK, Entities, Reviews
  <1>11. Reviewed => Reviewed'
    BY <1>2, <1>3, ReviewedStays DEF IInv
  <1>12. LiveNeedsReview'
    BY <1>2, <1>8, <1>10, <1>11 DEF IInv, LiveNeedsReview, InHand
  <1> QED BY <1>6, <1>7, <1>9, <1>12 DEF IInv

LEMMA CrashKeeps == ASSUME IInv, Crash PROVE IInv'
  <1>1. /\ calls' = [w \in Workers |-> Idle] /\ started' = started
        /\ rows' = rows /\ trail' = trail /\ saved' = saved /\ crashed' = TRUE
        /\ clobbered' = clobbered /\ photos' = photos /\ uploaded' = uploaded
        /\ shuffled' \in BOOLEAN
    BY DEF Crash, Forget, IInv, TypeOK, GalleryTypeOK
  <1>2. TypeOK'
    BY <1>1 DEF IInv, TypeOK, GalleryTypeOK
  <1>3. RowsFit' /\ CopiesFit' /\ RecordedIsSaved'
    BY <1>1, IdleFits DEF IInv, RowsFit, CopiesFit, RecordedIsSaved, InHand, At
  <1>4. Reviewed => Reviewed'
    BY <1>1 DEF IInv, RecordedIsSaved, Reviewed, Accounted
  <1>5. LiveNeedsReview'
    BY <1>1, <1>4, IdleFits DEF IInv, LiveNeedsReview, InHand
  <1> QED BY <1>2, <1>3, <1>5 DEF IInv

---------------------------------------------------------------------------
(* The theorems. *)

LEMMA InitFits == Init => IInv
  <1> SUFFICES ASSUME Init PROVE IInv
    OBVIOUS
  <1>1. \A e \in Reviews : e \notin {"listing", "profile", "document"}
    BY CatalogAssumption DEF Reviews
  <1>2. /\ rows["listing"] \in Listing /\ rows["profile"] \in Profile /\ rows["document"] \in Document
        /\ \A e \in Reviews : rows[e] = NoRow
        /\ rows \in [Entities -> Row \cup {NoRow}]
    BY <1>1 DEF Init, Entities, Listing, ListingStatuses, Profile, Document, Row
  <1>3. RowsFit
    BY <1>1, <1>2 DEF RowsFit, Entities, Kind
  <1>4. saved \subseteq Actions /\ trail = saved
    <2>1. {approve, approveVerification} \subseteq Operations
      BY DEF Operations, Routes, ListingAdminRoutes, ProviderAdminRoutes
    <2>2. approve.action = "listing.approve"
          /\ approveVerification.action = "provider_profile.approve_verification"
      BY DEF approve, approveVerification, Audited
    <2> QED BY <2>1, <2>2 DEF Init, Actions
  <1>5. GalleryTypeOK
    <2>1. photos \in [PhotoIds -> Photo \cup {NoPhoto}]
      BY GalleryAssumption DEF Init, Photo
    <2> QED BY <2>1 DEF Init, GalleryTypeOK
  <1>6. TypeOK
    <2>1. calls \in [Workers -> {Idle} \cup GalleryCall \cup CatalogCall]
      BY DEF Init
    <2>2. started \in 0..MaxCalls
      BY RequestsAssumption DEF Init
    <2>3. crashed \in BOOLEAN /\ clobbered \in BOOLEAN
      BY DEF Init
    <2> QED BY <1>2, <1>4, <1>5, <2>1, <2>2, <2>3 DEF TypeOK
  <1>7. \A w \in Workers : calls[w] = Idle
    BY DEF Init
  <1>8. CopiesFit /\ RecordedIsSaved
    BY <1>7, IdleFits DEF CopiesFit, RecordedIsSaved, InHand, At
  <1>9. rows["listing"].status \in BeenLive => Reviewed
    BY DEF Init, Entities, BeenLive, Reviewed, Accounted
  <1>10. LiveNeedsReview
    BY <1>7, <1>9, IdleFits DEF LiveNeedsReview, InHand
  <1> QED BY <1>3, <1>6, <1>8, <1>10 DEF IInv

LEMMA StutterKeeps == ASSUME IInv, UNCHANGED vars PROVE IInv'
  BY DEF IInv, vars, galleryVars, TypeOK, GalleryTypeOK, RowsFit, CopiesFit, InHand, RecordedIsSaved, At,
     LiveNeedsReview, Reviewed, Accounted

\* The invariant holds throughout: rows and copies have the columns and the
\* statuses that the handlers rely on, what is recorded was carried out, and a
\* listing or copy of one that has been live was approved or paused by an
\* admin (ListingsService and the services it calls).
THEOREM Inductive == Spec => []IInv
  <1>1. Init => IInv
    BY InitFits
  <1>2. IInv /\ [Next]_vars => IInv'
    <2> SUFFICES ASSUME IInv, [Next]_vars PROVE IInv'
      OBVIOUS
    <2>1. CASE UNCHANGED vars
      BY <2>1, StutterKeeps
    <2>2. CASE Crash
      BY <2>2, CrashKeeps
    <2>3. ASSUME NEW w \in Workers,
                 \/ Read(w) \/ Vet(w) \/ CountPhotos(w) \/ Save(w) \/ Record(w)
                 \/ SubmitReview(w) \/ InsertReview(w) \/ CountReviews(w) \/ ReadRated(w)
                 \/ GalleryStep(w) /\ UNCHANGED <<rows, trail, saved, crashed, clobbered>>
          PROVE  IInv'
      BY <2>3, ReadKeeps, VetKeeps, CountPhotosKeeps, SaveKeeps, RecordKeeps, SubmitReviewKeeps,
         InsertReviewKeeps, CountReviewsKeeps, ReadRatedKeeps, GalleryStepKeeps
    <2> QED BY <2>1, <2>2, <2>3 DEF Next
  <1> QED BY <1>1, <1>2, PTL DEF Spec

\* Every reachable state is well typed, for any number of requests, photos
\* and reviews.
THEOREM Typed == Spec => []TypeOK
  <1>1. IInv => TypeOK
    BY DEF IInv
  <1> QED BY <1>1, Inductive, PTL

\* However many stale copies are saved, and whenever the process dies, the
\* audit log tells how a live listing came to be so: by approve, or by
\* pauseAsAdmin over a status other than live and paused; it says so, is about
\* to, or lost it in the crash.
THEOREM LiveExplained == Spec => []LiveIsExplained
  <1>1. IInv => LiveIsExplained
    BY DEF IInv, LiveNeedsReview, BeenLive, Reviewed, LiveIsExplained
  <1> QED BY <1>1, Inductive, PTL

\* What one step does to the decisions taken, unless it is an outdated save.
StepStands ==
    ~clobbered' =>
        /\ rows["listing"].status \in {"rejected", "changes_requested"} => rows'["listing"].status # "live"
        /\ rows["listing"].flagged => rows'["listing"].flagged
        /\ \A e \in {"listing", "profile"} : rows[e].deleted => rows'[e].deleted
        /\ rows["document"].status # "pending" => rows'["document"] = rows["document"]
        /\ \A r \in Reviews : (Found(r) /\ rows[r].status = "hidden" /\ rows'[r].status = "visible") =>
               \E w \in Workers : At(w, "saving") /\ calls[w].op = unhide(r)

LEMMA SameRowsStand == ASSUME IInv, rows' = rows PROVE StepStands
  BY DEF StepStands

LEMMA InsertReviewStands ==
    ASSUME IInv, NEW w \in Workers, InsertReview(w)
    PROVE  StepStands
  <1>1. calls[w].review \in Reviews
    BY CallKinds DEF IInv, InsertReview
  <1>2. \A e \in {"listing", "profile", "document"} : e \in Entities /\ rows'[e] = rows[e]
    BY <1>1, CatalogAssumption DEF InsertReview, IInv, TypeOK, Entities, Reviews
  <1>3. \A r \in Reviews : Found(r) => rows'[r] = rows[r]
    BY <1>1 DEF InsertReview, IInv, TypeOK, Entities
  <1> QED BY <1>2, <1>3 DEF StepStands

LEMMA SaveStands ==
    ASSUME IInv, NEW w \in Workers, Save(w)
    PROVE  StepStands
  <1> DEFINE op == calls[w].op
             base == IF Removes(op) THEN rows[op.of] ELSE calls[w].copy
  <1>1. /\ op \in Operations /\ op.of \in Entities
        /\ FitFor(calls[w])
        /\ base \in Kind(op.of)
        /\ rows' = [rows EXCEPT ![op.of] = Merge(base, op.set)]
        /\ rows'[op.of] = Merge(base, op.set)
    BY SaveWrites
  <1>2. At(w, "saving")
    BY DEF Save
  <1>3. \A e \in Entities : e # op.of => rows'[e] = rows[e]
    BY <1>1 DEF IInv, TypeOK
  <1>4. {"listing", "profile", "document"} \subseteq Entities /\ Reviews \subseteq Entities
    BY DEF Entities
  <1> SUFFICES ASSUME ~clobbered' PROVE StepStands
    BY DEF StepStands
  <1>5. base = rows[op.of]
    BY DEF Save, Outdated
  <1>6. CASE ~Removes(op)
    <2>1. base = calls[w].copy /\ base.status \in op.when
      BY <1>1, <1>6 DEF FitFor
    <2>2. Stands(op, base)
      BY <1>1, <2>1, OperationsStand
    <2> HIDE DEF base, op
    <2>3. CASE op.of = "listing"
      BY <1>1, <1>3, <1>4, <1>5, <2>2, <2>3, CatalogAssumption DEF Stands, StepStands, Reviews
    <2>4. CASE op.of = "profile"
      BY <1>1, <1>3, <1>4, <1>5, <2>2, <2>4, CatalogAssumption DEF Stands, StepStands, Reviews
    <2>5. CASE op.of = "document"
      BY <1>1, <1>3, <1>4, <1>5, <2>2, <2>5, CatalogAssumption DEF Stands, StepStands, Reviews
    <2>6. CASE op.of \in Reviews
      <3>1. \A e \in {"listing", "profile", "document"} : rows'[e] = rows[e]
        BY <1>3, <1>4, <2>6, CatalogAssumption DEF Reviews
      <3>2. \A r \in Reviews : rows[r].status = "hidden" /\ rows'[r].status = "visible" =>
                op.of = r /\ op = unhide(r)
        BY <1>1, <1>3, <1>4, <1>5, <2>2, <2>6 DEF Stands
      <3> QED BY <1>2, <3>1, <3>2 DEF StepStands, op
    <2> QED BY <1>1, <2>3, <2>4, <2>5, <2>6 DEF Entities
  <1>7. CASE Removes(op)
    <2>1. op.of \in {"listing", "profile"}
      BY <1>1, <1>7, RemovalsAre
    <2>2. Merge(base, op.set).deleted
      <3>1. \A r \in Listing \cup Profile : Merge(r, [deleted |-> TRUE]).deleted
        BY DEF Merge, Listing, Profile
      <3>2. base \in Listing \cup Profile
        BY <1>1, <2>1 DEF Kind
      <3> QED BY <1>7, <3>1, <3>2 DEF Removes
    <2>3. op.of = "listing" => Merge(base, op.set).status = base.status
                               /\ Merge(base, op.set).flagged = base.flagged
      BY <1>1, <1>7 DEF Removes, Merge, Kind, Listing
    <2> HIDE DEF base, op
    <2> QED BY <1>1, <1>3, <1>4, <1>5, <2>1, <2>2, <2>3, CatalogAssumption DEF StepStands, Reviews
  <1> QED BY <1>6, <1>7

\* No step undoes what another handler decided - a verdict on the listing or
\* a document, a flag, a removal, the hiding of a review - except by saving a
\* copy or a count that is no longer so (the saves of ListingsService,
\* ProviderProfileService, ProviderVerificationService and ReviewsService).
THEOREM DecisionsKept == Spec => DecisionsStand
  <1>1. IInv /\ [Next]_vars => [StepStands]_vars
    <2> SUFFICES ASSUME IInv, Next PROVE StepStands
      OBVIOUS
    <2>1. CASE Crash
      BY <2>1, SameRowsStand DEF Crash
    <2>2. ASSUME NEW w \in Workers, Save(w) PROVE StepStands
      BY <2>2, SaveStands
    <2>3. ASSUME NEW w \in Workers, InsertReview(w) PROVE StepStands
      BY <2>3, InsertReviewStands
    <2>4. ASSUME NEW w \in Workers,
                 \/ Read(w) \/ Vet(w) \/ CountPhotos(w) \/ Record(w)
                 \/ SubmitReview(w) \/ CountReviews(w) \/ ReadRated(w)
                 \/ GalleryStep(w) /\ UNCHANGED <<rows, trail, saved, crashed, clobbered>>
          PROVE  rows' = rows
      BY <2>4 DEF Read, Vet, CountPhotos, Record, SubmitReview, CountReviews, ReadRated, OnlyCalls
    <2> QED BY <2>1, <2>2, <2>3, <2>4, SameRowsStand DEF Next
  <1> QED BY <1>1, Inductive, PTL DEF Spec, DecisionsStand, StepStands

---------------------------------------------------------------------------
(* The ratings. *)

\* A submit that has still to save the aggregate of e: that of the listing is
\* saved first.
Due(c, e) ==
    \/ c.at = "counting" /\ c.of \in {"listing", e}
    \/ c.at = "rating" /\ c.op.of \in {"listing", e}
    \/ c.at = "saving" /\ c.op.action = "rate" /\ c.op.of \in {"listing", e}

Rated == {"listing", "profile"}
InForce == ~clobbered /\ ~crashed /\ Found("listing") /\ Found("profile")
Current(e) == rows[e].reviewCount = Cardinality(Counted)

\* As long as nothing outdated is saved and the process lives, an aggregate
\* is that of all reviews, or about to be.
RatingsDue == InForce => \A e \in Rated : Current(e) \/ \E w \in Workers : Due(calls[w], e)

\* The two rated rows are no reviews.
LEMMA RatedAreRows ==
    Rated \subseteq Entities /\ Rated \cap Reviews = {} /\ Up \subseteq Reviews /\ Reviews \subseteq Entities
  BY CatalogAssumption DEF Rated, Entities, Reviews

\* What no review is about stays due as long as the call that owes it does.
LEMMA DueStays ==
    ASSUME TypeOK, RatingsDue, InForce' => InForce,
           \A e \in Rated : Current(e) => Current(e)',
           NEW w \in Workers, NEW c, calls' = [calls EXCEPT ![w] = c],
           InForce' => \A e \in Rated : Due(calls[w], e) => Due(c, e)
    PROVE  RatingsDue'
  <1> SUFFICES ASSUME InForce', NEW e \in Rated
               PROVE  Current(e)' \/ \E v \in Workers : Due(calls'[v], e)
    BY DEF RatingsDue
  <1>1. calls'[w] = c /\ \A v \in Workers \ {w} : calls'[v] = calls[v]
    BY DEF TypeOK
  <1>2. CASE Current(e)
    BY <1>2
  <1>3. ASSUME NEW v \in Workers, Due(calls[v], e) PROVE \E u \in Workers : Due(calls'[u], e)
    BY <1>1, <1>3
  <1> QED BY <1>2, <1>3 DEF RatingsDue

\* Where no row changes, what is in force and what is current stay so.
LEMMA SameRowsCount ==
    ASSUME UNCHANGED <<rows, crashed, clobbered>>
    PROVE  (InForce' <=> InForce) /\ \A e \in Rated : Current(e)' <=> Current(e)
  BY DEF InForce, Current, Found, Counted

\* Nor is anything due that was not.
LEMMA NothingOwed ==
    ASSUME TypeOK, RatingsDue, UNCHANGED <<rows, crashed, clobbered>>,
           NEW w \in Workers, NEW c, calls' = [calls EXCEPT ![w] = c],
           \A e \in Rated : ~Due(calls[w], e)
    PROVE  RatingsDue'
  BY SameRowsCount, DueStays

\* A handler at rest owes nothing.
LEMMA IdleOwesNothing == \A e : ~Due(Idle, e)
  BY DEF Due, Idle

\* The steps of handlers that owe no rating.
LEMMA OthersOweNothing ==
    ASSUME TypeOK, RatingsDue, NEW w \in Workers,
           \/ Read(w) \/ Vet(w) \/ CountPhotos(w) \/ Record(w) \/ SubmitReview(w)
           \/ GalleryStep(w) /\ UNCHANGED <<rows, trail, saved, crashed, clobbered>>
    PROVE  RatingsDue'
  <1>1. UNCHANGED <<rows, crashed, clobbered>>
    BY DEF Read, Vet, CountPhotos, Record, SubmitReview, OnlyCalls
  <1>2. \E c : calls' = [calls EXCEPT ![w] = c]
    <2>1. CASE Read(w) \/ SubmitReview(w)
      BY <2>1 DEF Read, SubmitReview, Begin, Goto
    <2>2. CASE Vet(w) \/ CountPhotos(w) \/ Record(w)
      BY <2>2 DEF Vet, CountPhotos, Record, Proceed, Goto
    <2>3. CASE GalleryStep(w)
      BY <2>3, AddPhotoFits, InsertPhotoFits, RemovePhotoFits, DeletePhotoFits, CloseGapFits,
         ReorderPhotosFits, SavePositionFits, FlagPhotoFits, SaveFlagFits DEF GalleryStep, PhotoStep
    <2> QED BY <2>1, <2>2, <2>3
  <1>3. \/ calls[w] = Idle
        \/ calls[w].at \in {"vetting", "counting photos", "recording", "marked", "adding", "removing", "removed",
                            "sequencing", "marking"}
    BY DEF Read, Vet, CountPhotos, Record, SubmitReview, GalleryStep, AddPhoto, InsertPhoto, RemovePhoto,
           DeletePhoto, CloseGap, ReorderPhotos, SavePosition, FlagPhoto, SaveFlag, Begin, At
  <1>4. \A e \in Rated : ~Due(calls[w], e)
    BY <1>3, IdleOwesNothing DEF Due
  <1> QED BY <1>1, <1>2, <1>4, NothingOwed

\* The reviews are counted for the row that they are counted for.
LEMMA CountReviewsOwes ==
    ASSUME TypeOK, RatingsDue, NEW w \in Workers, CountReviews(w)
    PROVE  RatingsDue'
  <1> DEFINE n == Cardinality(Counted)
             c == [at |-> "rating", op |-> Rate(calls[w].of, n)]
  <1>1. UNCHANGED <<rows, crashed, clobbered>> /\ calls' = [calls EXCEPT ![w] = c]
    BY DEF CountReviews, OnlyCalls, Proceed, Goto
  <1>2. c.op.of = calls[w].of
    BY DEF Rate, Audited
  <1>3. \A e \in Rated : Due(calls[w], e) => Due(c, e)
    BY <1>2 DEF CountReviews, At, Due
  <1> HIDE DEF c
  <1> QED BY <1>1, <1>3, SameRowsCount, DueStays

\* The row is read; it is there as long as that matters.
LEMMA ReadRatedOwes ==
    ASSUME TypeOK, RatingsDue, NEW w \in Workers, ReadRated(w)
    PROVE  RatingsDue'
  <1> DEFINE op == calls[w].op
             c == IF Found(op.of) THEN Saving(op) ELSE Idle
  <1>1. UNCHANGED <<rows, crashed, clobbered>> /\ calls' = [calls EXCEPT ![w] = c]
    BY DEF ReadRated, OnlyCalls, Proceed, Goto
  <1>2. op \in Ratings
    BY CallKinds DEF ReadRated
  <1>3. op.of \in Rated /\ op.action = "rate"
    BY <1>2 DEF Ratings, Rate, Audited, Rated
  <1>4. InForce => c = Saving(op)
    BY <1>3 DEF InForce, Rated
  <1>5. \A e \in Rated : Due(calls[w], e) => Due(Saving(op), e)
    BY <1>3 DEF ReadRated, At, Due, Saving
  <1>6. InForce => \A e \in Rated : Due(calls[w], e) => Due(c, e)
    BY <1>4, <1>5
  <1> HIDE DEF c
  <1> QED BY <1>1, <1>6, SameRowsCount, DueStays

\* A new review makes both aggregates due.
LEMMA InsertReviewOwes ==
    ASSUME TypeOK, RatingsDue, NEW w \in Workers, InsertReview(w)
    PROVE  RatingsDue'
  <1> DEFINE r == calls[w].review
  <1>1. r \in Reviews /\ \A e \in Rated : ~Due(calls[w], e)
    BY CallKinds DEF InsertReview, Due, At
  <1>2. UNCHANGED <<crashed, clobbered>> /\ At(w, "reviewing")
    BY DEF InsertReview
  <1>3. CASE Found(r)
    BY <1>1, <1>2, <1>3, NothingOwed DEF InsertReview, Proceed, Goto
  <1>4. CASE ~Found(r)
    <2>1. /\ rows' = [rows EXCEPT ![r] = [status |-> "visible", answered |-> FALSE, deleted |-> FALSE]]
          /\ calls' = [calls EXCEPT ![w] = IF r \in Up THEN [at |-> "counting", of |-> "listing"] ELSE Idle]
      BY <1>4 DEF InsertReview, Proceed, Goto
    <2>2. \A e \in Entities : e # r => rows'[e] = rows[e]
      BY <2>1 DEF TypeOK
    <2>3. \A e \in Rated : rows'[e] = rows[e]
      BY <1>1, <2>2, RatedAreRows
    <2>4. InForce' => InForce
      BY <1>2, <2>3 DEF InForce, Found, Rated
    <2>5. CASE r \in Up
      <3>1. calls'[w] = [at |-> "counting", of |-> "listing"]
        BY <2>1, <2>5 DEF TypeOK
      <3>2. \A e : Due(calls'[w], e)
        BY <3>1 DEF Due
      <3> QED BY <3>2 DEF RatingsDue
    <2>6. CASE r \notin Up
      <3>1. \A u \in Up : rows'[u] = rows[u]
        BY <2>2, <2>6, RatedAreRows
      <3>2. Counted' = Counted
        BY <3>1 DEF Counted, Found
      <3>3. \A e \in Rated : Current(e) => Current(e)'
        BY <2>3, <3>2 DEF Current
      <3> QED BY <1>1, <2>1, <2>4, <3>3, DueStays
    <2> QED BY <2>5, <2>6
  <1> QED BY <1>3, <1>4

\* Only a rating is recorded as one, and nothing else sets the count.
LEMMA OnlyRatingsCount ==
    ASSUME NEW op \in Operations
    PROVE  /\ op.action = "rate" => op \in Ratings
           /\ op \notin Ratings /\ op.of \in Rated =>
                  \A row \in Kind(op.of) : Merge(row, op.set).reviewCount = row.reviewCount
           /\ op.of \in Reviews =>
                  \A row \in Kind(op.of) : Merge(row, op.set).deleted = row.deleted
  <1>1. CASE op \in {update, submit, resume, pause}
    <2>1. op.of = "listing" /\ op.action = "none"
          /\ op.set \in {Unchanged, To("pending_review"), To("live"), To("paused")}
      BY <1>1 DEF update, submit, resume, pause, Plain
    <2>2. \A row \in Listing : Merge(row, op.set).reviewCount = row.reviewCount
      BY <2>1 DEF Merge, Listing, Unchanged, To
    <2> QED BY <2>1, <2>2, RatedAreRows DEF Kind, Rated
  <1>2. CASE op \in {pauseAsAdmin, pauseUnlisted, reinstateAsAdmin, approve, reject, requestChanges}
    <2>1. op.of = "listing" /\ op.action # "rate"
          /\ op.set \in {To("live"), To("paused"), To("rejected"), To("changes_requested")}
      BY <1>2 DEF pauseAsAdmin, pauseUnlisted, reinstateAsAdmin, approve, reject, requestChanges, Audited
    <2>2. \A row \in Listing : Merge(row, op.set).reviewCount = row.reviewCount
      BY <2>1 DEF Merge, Listing, To
    <2> QED BY <2>1, <2>2, RatedAreRows DEF Kind, Rated
  <1>3. CASE op \in {removeAsAdmin, flagListing}
    <2>1. op.of = "listing" /\ op.action # "rate"
      BY <1>3 DEF removeAsAdmin, flagListing, Audited
    <2>2. removeAsAdmin.set = [deleted |-> TRUE] /\ flagListing.set = [flagged |-> TRUE]
      BY Zenon DEF removeAsAdmin, flagListing, Audited
    <2>3. \A set \in {[deleted |-> TRUE], [flagged |-> TRUE]}, row \in Listing :
              Merge(row, set).reviewCount = row.reviewCount
      BY DEF Merge, Listing
    <2> QED BY <1>3, <2>1, <2>2, <2>3, RatedAreRows DEF Kind, Rated
  <1>4. CASE op \in {approveVerification, rejectVerification}
    <2>1. op.of = "profile" /\ op.action # "rate" /\ op.set \in {To("verified"), To("rejected")}
      BY <1>4 DEF approveVerification, rejectVerification, Audited
    <2>2. \A row \in Profile : Merge(row, op.set).reviewCount = row.reviewCount
      BY <2>1 DEF Merge, Profile, To
    <2> QED BY <2>1, <2>2, RatedAreRows DEF Kind, Rated
  <1>5. CASE op = removeProfile
    <2>1. op.of = "profile" /\ op.action # "rate"
      BY <1>5 DEF removeProfile, Audited
    <2>2. op.set = [deleted |-> TRUE]
      BY <1>5, Zenon DEF removeProfile, Audited
    <2>3. \A row \in Profile : Merge(row, [deleted |-> TRUE]).reviewCount = row.reviewCount
      BY DEF Merge, Profile
    <2> QED BY <2>1, <2>2, <2>3, RatedAreRows DEF Kind, Rated
  <1>6. CASE op \in {approveDocument, rejectDocument}
    <2>1. op.of = "document" /\ op.action # "rate"
      BY <1>6 DEF approveDocument, rejectDocument, Audited
    <2> QED BY <2>1, CatalogAssumption DEF Rated, Reviews
  <1>7. ASSUME NEW e \in Reviews, op \in {hide(e), unhide(e), respondAsProvider(e)}
        PROVE  /\ op.action # "rate" /\ op.of = e
               /\ \A row \in Kind(op.of) : Merge(row, op.set).deleted = row.deleted
    <2>1. op.of = e /\ op.action # "rate"
      BY <1>7 DEF hide, unhide, respondAsProvider, Audited, Plain
    <2>2. hide(e).set = To("hidden") /\ unhide(e).set = To("visible")
      BY DEF hide, unhide, Audited
    <2>3. respondAsProvider(e).set = [answered |-> TRUE]
      BY Zenon DEF respondAsProvider, Plain
    <2>4. \A set \in {To("hidden"), To("visible"), [answered |-> TRUE]}, row \in Review :
              Merge(row, set).deleted = row.deleted
      BY DEF Merge, Review, To
    <2> QED BY <1>7, <2>1, <2>2, <2>3, <2>4, ReviewKind
  <1>8. ASSUME NEW e \in Rated, NEW n \in 0..Cardinality(Up), op = Rate(e, n)
        PROVE  op \in Ratings /\ op.of = e
    BY <1>8 DEF Ratings, Rate, Audited, Rated
  <1>9. \/ op \in {update, submit, resume, pause}
        \/ op \in {pauseAsAdmin, pauseUnlisted, reinstateAsAdmin, approve, reject, requestChanges}
        \/ op \in {removeAsAdmin, flagListing}
        \/ op \in {approveVerification, rejectVerification}
        \/ op = removeProfile
        \/ op \in {approveDocument, rejectDocument}
        \/ \E e \in Reviews : op \in {hide(e), unhide(e), respondAsProvider(e)}
        \/ \E e \in Rated, n \in 0..Cardinality(Up) : op = Rate(e, n)
    BY OperationsAre DEF Rated
  <1> QED BY <1>1, <1>2, <1>3, <1>4, <1>5, <1>6, <1>7, <1>8, <1>9, RatedAreRows

\* A save that is not outdated brings the aggregate up to date, or leaves it.
LEMMA SaveOwes ==
    ASSUME IInv, RatingsDue, NEW w \in Workers, Save(w)
    PROVE  RatingsDue'
  <1> DEFINE op == calls[w].op
             base == IF Removes(op) THEN rows[op.of] ELSE calls[w].copy
  <1>1. /\ op \in Operations /\ op.of \in Entities
        /\ FitFor(calls[w])
        /\ base \in Kind(op.of)
        /\ rows' = [rows EXCEPT ![op.of] = Merge(base, op.set)]
        /\ rows'[op.of] = Merge(base, op.set)
    BY SaveWrites
  <1>2. /\ \A e \in Entities : e # op.of => rows'[e] = rows[e]
        /\ At(w, "saving") /\ crashed' = crashed /\ (clobbered => clobbered')
        /\ calls' = [calls EXCEPT ![w] = After(op)]
    BY <1>1 DEF IInv, TypeOK, Save, Proceed, Goto
  <1> SUFFICES ASSUME InForce' PROVE RatingsDue'
    BY DEF RatingsDue
  <1>3. base = rows[op.of] /\ (~Removes(op) => ~Outdated(w))
    BY DEF InForce, Save, Outdated
  <1>4. InForce
    <2>1. StepStands
      BY SaveStands
    <2> QED BY <1>2, <2>1 DEF StepStands, InForce, Found
  <1>5. Counted' = Counted
    <2>1. \A u \in Up : rows'[u].deleted = rows[u].deleted
      <3> SUFFICES ASSUME NEW u \in Up PROVE rows'[u].deleted = rows[u].deleted
        OBVIOUS
      <3>1. CASE u # op.of
        BY <1>2, <3>1, RatedAreRows
      <3>2. CASE u = op.of
        <4>1. Merge(base, op.set).deleted = base.deleted
          BY <1>1, <3>2, OnlyRatingsCount, RatedAreRows
        <4> QED BY <1>1, <1>3, <3>2, <4>1
      <3> QED BY <3>1, <3>2
    <2> QED BY <2>1 DEF Counted, Found
  <1> HIDE DEF op, base
  <1>6. CASE op \in Ratings
    <2>1. op.of \in Rated /\ op.action = "rate" /\ op.set = [reviewCount |-> op.set.reviewCount]
      BY <1>6 DEF Ratings, Rate, Audited, Rated
    <2>2. ~Removes(op)
      <3>1. "reviewCount" \in DOMAIN op.set
        BY <2>1
      <3>2. "reviewCount" \notin DOMAIN [deleted |-> TRUE]
        OBVIOUS
      <3> QED BY <3>1, <3>2 DEF Removes
    <2>3. op.set.reviewCount = Cardinality(Counted)
      BY <1>3, <2>1, <2>2 DEF Outdated, op
    <2>4. Merge(base, op.set).reviewCount = op.set.reviewCount
      <3>1. base \in Listing \cup Profile
        BY <1>1, <2>1 DEF Kind, Rated
      <3> QED BY <2>1, <3>1 DEF Merge, Listing, Profile
    <2>5. PICK e \in Rated : e = op.of
      BY <2>1
    <2>6. Current(e)'
      BY <1>1, <1>5, <2>3, <2>4, <2>5 DEF Current
    <2>7. \A f \in Rated : f # e /\ Current(f) => Current(f)'
      BY <1>2, <1>5, <2>5, RatedAreRows DEF Current
    <2>8. CASE e = "listing"
      <3>1. After(op) = [at |-> "counting", of |-> "profile"]
        BY <2>1, <2>5, <2>8 DEF After
      <3>2. calls'[w] = [at |-> "counting", of |-> "profile"]
        BY <1>2, <3>1 DEF IInv, TypeOK
      <3>3. Due(calls'[w], "profile")
        BY <3>2 DEF Due
      <3> QED BY <2>6, <2>8, <3>3 DEF RatingsDue, Rated
    <2>9. CASE e = "profile"
      <3>1. ~Due(calls[w], "listing")
        BY <1>2, <2>5, <2>9 DEF Due, At, op
      <3>2. \A v \in Workers \ {w} : calls'[v] = calls[v]
        BY <1>2 DEF IInv, TypeOK
      <3>3. Current("listing")' \/ \E v \in Workers : Due(calls'[v], "listing")
        BY <1>4, <2>7, <2>9, <3>1, <3>2 DEF RatingsDue, Rated
      <3> QED BY <2>6, <2>9, <3>3 DEF RatingsDue, Rated
    <2> QED BY <2>8, <2>9 DEF Rated
  <1>7. CASE op \notin Ratings
    <2>1. op.action # "rate"
      BY <1>1, <1>7, OnlyRatingsCount
    <2>2. \A e \in Rated : ~Due(calls[w], e)
      BY <1>2, <2>1 DEF Due, At, op
    <2>3. \A e \in Rated : rows'[e].reviewCount = rows[e].reviewCount
      BY <1>1, <1>2, <1>3, <1>7, OnlyRatingsCount, RatedAreRows
    <2>4. \A e \in Rated : Current(e) => Current(e)'
      BY <1>5, <2>3 DEF Current
    <2> QED BY <1>2, <1>4, <2>2, <2>4, DueStays DEF IInv
  <1> QED BY <1>6, <1>7

\* At the start there is no review, and no count of one.
LEMMA RatingsInit == Init => RatingsDue
  <1> SUFFICES ASSUME Init, NEW e \in Rated PROVE Current(e)
    BY DEF RatingsDue
  <1>1. Counted = {}
    BY CatalogAssumption DEF Init, Counted, Found, Entities, Reviews, NoRow
  <1>2. rows[e].reviewCount = 0
    BY DEF Init, Entities, Rated
  <1> QED BY <1>1, <1>2, FS_EmptySet DEF Current

\* Every step keeps it.
LEMMA RatingsNext == ASSUME IInv, RatingsDue, [Next]_vars PROVE RatingsDue'
  <1>1. CASE UNCHANGED vars
    <2>1. UNCHANGED <<rows, crashed, clobbered, calls>>
      BY <1>1 DEF vars
    <2> QED BY <2>1, SameRowsCount DEF RatingsDue
  <1>2. CASE Crash
    BY <1>2 DEF Crash, RatingsDue, InForce
  <1>3. ASSUME NEW w \in Workers,
               \/ Read(w) \/ Vet(w) \/ CountPhotos(w) \/ Save(w) \/ Record(w)
               \/ SubmitReview(w) \/ InsertReview(w) \/ CountReviews(w) \/ ReadRated(w)
               \/ GalleryStep(w) /\ UNCHANGED <<rows, trail, saved, crashed, clobbered>>
        PROVE  RatingsDue'
    BY <1>3, SaveOwes, InsertReviewOwes, CountReviewsOwes, ReadRatedOwes, OthersOweNothing DEF IInv
  <1> QED BY <1>1, <1>2, <1>3 DEF Next

\* Whatever submits race, once they are through the published aggregates
\* count every review, unless a save was outdated or the process died.
THEOREM RatingsKept == Spec => []RatingsCurrent
  <1>1. IInv /\ RatingsDue => RatingsCurrent
    <2>1. \A w \in Workers, e \in Rated : Due(calls[w], e) => RatesNow(w)
      BY DEF Due, RatesNow, At
    <2> QED BY <2>1 DEF RatingsDue, RatingsCurrent, InForce, Current, Rated
  <1>2. RatingsDue /\ IInv /\ [Next]_vars => RatingsDue'
    BY RatingsNext
  <1> QED BY Inductive, RatingsInit, <1>1, <1>2, PTL DEF Spec

---------------------------------------------------------------------------
(* The photos. *)

\* f gives each photo of G a place of its own, from 0 without a gap.
Numbered(f, G) ==
    \A p \in G : /\ f[p] \in 0..(Cardinality(G) - 1)
                 /\ \A q \in G : f[p] = f[q] => p = q

Positions == [p \in Gallery |-> photos[p].position]

\* The photos that a handler has still to save, and where they all stand when
\* it is done.
Unsaved(c) == {p \in PhotoIds : c.copies[p] # NoPhoto}
Targets(c) == [p \in Gallery |-> IF p \in Unsaved(c) THEN c.index[p] ELSE photos[p].position]

SequenceFits(c) == Unsaved(c) \subseteq Gallery /\ Numbered(Targets(c), Gallery)

\* Without a shuffle one handler at most renumbers, and as long as none does
\* the photos are numbered; a handler that saves positions numbers them.
Ordered ==
    /\ photoCount <= MaxPhotos
    /\ Gallery \subseteq uploaded
    /\ \A v, w \in Workers : Renumbers(v) /\ Renumbers(w) => v = w
    /\ (\A w \in Workers : ~Renumbers(w)) => Numbered(Positions, Gallery)
    /\ \A w \in Workers : At(w, "sequencing") => SequenceFits(calls[w])

AddsWithinLimit == \A w \in Workers : At(w, "adding") => calls[w].position < MaxPhotos

GalleryKept == AddsWithinLimit /\ (~shuffled => Ordered)

\* A handler that neither adds nor renumbers.
Aside(c) == c.at \notin {"adding", "removed", "sequencing"}

\* A handler at rest stands aside.
LEMMA IdleAside == Aside(Idle)
  BY DEF Aside, Idle

\* What a call that stands aside, before and after, leaves.
LEMMA AsideKeeps ==
    ASSUME TypeOK, GalleryKept, NEW w \in Workers, NEW c,
           calls' = [calls EXCEPT ![w] = c], ~Renumbers(w), Aside(c),
           photos' = photos, uploaded' = uploaded, shuffled => shuffled'
    PROVE  GalleryKept'
  <1>1. calls'[w] = c /\ \A v \in Workers \ {w} : calls'[v] = calls[v]
    BY DEF TypeOK
  <1>2. AddsWithinLimit'
    BY <1>1 DEF GalleryKept, AddsWithinLimit, Aside, At
  <1>3. \A v \in Workers : Renumbers(v)' <=> Renumbers(v)
    BY <1>1 DEF Renumbers, Aside, At
  <1>4. Gallery' = Gallery /\ photoCount' = photoCount /\ Positions' = Positions
    BY DEF Gallery, photoCount, Positions
  <1>5. \A v \in Workers : At(v, "sequencing")' =>
            At(v, "sequencing") /\ (SequenceFits(calls[v]) => SequenceFits(calls[v])')
    <2> SUFFICES ASSUME NEW v \in Workers, At(v, "sequencing")'
                 PROVE  At(v, "sequencing") /\ (SequenceFits(calls[v]) => SequenceFits(calls[v])')
      OBVIOUS
    <2>1. calls'[v] = calls[v]
      BY <1>1 DEF At, Aside
    <2>2. At(v, "sequencing")
      BY <2>1 DEF At
    <2>3. SequenceFits(calls[v])' <=> SequenceFits(calls[v])
      BY <1>4, <2>1 DEF SequenceFits, Unsaved, Targets, Numbered
    <2> QED BY <2>2, <2>3
  <1>6. Numbered(Positions, Gallery) => Numbered(Positions, Gallery)'
    BY <1>4 DEF Numbered
  <1> QED BY <1>2, <1>3, <1>4, <1>5, <1>6 DEF GalleryKept, Ordered

\* The steps that are about no photo.
LEMMA OthersLeaveGallery ==
    ASSUME IInv, GalleryKept, NEW w \in Workers,
           \/ Read(w) \/ Vet(w) \/ CountPhotos(w) \/ Save(w) \/ Record(w)
           \/ SubmitReview(w) \/ InsertReview(w) \/ CountReviews(w) \/ ReadRated(w)
    PROVE  GalleryKept'
  <1>1. photos' = photos /\ uploaded' = uploaded /\ shuffled' = shuffled
    BY DEF Read, Vet, CountPhotos, Save, Record, SubmitReview, InsertReview, CountReviews, ReadRated,
           OnlyCalls, galleryVars
  <1>2. ~Renumbers(w)
    <2>1. \/ calls[w] = Idle
          \/ calls[w].at \in {"vetting", "counting photos", "saving", "recording", "marked", "reviewing",
                             "counting", "rating"}
      BY DEF Read, Vet, CountPhotos, Save, Record, SubmitReview, InsertReview, CountReviews, ReadRated, Begin, At
    <2>2. Idle.at = "idle"
      BY DEF Idle
    <2> QED BY <2>1, <2>2 DEF Renumbers, At
  <1>3. \E c : calls' = [calls EXCEPT ![w] = c] /\ Aside(c)
    <2>1. CASE Read(w)
      <3>1. PICK op \in Routes, at \in {"vetting", "saving"} :
                Goto(w, [at |-> at, op |-> op, copy |-> rows[op.of]])
        BY <2>1 DEF Read, Begin, Saving
      <3> DEFINE c == [at |-> at, op |-> op, copy |-> rows[op.of]]
      <3>2. Goto(w, c) /\ Aside(c)
        BY <3>1 DEF Aside
      <3> HIDE DEF c
      <3> QED BY <3>2 DEF Goto
    <2>2. CASE Vet(w) \/ CountPhotos(w)
      <3>1. InHand(w)
        BY <2>2 DEF Vet, CountPhotos, At, InHand, Holds
      <3>2. PICK c \in {Idle, [calls[w] EXCEPT !.at = "counting photos"], [calls[w] EXCEPT !.at = "saving"]} :
                Goto(w, c)
        BY <2>2 DEF Vet, CountPhotos, Proceed
      <3>3. Aside(c)
        <4>1. [calls[w] EXCEPT !.at = "counting photos"].at = "counting photos"
              /\ [calls[w] EXCEPT !.at = "saving"].at = "saving"
          BY <3>1, GoesOn
        <4> QED BY <4>1, IdleAside DEF Aside
      <3> QED BY <3>2, <3>3 DEF Goto
    <2>3. CASE Save(w)
      <3>1. PICK op \in Operations : Goto(w, After(op))
        BY <2>3, SaveWrites DEF Save, Proceed
      <3>2. Aside(After(op))
        BY DEF After, Aside, Idle
      <3> QED BY <3>1, <3>2 DEF Goto
    <2>4. CASE Record(w)
      BY <2>4, IdleAside DEF Record, Proceed, Goto
    <2>5. CASE SubmitReview(w)
      <3>1. PICK r \in Reviews : Goto(w, [at |-> "reviewing", review |-> r])
        BY <2>5 DEF SubmitReview, Begin
      <3>2. Aside([at |-> "reviewing", review |-> r])
        BY DEF Aside
      <3> QED BY <3>1, <3>2 DEF Goto
    <2>6. CASE InsertReview(w)
      <3>1. PICK c \in {Idle, [at |-> "counting", of |-> "listing"]} : Goto(w, c)
        BY <2>6 DEF InsertReview, Proceed
      <3>2. Aside([at |-> "counting", of |-> "listing"])
        BY DEF Aside
      <3> QED BY <3>1, <3>2, IdleAside DEF Goto
    <2>7. CASE CountReviews(w)
      <3>1. PICK op : Goto(w, [at |-> "rating", op |-> op])
        BY <2>7 DEF CountReviews, Proceed
      <3>2. Aside([at |-> "rating", op |-> op])
        BY DEF Aside
      <3> QED BY <3>1, <3>2 DEF Goto
    <2>8. CASE ReadRated(w)
      <3>1. PICK c \in {Idle, Saving(calls[w].op)} : Goto(w, c)
        BY <2>8 DEF ReadRated, Proceed
      <3>2. Aside(c)
        BY DEF Aside, Saving, Idle
      <3> QED BY <3>1, <3>2 DEF Goto
    <2> QED BY <2>1, <2>2, <2>3, <2>4, <2>5, <2>6, <2>7, <2>8
  <1> QED BY <1>1, <1>2, <1>3, AsideKeeps DEF IInv

\* The steps on photos that change none.
LEMMA LooksKeep ==
    ASSUME TypeOK, GalleryKept, NEW w \in Workers, RemovePhoto(w) \/ FlagPhoto(w)
    PROVE  GalleryKept'
  <1>1. calls[w] = Idle /\ photos' = photos /\ uploaded' = uploaded /\ shuffled' = shuffled
    BY DEF RemovePhoto, FlagPhoto, Begin, galleryVars
  <1>2. PICK p \in Gallery : \/ Goto(w, [at |-> "removing", photo |-> p])
                             \/ Goto(w, [at |-> "marking", photo |-> p, copy |-> photos[p]])
    BY DEF RemovePhoto, FlagPhoto, Begin
  <1>3. Aside([at |-> "removing", photo |-> p]) /\ Aside([at |-> "marking", photo |-> p, copy |-> photos[p]])
    BY DEF Aside
  <1>4. ~Renumbers(w)
    BY <1>1 DEF Idle, Renumbers, At
  <1> QED BY <1>1, <1>2, <1>3, <1>4, AsideKeeps DEF Goto

\* There is room when a photo is begun to be added.
LEMMA AddPhotoKeeps ==
    ASSUME TypeOK, GalleryKept, NEW w \in Workers, AddPhoto(w)
    PROVE  GalleryKept'
  <1>1. /\ calls'[w] = [at |-> "adding", position |-> photoCount]
        /\ calls[w] = Idle
        /\ \A v \in Workers \ {w} : calls'[v] = calls[v]
        /\ photoCount < MaxPhotos
        /\ photos' = photos /\ uploaded' = uploaded /\ shuffled' = shuffled
    BY DEF TypeOK, AddPhoto, Begin, Goto, galleryVars
  <1>2. AddsWithinLimit'
    BY <1>1 DEF GalleryKept, AddsWithinLimit, At
  <1>3. /\ \A v \in Workers : Renumbers(v)' <=> Renumbers(v)
        /\ \A v \in Workers : At(v, "sequencing")' => At(v, "sequencing") /\ calls'[v] = calls[v]
    BY <1>1 DEF Renumbers, At, Idle
  <1>4. Gallery' = Gallery /\ photoCount' = photoCount /\ Positions' = Positions
    BY <1>1 DEF Gallery, photoCount, Positions
  <1> QED BY <1>1, <1>2, <1>3, <1>4 DEF GalleryKept, Ordered, SequenceFits, Unsaved, Targets, Numbered

\* The photos can be counted.
LEMMA GalleryFinite == IsFiniteSet(Gallery) /\ photoCount = Cardinality(Gallery) /\ photoCount \in Nat
  BY FS_Subset, CountsAreNat, GalleryAssumption DEF Gallery, photoCount

\* A row is not the absence of one.
LEMMA NoPhotoIsNone == NoPhoto \notin Photo
  BY DEF NoPhoto, Photo

\* The places are those given, whatever function gives them.
LEMMA NumberedSame ==
    ASSUME NEW G, NEW f, NEW g, Numbered(f, G), \A p \in G : g[p] = f[p]
    PROVE  Numbered(g, G)
  BY DEF Numbered

\* One more photo takes the next place.
LEMMA NumberedGrows ==
    ASSUME NEW G, IsFiniteSet(G), NEW f, NEW g, NEW p, p \notin G, Numbered(f, G),
           \A q \in G : g[q] = f[q], g[p] = Cardinality(G)
    PROVE  Numbered(g, G \cup {p})
  <1>1. Cardinality(G) \in Nat /\ Cardinality(G \cup {p}) = Cardinality(G) + 1
    BY FS_CardinalityType, FS_AddElement
  <1>2. \A q \in G : g[q] \in 0..(Cardinality(G) - 1) /\ \A r \in G : g[q] = g[r] => q = r
    BY DEF Numbered
  <1> QED BY <1>1, <1>2 DEF Numbered

\* A photo is inserted where the photos end, wherever a handler is at work.
LEMMA InsertPhotoKeeps ==
    ASSUME TypeOK, GalleryKept, NEW w \in Workers, InsertPhoto(w)
    PROVE  GalleryKept'
  <1>1. PICK p \in PhotoIds \ uploaded :
            /\ photos' = [photos EXCEPT ![p] = [position |-> calls[w].position, flagged |-> FALSE]]
            /\ uploaded' = uploaded \cup {p}
    BY DEF InsertPhoto
  <1>2. /\ At(w, "adding") /\ calls'[w] = Idle
        /\ \A v \in Workers \ {w} : calls'[v] = calls[v]
        /\ calls[w].position \in Nat /\ calls[w].position < MaxPhotos
    BY CallKinds DEF TypeOK, InsertPhoto, Proceed, Goto, GalleryKept, AddsWithinLimit
  <1>3. AddsWithinLimit'
    BY <1>2, IdleAside DEF GalleryKept, AddsWithinLimit, At, Aside
  <1> SUFFICES ASSUME ~shuffled' PROVE Ordered'
    BY <1>3 DEF GalleryKept
  <1>4. ~shuffled /\ Ordered /\ calls[w].position = photoCount
    BY DEF InsertPhoto, GalleryKept
  <1>5. p \notin Gallery /\ \A q \in Gallery : photos'[q] = photos[q]
    BY <1>1, <1>4 DEF Ordered, Gallery, TypeOK, GalleryTypeOK
  <1>6. photos'[p].position = photoCount /\ photos'[p] # NoPhoto
    <2>1. photos'[p] = [position |-> calls[w].position, flagged |-> FALSE]
      BY <1>1 DEF TypeOK, GalleryTypeOK
    <2>2. [position |-> calls[w].position, flagged |-> FALSE] \in Photo
      BY <1>2 DEF Photo
    <2>3. photos'[p].position = calls[w].position
      BY <2>1
    <2>4. photos'[p] \in Photo
      BY <2>1, <2>2
    <2> QED BY <1>4, <2>3, <2>4, NoPhotoIsNone
  <1>7. Gallery' = Gallery \cup {p}
    BY <1>1, <1>6 DEF Gallery, TypeOK, GalleryTypeOK
  <1>8. photoCount' <= MaxPhotos
    <2>1. Cardinality(Gallery \cup {p}) = photoCount + 1
      BY <1>5, GalleryFinite, FS_AddElement
    <2>2. photoCount' = photoCount + 1
      BY <1>7, <2>1 DEF photoCount
    <2> QED BY <1>2, <1>4, <2>2, GalleryFinite, GalleryAssumption
  <1>9. Gallery' \subseteq uploaded'
    BY <1>1, <1>4, <1>7 DEF Ordered
  <1>10. /\ \A v \in Workers : Renumbers(v)' <=> Renumbers(v)
         /\ \A v \in Workers : At(v, "sequencing")' => At(v, "sequencing") /\ calls'[v] = calls[v]
    BY <1>2, IdleAside DEF Renumbers, At, Aside
  <1>11. ASSUME \A v \in Workers : ~Renumbers(v)' PROVE Numbered(Positions, Gallery)'
    <2>1. Numbered(Positions, Gallery)
      BY <1>4, <1>10, <1>11 DEF Ordered
    <2>2. (\A q \in Gallery : Positions'[q] = Positions[q]) /\ Positions'[p] = Cardinality(Gallery)
      BY <1>5, <1>6, <1>7, GalleryFinite DEF Positions
    <2>3. Numbered(Positions', Gallery \cup {p})
      BY <1>5, <2>1, <2>2, GalleryFinite, NumberedGrows
    <2> QED BY <1>7, <2>3 DEF Numbered
  <1>12. ASSUME NEW v \in Workers, At(v, "sequencing")' PROVE SequenceFits(calls[v])'
    <2>1. calls'[v] = calls[v] /\ SequenceFits(calls[v])
      BY <1>4, <1>10, <1>12 DEF Ordered
    <2> DEFINE c == calls[v]
    <2>2. Unsaved(c) \subseteq Gallery /\ Numbered(Targets(c), Gallery)
      BY <2>1 DEF SequenceFits
    <2>3. Unsaved(c)' = Unsaved(c)
      BY <2>1 DEF Unsaved
    <2>4. /\ \A q \in Gallery : Targets(c)'[q] = Targets(c)[q]
          /\ Targets(c)'[p] = Cardinality(Gallery)
      BY <1>5, <1>6, <1>7, <2>1, <2>2, <2>3, GalleryFinite DEF Targets
    <2>5. Numbered(Targets(c)', Gallery \cup {p})
      BY <1>5, <2>2, <2>4, GalleryFinite, NumberedGrows
    <2> QED BY <1>7, <2>2, <2>3, <2>5 DEF SequenceFits, Numbered
  <1> QED BY <1>4, <1>8, <1>9, <1>10, <1>11, <1>12 DEF Ordered

\* A photo is deleted while no other handler renumbers; this one will.
LEMMA DeletePhotoKeeps ==
    ASSUME TypeOK, GalleryKept, NEW w \in Workers, DeletePhoto(w)
    PROVE  GalleryKept'
  <1>1. calls[w] \in [at : {"removing"}, photo : PhotoIds]
    BY CallKinds DEF DeletePhoto
  <1>2. PICK p \in PhotoIds : photos' = [photos EXCEPT ![p] = NoPhoto] /\ uploaded' = uploaded
    BY <1>1 DEF DeletePhoto
  <1>3. /\ calls'[w].at = "removed"
        /\ \A v \in Workers \ {w} : calls'[v] = calls[v]
    BY <1>1 DEF TypeOK, DeletePhoto, Proceed, Goto
  <1>4. AddsWithinLimit'
    BY <1>3 DEF GalleryKept, AddsWithinLimit, At
  <1> SUFFICES ASSUME ~shuffled' PROVE Ordered'
    BY <1>4 DEF GalleryKept
  <1>5. Ordered /\ ~NotAlone(w)
    BY DEF DeletePhoto, GalleryKept
  <1>6. \A v \in Workers : Renumbers(v)' <=> v = w
    BY <1>3, <1>5 DEF NotAlone, Renumbers, At
  <1>7. \A v \in Workers : ~At(v, "sequencing")'
    BY <1>3, <1>6 DEF Renumbers, At
  <1>8. Gallery' \subseteq Gallery
    BY <1>2 DEF Gallery, TypeOK, GalleryTypeOK
  <1>9. photoCount' <= MaxPhotos
    <2>1. Cardinality(Gallery') \in Nat /\ Cardinality(Gallery') <= Cardinality(Gallery)
      BY <1>8, GalleryFinite, FS_Subset, FS_CardinalityType
    <2> QED BY <1>5, <2>1, GalleryFinite, GalleryAssumption DEF Ordered, photoCount
  <1> QED BY <1>2, <1>5, <1>6, <1>7, <1>8, <1>9 DEF Ordered

\* What is to be saved of a new sequence, and where it leads.
LEMMA SequenceLeads ==
    ASSUME TypeOK, NEW P \in SUBSET Gallery, P # {}, NEW index \in [Gallery -> Nat],
           \A p \in Gallery \ P : photos[p].position = index[p]
    PROVE  LET c == Sequencing(P, index)
           IN  /\ c.at = "sequencing"
               /\ Unsaved(c) = P
               /\ \A p \in Gallery : Targets(c)[p] = index[p]
  <1> DEFINE c == Sequencing(P, index)
  <1>1. /\ c.at = "sequencing"
        /\ c.copies = [p \in PhotoIds |-> IF p \in P THEN photos[p] ELSE NoPhoto]
        /\ c.index = [p \in PhotoIds |-> IF p \in P THEN index[p] ELSE 0]
    BY DEF Sequencing
  <1> HIDE DEF c
  <1>2. P \subseteq PhotoIds /\ \A p \in P : photos[p] # NoPhoto
    BY DEF Gallery
  <1>3. Unsaved(c) = P
    BY <1>1, <1>2 DEF Unsaved
  <1>4. \A p \in Gallery : Targets(c)[p] = index[p]
    BY <1>1, <1>2, <1>3 DEF Targets
  <1> QED BY <1>1, <1>3, <1>4 DEF c

\* The only handler to renumber sets out to save positions, if there are any
\* to save, that number the photos.
LEMMA SequenceKeeps ==
    ASSUME TypeOK, GalleryKept, NEW w \in Workers, ~At(w, "adding"),
           NEW P \in SUBSET Gallery, NEW index \in [Gallery -> Nat],
           \A p \in Gallery \ P : photos[p].position = index[p],
           calls' = [calls EXCEPT ![w] = Sequencing(P, index)],
           photos' = photos, uploaded' = uploaded, shuffled => shuffled',
           ~shuffled' => ~NotAlone(w) /\ Numbered(index, Gallery)
    PROVE  GalleryKept'
  <1>1. /\ calls'[w] = Sequencing(P, index)
        /\ \A v \in Workers \ {w} : calls'[v] = calls[v]
    BY DEF TypeOK
  <1>2. Sequencing(P, index).at \in {"idle", "sequencing"}
    BY SequencingFits
  <1>3. AddsWithinLimit'
    BY <1>1, <1>2 DEF GalleryKept, AddsWithinLimit, At
  <1> SUFFICES ASSUME ~shuffled' PROVE Ordered'
    BY <1>3 DEF GalleryKept
  <1>4. Ordered /\ ~NotAlone(w) /\ Numbered(index, Gallery)
    BY DEF GalleryKept
  <1>5. Gallery' = Gallery /\ photoCount' = photoCount /\ Positions' = Positions
    BY DEF Gallery, photoCount, Positions
  <1>6. \A v \in Workers : v # w => ~Renumbers(v)'
    BY <1>1, <1>4 DEF NotAlone, Renumbers, At
  <1>7. ASSUME ~Renumbers(w)' PROVE Numbered(Positions, Gallery)
    <2>1. P = {}
      <3>1. SUFFICES ASSUME P # {} PROVE FALSE
        OBVIOUS
      <3>2. Sequencing(P, index).at = "sequencing"
        BY <3>1, SequenceLeads
      <3> QED BY <1>1, <1>7, <3>2 DEF Renumbers, At
    <2>2. \A p \in Gallery : Positions[p] = index[p]
      BY <2>1 DEF Positions
    <2> QED BY <1>4, <2>2, NumberedSame
  <1>8. ASSUME At(w, "sequencing")' PROVE SequenceFits(calls[w])'
    <2>1. P # {}
      BY <1>1, <1>8 DEF At, Sequencing, Idle
    <2> DEFINE c == Sequencing(P, index)
    <2>2. Unsaved(c) = P /\ \A p \in Gallery : Targets(c)[p] = index[p]
      BY <2>1, SequenceLeads
    <2> HIDE DEF c
    <2>3. Numbered(Targets(c), Gallery)
      BY <1>4, <2>2, NumberedSame
    <2>4. Unsaved(calls'[w]) = Unsaved(c) /\ Targets(calls[w])' = Targets(c)
      BY <1>1, <1>5 DEF Unsaved, Targets, c
    <2> QED BY <1>5, <2>2, <2>3, <2>4 DEF SequenceFits, Unsaved
  <1>9. \A v \in Workers : At(v, "sequencing")' => v = w
    BY <1>6 DEF Renumbers
  <1> QED BY <1>4, <1>5, <1>6, <1>7, <1>8, <1>9 DEF Ordered

\* The gap is closed from what is there now.
LEMMA CloseGapKeeps ==
    ASSUME TypeOK, GalleryKept, NEW w \in Workers, CloseGap(w)
    PROVE  GalleryKept'
  <1>1. PICK index \in ByPosition : Proceed(w, Sequencing(ToClose(index), index))
    BY DEF CloseGap
  <1>2. photos' = photos /\ uploaded' = uploaded /\ shuffled' = shuffled
    BY DEF CloseGap, galleryVars
  <1>3. ToClose(index) \in SUBSET Gallery /\ \A p \in Gallery \ ToClose(index) : photos[p].position = index[p]
    BY DEF ToClose
  <1>4. index \in [Gallery -> Nat] /\ Numbered(index, Gallery)
    BY GalleryFinite DEF ByPosition, Numbered
  <1>5. Renumbers(w) /\ ~At(w, "adding")
    BY DEF CloseGap, Renumbers, At
  <1>6. ~shuffled => ~NotAlone(w)
    BY <1>5 DEF GalleryKept, Ordered, NotAlone
  <1> QED BY <1>1, <1>2, <1>3, <1>4, <1>5, <1>6, SequenceKeeps DEF Proceed, Goto

\* An order that names no photo twice is a numbering.
LEMMA ReorderPhotosKeeps ==
    ASSUME TypeOK, GalleryKept, NEW w \in Workers, ReorderPhotos(w)
    PROVE  GalleryKept'
  <1>1. PICK index \in Orders :
            /\ Begin(w, Sequencing(Gallery, index))
            /\ shuffled' = (shuffled \/ NotAlone(w) \/ NamesOneTwice(index))
    BY DEF ReorderPhotos
  <1>2. photos' = photos /\ uploaded' = uploaded
    BY DEF ReorderPhotos
  <1>3. index \in [Gallery -> Nat] /\ (~NamesOneTwice(index) => Numbered(index, Gallery))
    BY GalleryFinite DEF Orders, NamesOneTwice, Numbered
  <1>4. ~At(w, "adding")
    BY <1>1 DEF Begin, At, Idle
  <1>5. calls' = [calls EXCEPT ![w] = Sequencing(Gallery, index)]
    BY <1>1 DEF Begin, Goto
  <1> QED BY <1>1, <1>2, <1>3, <1>4, <1>5, SequenceKeeps

\* A photo that is saved as it was copied keeps its row, and where the rest
\* is to go stays.
LEMMA SavePositionKeeps ==
    ASSUME TypeOK, GalleryKept, NEW w \in Workers, SavePosition(w)
    PROVE  GalleryKept'
  <1> DEFINE c == calls[w]
             rest(p) == [c.copies EXCEPT ![p] = NoPhoto]
             next(p) == IF {q \in PhotoIds : rest(p)[q] # NoPhoto} = {} THEN Idle
                        ELSE [c EXCEPT !.copies = rest(p)]
  <1>1. c \in [at : {"sequencing"}, copies : [PhotoIds -> Photo \cup {NoPhoto}], index : [PhotoIds -> Nat]]
    BY CallKinds DEF SavePosition
  <1>2. PICK p \in Unsaved(c) :
            /\ photos' = [photos EXCEPT ![p] = Merge(c.copies[p], [position |-> c.index[p]])]
            /\ shuffled' = (shuffled \/ photos[p] # c.copies[p])
            /\ Proceed(w, next(p))
    BY DEF SavePosition, Unsaved
  <1> DEFINE n == next(p)
  <1>3. p \in PhotoIds /\ uploaded' = uploaded /\ At(w, "sequencing")
    BY DEF SavePosition, Unsaved
  <1>4. /\ Merge(c.copies[p], [position |-> c.index[p]]) \in Photo
        /\ Merge(c.copies[p], [position |-> c.index[p]]).position = c.index[p]
    BY <1>1, <1>2 DEF Unsaved, Merge, Photo
  <1>5. \/ n = Idle /\ Unsaved(c) \subseteq {p}
        \/ /\ n.at = "sequencing" /\ n.index = c.index
           /\ Unsaved(n) = Unsaved(c) \ {p}
    <2>1. \A q \in PhotoIds : rest(p)[q] = IF q = p THEN NoPhoto ELSE c.copies[q]
      BY <1>1
    <2>2. {q \in PhotoIds : rest(p)[q] # NoPhoto} = Unsaved(c) \ {p}
      BY <2>1 DEF Unsaved
    <2>3. CASE Unsaved(c) \ {p} = {}
      BY <2>2, <2>3
    <2>4. CASE Unsaved(c) \ {p} # {}
      <3>1. n = [c EXCEPT !.copies = rest(p)]
        BY <2>2, <2>4
      <3>2. n.at = "sequencing" /\ n.index = c.index /\ n.copies = rest(p)
        BY <1>1, <3>1
      <3> QED BY <2>2, <3>2 DEF Unsaved
    <2> QED BY <2>3, <2>4
  <1>6. /\ calls'[w] = n
        /\ \A v \in Workers \ {w} : calls'[v] = calls[v]
    BY <1>2 DEF TypeOK, Proceed, Goto
  <1> HIDE DEF n, next, rest
  <1>7. AddsWithinLimit'
    BY <1>5, <1>6, IdleAside DEF GalleryKept, AddsWithinLimit, At, Aside
  <1> SUFFICES ASSUME ~shuffled' PROVE Ordered'
    BY <1>7 DEF GalleryKept
  <1>8. Ordered /\ photos[p] = c.copies[p] /\ SequenceFits(c)
    BY <1>2, <1>3 DEF GalleryKept, Ordered
  <1>9. p \in Gallery
    BY <1>2, <1>8 DEF SequenceFits
  <1>10. /\ photos'[p].position = c.index[p] /\ photos'[p] # NoPhoto
         /\ \A q \in Gallery : q # p => photos'[q] = photos[q]
    BY <1>2, <1>3, <1>4, NoPhotoIsNone DEF TypeOK, GalleryTypeOK, Gallery
  <1>11. Gallery' = Gallery
    BY <1>2, <1>9, <1>10 DEF Gallery, TypeOK, GalleryTypeOK
  <1>12. photoCount' = photoCount
    BY <1>11 DEF photoCount
  <1>13. \A v \in Workers : v # w => ~Renumbers(v) /\ ~Renumbers(v)'
    BY <1>3, <1>6, <1>8 DEF Ordered, Renumbers, At
  <1>14. Numbered(Targets(c), Gallery)
    BY <1>8 DEF SequenceFits
  <1>15. CASE n = Idle /\ Unsaved(c) \subseteq {p}
    <2>1. \A q \in Gallery : Positions'[q] = Targets(c)[q]
      BY <1>2, <1>10, <1>11, <1>15 DEF Positions, Targets
    <2>2. Numbered(Positions', Gallery)
      BY <1>14, <2>1, NumberedSame
    <2>3. Numbered(Positions, Gallery)'
      BY <1>11, <2>2 DEF Numbered
    <2>4. \A v \in Workers : ~At(v, "sequencing")' /\ ~Renumbers(v)'
      BY <1>6, <1>13, <1>15, IdleAside DEF Renumbers, At, Aside
    <2> QED BY <1>3, <1>8, <1>11, <1>12, <2>3, <2>4 DEF Ordered
  <1>16. CASE n.at = "sequencing" /\ n.index = c.index /\ Unsaved(n) = Unsaved(c) \ {p}
    <2>1. Unsaved(calls[w])' = Unsaved(c) \ {p}
      BY <1>6, <1>16 DEF Unsaved
    <2>2. \A q \in Gallery : Targets(calls[w])'[q] = Targets(c)[q]
      BY <1>2, <1>6, <1>10, <1>11, <1>16, <2>1 DEF Targets
    <2>3. Numbered(Targets(calls[w])', Gallery)
      BY <1>14, <2>2, NumberedSame
    <2>4. SequenceFits(calls[w])'
      BY <1>8, <1>11, <2>1, <2>3 DEF SequenceFits, Numbered
    <2>5. /\ \A v \in Workers : Renumbers(v)' => v = w
          /\ Renumbers(w)'
      BY <1>6, <1>13, <1>16 DEF Renumbers, At
    <2>6. \A v \in Workers : At(v, "sequencing")' => v = w
      BY <2>5 DEF Renumbers
    <2> QED BY <1>3, <1>8, <1>11, <1>12, <2>4, <2>5, <2>6 DEF Ordered
  <1> QED BY <1>5, <1>15, <1>16

\* A photo that is flagged as it was copied keeps its place.
LEMMA SaveFlagKeeps ==
    ASSUME TypeOK, GalleryKept, NEW w \in Workers, SaveFlag(w)
    PROVE  GalleryKept'
  <1>1. calls[w] \in [at : {"marking"}, photo : PhotoIds, copy : Photo]
    BY CallKinds DEF SaveFlag
  <1>2. PICK p \in PhotoIds, copy \in Photo :
            /\ photos' = [photos EXCEPT ![p] = Merge(copy, [flagged |-> TRUE])]
            /\ shuffled' = (shuffled \/ photos[p] # copy)
            /\ uploaded' = uploaded
    BY <1>1 DEF SaveFlag
  <1>3. /\ calls'[w].at = "marked"
        /\ \A v \in Workers \ {w} : calls'[v] = calls[v]
    BY <1>1 DEF TypeOK, SaveFlag, Proceed, Goto
  <1>4. Merge(copy, [flagged |-> TRUE]) \in Photo /\ Merge(copy, [flagged |-> TRUE]).position = copy.position
    BY <1>2 DEF Merge, Photo
  <1>5. AddsWithinLimit'
    BY <1>3 DEF GalleryKept, AddsWithinLimit, At
  <1> SUFFICES ASSUME ~shuffled' PROVE Ordered'
    BY <1>5 DEF GalleryKept
  <1>6. Ordered /\ photos[p] = copy
    BY <1>2 DEF GalleryKept
  <1>7. p \in Gallery /\ \A q \in Gallery : photos'[q].position = photos[q].position
    BY <1>2, <1>4, <1>6, NoPhotoIsNone DEF Gallery, TypeOK, GalleryTypeOK
  <1>8. Gallery' = Gallery
    BY <1>2, <1>4, <1>7, NoPhotoIsNone DEF Gallery, TypeOK, GalleryTypeOK
  <1>9. photoCount' = photoCount /\ Positions' = Positions
    BY <1>7, <1>8 DEF photoCount, Positions
  <1>10. /\ \A v \in Workers : Renumbers(v)' <=> Renumbers(v)
         /\ \A v \in Workers : At(v, "sequencing")' => At(v, "sequencing") /\ calls'[v] = calls[v]
    BY <1>1, <1>3 DEF Renumbers, At
  <1>11. ASSUME NEW v \in Workers, At(v, "sequencing")' PROVE SequenceFits(calls[v])'
    <2>1. calls'[v] = calls[v] /\ SequenceFits(calls[v])
      BY <1>6, <1>10, <1>11 DEF Ordered
    <2>2. Unsaved(calls[v])' = Unsaved(calls[v])
      BY <2>1 DEF Unsaved
    <2>3. Targets(calls[v])' = Targets(calls[v])
      BY <1>7, <1>8, <2>1, <2>2 DEF Targets
    <2> QED BY <1>8, <2>1, <2>2, <2>3 DEF SequenceFits, Numbered
  <1> QED BY <1>2, <1>6, <1>8, <1>9, <1>10, <1>11 DEF Ordered, Numbered

\* A crash in the middle of a renumbering is a shuffle, and any other leaves
\* the photos numbered.
LEMMA CrashKeepsGallery == ASSUME TypeOK, GalleryKept, Crash PROVE GalleryKept'
  <1>1. /\ \A v \in Workers : calls'[v] = Idle
        /\ photos' = photos /\ uploaded' = uploaded
        /\ shuffled' = (shuffled \/ \E w \in Workers : Renumbers(w))
    BY DEF Crash, Forget
  <1>2. \A v \in Workers : ~At(v, "adding")' /\ ~At(v, "sequencing")' /\ ~Renumbers(v)'
    BY <1>1, IdleAside DEF Renumbers, At, Aside
  <1>3. Gallery' = Gallery /\ photoCount' = photoCount /\ Positions' = Positions
    BY <1>1 DEF Gallery, photoCount, Positions
  <1> QED BY <1>1, <1>2, <1>3 DEF GalleryKept, Ordered, AddsWithinLimit, Numbered

\* A listing starts with the photos it needs, numbered.
LEMMA GalleryInit == Init => GalleryKept
  <1> SUFFICES ASSUME Init PROVE GalleryKept
    OBVIOUS
  <1>1. \A w \in Workers : calls[w] = Idle
    BY DEF Init
  <1>2. \A w \in Workers : ~At(w, "adding") /\ ~At(w, "sequencing") /\ ~Renumbers(w)
    BY <1>1, IdleAside DEF Renumbers, At, Aside
  <1>3. PICK P \in SUBSET PhotoIds :
            /\ Cardinality(P) = MinPhotos
            /\ uploaded = P
            /\ \E index \in [P -> 0..(MinPhotos - 1)] :
                   /\ \A p, q \in P : p # q => index[p] # index[q]
                   /\ photos = [p \in PhotoIds |-> IF p \in P THEN [position |-> index[p], flagged |-> FALSE]
                                                              ELSE NoPhoto]
    BY DEF Init
  <1>4. PICK index \in [P -> 0..(MinPhotos - 1)] :
            /\ \A p, q \in P : p # q => index[p] # index[q]
            /\ photos = [p \in PhotoIds |-> IF p \in P THEN [position |-> index[p], flagged |-> FALSE]
                                                       ELSE NoPhoto]
    BY <1>3
  <1>5. \A p \in P : [position |-> index[p], flagged |-> FALSE] \in Photo
    BY GalleryAssumption DEF Photo
  <1>6. Gallery = P
    BY <1>4, <1>5, NoPhotoIsNone DEF Gallery
  <1>7. photoCount = MinPhotos /\ MinPhotos <= MaxPhotos
    BY <1>3, <1>6, GalleryAssumption DEF photoCount
  <1>8. \A p \in P : Positions[p] = index[p]
    BY <1>4, <1>6 DEF Positions
  <1>9. Numbered(index, P)
    BY <1>3, <1>4 DEF Numbered
  <1>10. Numbered(Positions, Gallery)
    BY <1>6, <1>8, <1>9, NumberedSame
  <1> QED BY <1>2, <1>3, <1>6, <1>7, <1>10 DEF GalleryKept, AddsWithinLimit, Ordered

\* Every step keeps it.
LEMMA GalleryNext == ASSUME IInv, GalleryKept, [Next]_vars PROVE GalleryKept'
  <1>1. CASE UNCHANGED vars
    <2>1. UNCHANGED <<photos, uploaded, shuffled, calls>>
      BY <1>1 DEF vars, galleryVars
    <2>2. Gallery' = Gallery /\ photoCount' = photoCount /\ Positions' = Positions
      BY <2>1 DEF Gallery, photoCount, Positions
    <2> QED BY <2>1, <2>2
            DEF GalleryKept, Ordered, AddsWithinLimit, Numbered, SequenceFits, Unsaved, Targets, Renumbers, At
  <1>2. CASE Crash
    BY <1>2, CrashKeepsGallery DEF IInv
  <1>3. ASSUME NEW w \in Workers, GalleryStep(w) PROVE GalleryKept'
    BY <1>3, AddPhotoKeeps, InsertPhotoKeeps, LooksKeep, DeletePhotoKeeps, CloseGapKeeps,
       ReorderPhotosKeeps, SavePositionKeeps, SaveFlagKeeps DEF IInv, GalleryStep
  <1>4. ASSUME NEW w \in Workers,
               \/ Read(w) \/ Vet(w) \/ CountPhotos(w) \/ Save(w) \/ Record(w)
               \/ SubmitReview(w) \/ InsertReview(w) \/ CountReviews(w) \/ ReadRated(w)
        PROVE  GalleryKept'
    BY <1>4, OthersLeaveGallery
  <1> QED BY <1>1, <1>2, <1>3, <1>4 DEF Next

\* As many numbers as photos, each taken once, leave no gap.
LEMMA NumberedFills ==
    ASSUME NEW G, IsFiniteSet(G), NEW f \in [G -> Int], Numbered(f, G)
    PROVE  {f[p] : p \in G} = 0..(Cardinality(G) - 1)
  <1> DEFINE T == 0..(Cardinality(G) - 1)
  <1>1. Cardinality(G) \in Nat
    BY FS_CardinalityType
  <1>2. IsFiniteSet(T) /\ Cardinality(T) = Cardinality(G)
    BY <1>1, FS_Interval
  <1>3. f \in Injection(G, T)
    BY DEF Numbered, Injection, IsInjective
  <1> HIDE DEF T
  <1>4. f \in Surjection(G, T)
    BY <1>2, <1>3, FS_Injection
  <1>5. \A t \in T : \E p \in G : f[p] = t
    BY <1>4 DEF Surjection
  <1>6. \A p \in G : f[p] \in T
    BY <1>3 DEF Injection
  <1> QED BY <1>5, <1>6 DEF T

\* However many handlers add, remove, reorder and flag, the photos are within
\* the limit and, once they are through, numbered without a gap - unless one
\* used what was no longer so, two renumbered at a time, or one died half-way.
THEOREM GalleryOrdered == Spec => []GalleryInOrder
  <1>1. IInv /\ GalleryKept => GalleryInOrder
    <2> SUFFICES ASSUME IInv, GalleryKept, ~shuffled
                 PROVE  /\ photoCount <= MaxPhotos
                        /\ (\A w \in Workers : ~EditsPhotos(w)) =>
                               {photos[p].position : p \in Gallery} = 0..(photoCount - 1)
      BY DEF GalleryInOrder
    <2>1. Ordered
      BY DEF GalleryKept
    <2>2. ASSUME \A w \in Workers : ~EditsPhotos(w)
          PROVE  {photos[p].position : p \in Gallery} = 0..(photoCount - 1)
      <3>1. \A w \in Workers : ~Renumbers(w)
        BY <2>2 DEF EditsPhotos, Renumbers
      <3>2. Numbered(Positions, Gallery)
        BY <2>1, <3>1 DEF Ordered
      <3>3. Positions \in [Gallery -> Int]
        BY DEF Positions, Gallery, IInv, TypeOK, GalleryTypeOK, Photo
      <3>4. {Positions[p] : p \in Gallery} = 0..(Cardinality(Gallery) - 1)
        BY <3>2, <3>3, GalleryFinite, NumberedFills
      <3>5. {Positions[p] : p \in Gallery} = {photos[p].position : p \in Gallery}
        BY DEF Positions
      <3> QED BY <3>4, <3>5 DEF photoCount
    <2> QED BY <2>1, <2>2 DEF Ordered
  <1>2. GalleryKept /\ IInv /\ [Next]_vars => GalleryKept'
    BY GalleryNext
  <1> QED BY Inductive, GalleryInit, <1>1, <1>2, PTL DEF Spec
=============================================================================
