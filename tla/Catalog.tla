------------------------------- MODULE Catalog -------------------------------
(***************************************************************************)
(* A listing from draft to removal: its moderation, its owner's            *)
(* verification and documents, the reviews it collects, and the handlers   *)
(* that read and save those rows while others do the same.  With Gallery,  *)
(* every request about one listing; one owner, admins and renters.         *)
(***************************************************************************)
EXTENDS Gallery

CONSTANTS Up,      \* reviews by renters of the listing, one completed booking each
          Down     \* reviews of those renters by the owner

ASSUME CatalogAssumption ==
    /\ IsFiniteSet(Up) /\ Up \cap Down = {}
    /\ {"listing", "profile", "document"} \cap (Up \cup Down) = {}

VARIABLES rows,       \* the rows of listings, provider_profiles,
                      \* verification_documents and reviews
          trail,      \* the audit log: the actions recorded
          saved,      \* history: the audited actions that were carried out
          crashed,    \* history: the process died
          clobbered   \* history: some save used a copy or a count no longer so

vars == <<calls, started, galleryVars, rows, trail, saved, crashed, clobbered>>

Reviews == Up \cup Down

ListingStatuses == {"draft", "pending_review", "changes_requested", "live", "paused", "rejected"}

\* The columns the handlers change.  reviewCount stands for the average too.
Listing == [status : ListingStatuses, flagged : BOOLEAN, reviewCount : Nat, deleted : BOOLEAN]
Profile == [status : {"pending", "verified", "rejected"}, reviewCount : Nat, deleted : BOOLEAN]
Document == [status : {"pending", "approved", "rejected"}, deleted : BOOLEAN]
Review == [status : {"visible", "hidden"}, answered : BOOLEAN, deleted : BOOLEAN]
Row == Listing \cup Profile \cup Document \cup Review
NoRow == [deleted |-> TRUE]

Entities == {"listing", "profile", "document"} \cup Reviews
Statuses == ListingStatuses \cup {"verified", "approved", "pending", "visible", "hidden"}

\* findByIdOrFail.
Found(e) == ~rows[e].deleted

---------------------------------------------------------------------------
(* The operations that read a row, check its status, save a changed copy   *)
(* and (the admins') record that.                                          *)

Unchanged == [f \in {} |-> TRUE]
To(status) == [status |-> status]

Plain(of, when, set) == [of |-> of, when |-> when, set |-> set, action |-> "none"]
Audited(of, when, set, action) == [of |-> of, when |-> when, set |-> set, action |-> action]

\* Mutant: a rejected listing that is published again goes live at once.
republish == Plain("listing", {"paused", "rejected"}, To("live"))

update == Plain("listing", ListingStatuses, Unchanged)
submit == Plain("listing", {"draft", "rejected", "changes_requested"}, To("pending_review"))
resume == Plain("listing", {"paused"}, To("live"))
pause == Plain("listing", {"live"}, To("paused"))

\* Mutant: the status of a document instead of a listing's.
approveLikeDocument == Audited("listing", {"pending_review"}, To("approved"), "listing.approve")

\* Mutant: no check that the listing is pending review.
approveAnything == Audited("listing", ListingStatuses, To("live"), "listing.approve")

\* The audit entry of a pause has the status before it: live or paused already,
\* or, as pauseAsAdmin takes a listing in any status, another one.
BeenLive == {"live", "paused"}
pauseAsAdmin == Audited("listing", BeenLive, To("paused"), "listing.pause")
pauseUnlisted == Audited("listing", ListingStatuses \ BeenLive, To("paused"), "listing.pause.unlisted")
reinstateAsAdmin == Audited("listing", {"paused"}, To("live"), "listing.reinstate")
removeAsAdmin == Audited("listing", ListingStatuses, [deleted |-> TRUE], "listing.remove")
approve == Audited("listing", {"pending_review"}, To("live"), "listing.approve")
reject == Audited("listing", {"pending_review"}, To("rejected"), "listing.reject")
requestChanges == Audited("listing", {"pending_review"}, To("changes_requested"), "listing.request_changes")
flagListing == Audited("listing", ListingStatuses, [flagged |-> TRUE], "listing.flag")

AnyStatus == {"pending", "verified", "rejected"}
approveVerification == Audited("profile", AnyStatus, To("verified"), "provider_profile.approve_verification")
rejectVerification == Audited("profile", AnyStatus, To("rejected"), "provider_profile.reject_verification")
removeProfile == Audited("profile", AnyStatus, [deleted |-> TRUE], "provider_profile.remove")
approveDocument == Audited("document", {"pending"}, To("approved"), "verification_document.approve")
rejectDocument == Audited("document", {"pending"}, To("rejected"), "verification_document.reject")

hide(r) == Audited(r, {"visible", "hidden"}, To("hidden"), "review.hide")
unhide(r) == Audited(r, {"visible", "hidden"}, To("visible"), "review.unhide")
respondAsProvider(r) == Plain(r, {"visible", "hidden"}, [answered |-> TRUE])

\* recomputeRatingAggregate of the two services; n is counted before.
Rate(of, n) == Audited(of, Statuses, [reviewCount |-> n], "rate")

\* The routes of each controller.
OwnerRoutes == {update, submit, resume, pause}
ListingAdminRoutes == {pauseAsAdmin, pauseUnlisted, reinstateAsAdmin, removeAsAdmin, approve,
                       reject, requestChanges, flagListing}
ProviderAdminRoutes == {approveVerification, rejectVerification, removeProfile,
                        approveDocument, rejectDocument}
ReviewAdminRoutes == {hide(r) : r \in Reviews} \cup {unhide(r) : r \in Reviews}
ReviewRoutes == {respondAsProvider(r) : r \in Up}

Routes == OwnerRoutes \cup ListingAdminRoutes \cup ProviderAdminRoutes
          \cup ReviewAdminRoutes \cup ReviewRoutes

Ratings == {Rate(e, n) : e \in {"listing", "profile"}, n \in 0..Cardinality(Up)}
Operations == Routes \cup Ratings
Actions == {op.action : op \in Operations} \cup {"listing_photo.flag"}

---------------------------------------------------------------------------
CatalogCall ==
    [at : {"vetting", "counting photos", "saving"}, op : Operations, copy : Row]
    \cup [at : {"recording"}, action : Actions]
    \cup [at : {"reviewing"}, review : Reviews]
    \cup [at : {"counting"}, of : {"listing", "profile"}]
    \cup [at : {"rating"}, op : Ratings]

TypeOK ==
    /\ calls \in [Workers -> {Idle} \cup GalleryCall \cup CatalogCall]
    /\ started \in 0..MaxCalls
    /\ GalleryTypeOK
    /\ rows \in [Entities -> Row \cup {NoRow}]
    /\ trail \subseteq Actions /\ saved \subseteq Actions
    /\ crashed \in BOOLEAN /\ clobbered \in BOOLEAN

\* A listing that was just created, submitted, or approved; one document of
\* its owner uploaded; the photos it needs for that, and room for more.
Init ==
    /\ calls = [w \in Workers |-> Idle]
    /\ started = 0
    /\ \E status \in {"draft", "pending_review", "live"} :
           /\ rows = [e \in Entities |->
                  CASE e = "listing"  -> [status |-> status, flagged |-> FALSE,
                                          reviewCount |-> 0, deleted |-> FALSE]
                    [] e = "profile"  -> [status |-> "verified", reviewCount |-> 0, deleted |-> FALSE]
                    [] e = "document" -> [status |-> "pending", deleted |-> FALSE]
                    [] OTHER          -> NoRow]
           /\ saved = {"provider_profile.approve_verification"}
                      \cup (IF status = "live" THEN {"listing.approve"} ELSE {})
    /\ trail = saved
    /\ \E P \in SUBSET PhotoIds :
           /\ Cardinality(P) = MinPhotos
           /\ uploaded = P
           /\ \E index \in [P -> 0..(MinPhotos - 1)] :
                  /\ \A p, q \in P : p # q => index[p] # index[q]
                  /\ photos = [p \in PhotoIds |-> IF p \in P THEN [position |-> index[p], flagged |-> FALSE]
                                                             ELSE NoPhoto]
    /\ shuffled = FALSE /\ crashed = FALSE /\ clobbered = FALSE

---------------------------------------------------------------------------
(* The steps of those operations. *)

OnlyCalls == UNCHANGED <<galleryVars, rows, trail, saved, crashed, clobbered>>

Saving(op) == [at |-> "saving", op |-> op, copy |-> rows[op.of]]

\* The row is read; a status it does not allow ends the request.  publish has
\* more to read before it looks at the status.
Read(w) ==
    /\ \E op \in Routes :
           /\ Found(op.of)
           /\ rows[op.of].status \in op.when
           /\ Begin(w, IF op \in {submit, resume} THEN [Saving(op) EXCEPT !.at = "vetting"] ELSE Saving(op))
    /\ OnlyCalls

\* publish: the owner must be verified.
Vet(w) ==
    /\ At(w, "vetting")
    /\ Proceed(w, IF Found("profile") /\ rows["profile"].status = "verified"
                  THEN [calls[w] EXCEPT !.at = "counting photos"] ELSE Idle)
    /\ OnlyCalls

\* publish: there must be enough photos.
CountPhotos(w) ==
    /\ At(w, "counting photos")
    /\ Proceed(w, IF photoCount >= MinPhotos THEN [calls[w] EXCEPT !.at = "saving"] ELSE Idle)
    /\ OnlyCalls

\* The reviews that AVG and COUNT range over, hidden ones too.
Counted == {r \in Up : Found(r)}

\* What a call is about to save rests on a row, or a count, that is gone.
Outdated(w) ==
    LET op == calls[w].op
    IN  \/ rows[op.of] # calls[w].copy
        \/ op.action = "rate" /\ op.set.reviewCount # Cardinality(Counted)

\* Mutant: the owner's average is not recomputed.
AfterForgettingOwner(op) ==
    IF op.action \in {"none", "rate"} THEN Idle ELSE [at |-> "recording", action |-> op.action]

\* What follows the save of op.
After(op) ==
    CASE op.action = "rate" /\ op.of = "listing" -> [at |-> "counting", of |-> "profile"]
      [] op.action = "rate" /\ op.of # "listing" -> Idle
      [] op.action = "none" -> Idle
      [] OTHER -> [at |-> "recording", action |-> op.action]

\* removeAsAdmin and removeProfile set deleted_at alone, whatever they read.
Removes(op) == op.set = [deleted |-> TRUE]

Save(w) ==
    LET op == calls[w].op
        base == IF Removes(op) THEN rows[op.of] ELSE calls[w].copy
    IN  /\ At(w, "saving")
        /\ rows' = [rows EXCEPT ![op.of] = Merge(base, op.set)]
        /\ clobbered' = (clobbered \/ (~Removes(op) /\ Outdated(w)))
        /\ saved' = saved \cup {op.action}
        /\ Proceed(w, After(op))
        /\ UNCHANGED <<galleryVars, trail, crashed>>

\* AuditLogService.record, after the save and not in one transaction with it.
Record(w) ==
    /\ \/ At(w, "recording") /\ trail' = trail \cup {calls[w].action}
       \/ At(w, "marked") /\ trail' = trail \cup {"listing_photo.flag"}
    /\ Proceed(w, Idle)
    /\ UNCHANGED <<galleryVars, rows, saved, crashed, clobbered>>

---------------------------------------------------------------------------
(* ReviewsService.submit, for a completed booking. *)

SubmitReview(w) ==
    /\ Found("listing") /\ Found("profile")
    /\ \E r \in Reviews : ~Found(r) /\ Begin(w, [at |-> "reviewing", review |-> r])
    /\ OnlyCalls

\* The unique index on booking and direction refuses the second of two.
InsertReview(w) ==
    /\ At(w, "reviewing")
    /\ LET r == calls[w].review
       IN  IF Found(r)
           THEN Proceed(w, Idle) /\ UNCHANGED rows
           ELSE /\ rows' = [rows EXCEPT ![r] = [status |-> "visible", answered |-> FALSE, deleted |-> FALSE]]
                /\ Proceed(w, IF r \in Up THEN [at |-> "counting", of |-> "listing"] ELSE Idle)
    /\ UNCHANGED <<galleryVars, trail, saved, crashed, clobbered>>

\* getAggregateForListing, getAggregateForProviderTarget.
CountReviews(w) ==
    /\ At(w, "counting")
    /\ Proceed(w, [at |-> "rating", op |-> Rate(calls[w].of, Cardinality(Counted))])
    /\ OnlyCalls

\* recomputeRatingAggregate reads the row; one that was removed ends it.
ReadRated(w) ==
    /\ At(w, "rating")
    /\ LET op == calls[w].op
       IN  Proceed(w, IF Found(op.of) THEN Saving(op) ELSE Idle)
    /\ OnlyCalls

Crash ==
    /\ ~crashed
    /\ crashed' = TRUE
    /\ Forget
    /\ shuffled' = (shuffled \/ \E w \in Workers : Renumbers(w))
    /\ UNCHANGED <<photos, uploaded, rows, trail, saved, clobbered>>

Next ==
    \/ \E w \in Workers :
           \/ Read(w) \/ Vet(w) \/ CountPhotos(w) \/ Save(w) \/ Record(w)
           \/ SubmitReview(w) \/ InsertReview(w) \/ CountReviews(w) \/ ReadRated(w)
           \/ GalleryStep(w) /\ UNCHANGED <<rows, trail, saved, crashed, clobbered>>
    \/ Crash

Spec == Init /\ [][Next]_vars

---------------------------------------------------------------------------
(* Properties. *)

\* What the audit log holds, is about to, or lost when the process died.
Accounted == trail \cup {calls[w].action : w \in {v \in Workers : At(v, "recording")}}
             \cup (IF crashed THEN saved ELSE {})

\* A listing goes live through approve() alone (admin-listings.controller.ts):
\* pause() is kept from listings that were never approved for that reason, and
\* publish() puts a paused one live as "already approved once".  pauseAsAdmin
\* looks at no status, and the code does not have this property.
LiveWasApproved == rows["listing"].status = "live" => "listing.approve" \in Accounted

\* The audit log tells how a live listing came to be so: an admin approved it,
\* or paused it when it was not live (the entry has the status before), and
\* publish or reinstateAsAdmin then put it live.  No other path leads there,
\* however many stale copies were saved since.
LiveIsExplained ==
    rows["listing"].status = "live" =>
        {"listing.approve", "listing.pause.unlisted"} \cap Accounted # {}

\* Unless a save was outdated or the process died, the published aggregates
\* of listing and owner count every review once the submits are through.
RatesNow(w) == At(w, "counting") \/ At(w, "rating") \/ (At(w, "saving") /\ calls[w].op.action = "rate")

RatingsCurrent ==
    (~clobbered /\ ~crashed /\ Found("listing") /\ Found("profile") /\ \A w \in Workers : ~RatesNow(w)) =>
        \A e \in {"listing", "profile"} : rows[e].reviewCount = Cardinality(Counted)

\* No handler undoes what another decided, except by an outdated save: a
\* listing that was turned down does not go live, what was removed or flagged
\* stays so, a reviewed document keeps its verdict, and an answer to a review
\* does not show it again.
DecisionsStand ==
    [][~clobbered' =>
        /\ rows["listing"].status \in {"rejected", "changes_requested"} => rows'["listing"].status # "live"
        /\ rows["listing"].flagged => rows'["listing"].flagged
        /\ \A e \in {"listing", "profile"} : rows[e].deleted => rows'[e].deleted
        /\ rows["document"].status # "pending" => rows'["document"] = rows["document"]
        /\ \A r \in Reviews : (Found(r) /\ rows[r].status = "hidden" /\ rows'[r].status = "visible") =>
               \E w \in Workers : At(w, "saving") /\ calls[w].op = unhide(r)
      ]_vars
=============================================================================
