------------------------------- MODULE Gallery -------------------------------
(***************************************************************************)
(* The photos of a listing: ListingsService.addPhoto, removePhoto,         *)
(* reorderPhotos and flagPhoto.  None of them runs in a transaction.  A    *)
(* photo whose row is gone when a handler saves its copy is inserted       *)
(* again: save() takes a row it does not find for a new one.               *)
(***************************************************************************)
EXTENDS Requests, FiniteSets

CONSTANTS PhotoIds,    \* bound: the photos ever uploaded
          MinPhotos,   \* MIN_LISTING_PHOTOS
          MaxPhotos    \* MAX_LISTING_PHOTOS

ASSUME GalleryAssumption ==
    IsFiniteSet(PhotoIds) /\ MinPhotos \in Nat /\ MaxPhotos \in Nat /\ MinPhotos <= MaxPhotos

VARIABLES photos,      \* the listing_photos rows
          uploaded,    \* the ids given out
          shuffled     \* history: a save or an insert used what was no longer so,
                       \* two handlers renumbered at a time, one died half-way,
                       \* or an order named a photo twice

galleryVars == <<photos, uploaded, shuffled>>

Photo == [position : Nat, flagged : BOOLEAN]
NoPhoto == [position |-> -1]

Gallery == {p \in PhotoIds : photos[p] # NoPhoto}
photoCount == Cardinality(Gallery)

\* `copies' are those still to be saved, each at its index.
GalleryCall ==
    [at : {"adding"}, position : Nat]
    \cup [at : {"removing", "removed"}, photo : PhotoIds]
    \cup [at : {"sequencing"}, copies : [PhotoIds -> Photo \cup {NoPhoto}], index : [PhotoIds -> Nat]]
    \cup [at : {"marking", "marked"}, photo : PhotoIds, copy : Photo]

EditsPhotos(w) == \E stage \in {"adding", "removing", "removed", "sequencing", "marking"} : At(w, stage)

Renumbers(w) == At(w, "removed") \/ At(w, "sequencing")

NotAlone(w) == \E v \in Workers \ {w} : Renumbers(v)

GalleryTypeOK ==
    /\ photos \in [PhotoIds -> Photo \cup {NoPhoto}]
    /\ uploaded \subseteq PhotoIds
    /\ shuffled \in BOOLEAN

---------------------------------------------------------------------------
(* Adding a photo: the position is the count. *)

AddPhoto(w) ==
    /\ photoCount < MaxPhotos
    /\ Begin(w, [at |-> "adding", position |-> photoCount])
    /\ UNCHANGED galleryVars

InsertPhoto(w) ==
    /\ At(w, "adding")
    /\ \E p \in PhotoIds \ uploaded :
           /\ photos' = [photos EXCEPT ![p] = [position |-> calls[w].position, flagged |-> FALSE]]
           /\ uploaded' = uploaded \cup {p}
    /\ shuffled' = (shuffled \/ calls[w].position # photoCount)
    /\ Proceed(w, Idle)

---------------------------------------------------------------------------
(* Positions. *)

\* The photos as findByListing orders them: where positions tie, as it likes.
ByPosition == {index \in [Gallery -> 0..(photoCount - 1)] :
                  \A p, q \in Gallery : /\ p # q => index[p] # index[q]
                                        /\ photos[p].position < photos[q].position => index[p] < index[q]}

\* Where an order that names each of the photos puts them.  It may name one
\* of them twice (bound: one, once), for only the sets of ids are compared; the
\* later place counts, and the earlier stays empty.
Orders == {index \in [Gallery -> 0..photoCount] :
              \A p, q \in Gallery : p # q => index[p] # index[q]}

NamesOneTwice(index) == \E p \in Gallery : index[p] = photoCount

\* To save the photos of P at their index.
Sequencing(P, index) ==
    IF P = {} THEN Idle
    ELSE [at |-> "sequencing",
          copies |-> [p \in PhotoIds |-> IF p \in P THEN photos[p] ELSE NoPhoto],
          index |-> [p \in PhotoIds |-> IF p \in P THEN index[p] ELSE 0]]

RemovePhoto(w) ==
    /\ \E p \in Gallery : Begin(w, [at |-> "removing", photo |-> p])
    /\ UNCHANGED galleryVars

\* The stored file goes first; a failure of that is ignored.
DeletePhoto(w) ==
    /\ At(w, "removing")
    /\ photos' = [photos EXCEPT ![calls[w].photo] = NoPhoto]
    /\ shuffled' = (shuffled \/ NotAlone(w))
    /\ Proceed(w, [calls[w] EXCEPT !.at = "removed"])
    /\ UNCHANGED uploaded

\* Mutant: positions are left as they are.
NothingToClose(index) == {}

\* The photos that have to move up.
ToClose(index) == {p \in Gallery : photos[p].position # index[p]}

CloseGap(w) ==
    /\ At(w, "removed")
    /\ \E index \in ByPosition : Proceed(w, Sequencing(ToClose(index), index))
    /\ UNCHANGED galleryVars

\* The submitted ids are those of the photos found, in a new order.
ReorderPhotos(w) ==
    /\ Gallery # {}
    /\ \E index \in Orders :
           /\ Begin(w, Sequencing(Gallery, index))
           /\ shuffled' = (shuffled \/ NotAlone(w) \/ NamesOneTwice(index))
    /\ UNCHANGED <<photos, uploaded>>

\* One of the saves that Promise.all started.
SavePosition(w) ==
    /\ At(w, "sequencing")
    /\ LET copies == calls[w].copies
           Pending(c) == {p \in PhotoIds : c[p] # NoPhoto}
       IN  \E p \in Pending(copies) :
               LET rest == [copies EXCEPT ![p] = NoPhoto]
               IN  /\ photos' = [photos EXCEPT ![p] = Merge(copies[p], [position |-> calls[w].index[p]])]
                   /\ shuffled' = (shuffled \/ photos[p] # copies[p])
                   /\ Proceed(w, IF Pending(rest) = {} THEN Idle ELSE [calls[w] EXCEPT !.copies = rest])
    /\ UNCHANGED uploaded

---------------------------------------------------------------------------
(* Flagging. *)

FlagPhoto(w) ==
    /\ \E p \in Gallery : Begin(w, [at |-> "marking", photo |-> p, copy |-> photos[p]])
    /\ UNCHANGED galleryVars

SaveFlag(w) ==
    /\ At(w, "marking")
    /\ LET p == calls[w].photo
           copy == calls[w].copy
       IN  /\ photos' = [photos EXCEPT ![p] = Merge(copy, [flagged |-> TRUE])]
           /\ shuffled' = (shuffled \/ photos[p] # copy)
    /\ Proceed(w, [calls[w] EXCEPT !.at = "marked"])
    /\ UNCHANGED uploaded

GalleryStep(w) ==
    \/ AddPhoto(w) \/ InsertPhoto(w)
    \/ RemovePhoto(w) \/ DeletePhoto(w) \/ CloseGap(w)
    \/ ReorderPhotos(w) \/ SavePosition(w)
    \/ FlagPhoto(w) \/ SaveFlag(w)

---------------------------------------------------------------------------
(* A property. *)

\* Counting, deleting and saving are separate queries.  As long as no two
\* handlers renumber at a time, none uses a count or a copy that is no longer
\* so, none dies half-way and no order names a photo twice, a listing has no more than MAX_LISTING_PHOTOS
\* photos, and once no handler is at work on them their positions run from 0
\* without a gap, so that there is one cover.  Other overlaps do no harm: a
\* photo may be added or flagged in the middle of a removal.
GalleryInOrder ==
    ~shuffled =>
        /\ photoCount <= MaxPhotos
        /\ (\A w \in Workers : ~EditsPhotos(w)) =>
               {photos[p].position : p \in Gallery} = 0..(photoCount - 1)
=============================================================================
