-------------------------- MODULE BookingAdmission --------------------------
(***************************************************************************)
(* POST /bookings from the checkout page to the answer: the retries of the *)
(* client under one Idempotency-Key, the interceptor's cache of responses, *)
(* and BookingService.create query by query, against a provider who blocks *)
(* dates, adds and retires units, edits and pauses the listing while it    *)
(* runs.  One listing, one API process; the process may crash and restart, *)
(* a transaction may fail, a response may be lost.                         *)
(*                                                                         *)
(* An attempt is one HTTP request: <<k, n>> is the n-th under key k.  Its  *)
(* row in `rows' is the booking it inserts, visible to the constraints as  *)
(* soon as it is inserted and to queries once it is committed.  An insert  *)
(* that meets an uncommitted row waits for that transaction to end, as     *)
(* Postgres does for a unique or exclusion constraint.                     *)
(***************************************************************************)
EXTENDS Pricing, FiniteSets, FiniteSetsExt

CONSTANTS Keys,               \* one checkout page each: its crypto.randomUUID()
          Tries,              \* bound: how often its renter presses Pay
          Wanted,             \* the window and the quantity it asks for
          MaxSlot,            \* bound: the last slot of a window
          MaxAssets,          \* bound: Asset rows the provider may create
          Offers,             \* price, deposit, quantity and booking mode as the owner
                              \* may set them
          Buffer,             \* turnaroundBufferMinutes, in slots; no operation sets it
          Blockable,          \* windows the provider may block
          MaxUpsets           \* bound: changes by the provider, bookings released,
                              \* crashes, failed transactions, answers forgotten

Modes == {"instant", "request"}

ASSUME AdmissionAssumption ==
    /\ Tries \in [Keys -> Nat]
    /\ MaxSlot \in Nat /\ MaxAssets \in Nat
    /\ Offers \subseteq [price : Nat, deposit : Nat, quantity : Nat \ {0}, mode : Modes]
    /\ Buffer \in Nat
    /\ Wanted \in [Keys -> {w \in [from : 0..MaxSlot, to : 0..MaxSlot, quantity : Nat] :
                               w.from < w.to /\ w.quantity > 0}]
    /\ Blockable \subseteq [from : 0..MaxSlot, to : 0..MaxSlot]
    /\ MaxUpsets \in Nat

VARIABLES
    handler,   \* where the handler of each attempt stands, and its locals
    rows,      \* the bookings table, by the attempt that inserted
    charges,   \* charges captured for each key, at the payment provider
    lost,      \* of these, those whose transaction did not commit
    cache,     \* the in-memory idempotency store: the booking answered, or nothing
    listing,   \* the listings row
    assets,    \* its assets rows; ids in the order of creation
    blocks,    \* its availability blocks
    upsets

provider == <<listing, assets, blocks>>
vars == <<handler, rows, charges, lost, cache, provider, upsets>>

Attempts == UNION {{k} \X (1..Tries[k]) : k \in Keys}
KeyOf(a) == a[1]

Whole == 0                      \* asset_id is NULL: the booking takes the listing
AssetIds == 1..MaxAssets
Units == AssetIds \cup {Whole}

AssetStatuses == {"active", "maintenance", "retired"}

\* `offered' is no column: the quantityAvailable that its handler had read.
Row == [unit : Units, from : 0..MaxSlot, to : 0..MaxSlot, quantity : Nat, offered : Nat,
        quote : Quote, mode : Modes, status : {"pending", "confirmed", "cancelled"},
        committed : BOOLEAN]
NoRow == [status |-> "none"]

ListingRow == [live : BOOLEAN, offer : Offers]

NoBooking == <<"none">>
Refused == <<"refused">>        \* 4xx, or 500: the page shows an error
Replies == Attempts \cup {Refused}

\* The handler's locals, by where it is: `mode' and `offered' (quantityAvailable)
\* are of the copy of the listing read first, `quote' is made from a second read.
Handler ==
    [at : {"unsent", "received", "new", "done", "dead"}]
    \cup [at : {"listed", "open"}, mode : Modes, offered : Nat]
    \cup [at : {"chosen"}, mode : Modes, offered : Nat, unit : Units]
    \cup [at : {"quoted"}, mode : Modes, offered : Nat, unit : Units, quote : Quote]
    \cup [at : {"inserted", "charged"}]
    \cup [at : {"replying"}, reply : Replies]

InFlight(a) == handler[a].at \notin {"unsent", "dead", "done"}

TypeOK ==
    /\ handler \in [Attempts -> Handler]
    /\ rows \in [Attempts -> Row \cup {NoRow}]
    /\ charges \in [Keys -> Nat]
    /\ lost \in [Keys -> Nat]
    /\ cache \in [Keys -> Attempts \cup {NoBooking}]
    /\ listing \in ListingRow
    /\ assets \in [AssetIds -> AssetStatuses \cup {"absent"}]
    /\ blocks \subseteq Blockable
    /\ upsets \in 0..MaxUpsets

Init ==
    /\ handler = [a \in Attempts |-> [at |-> "unsent"]]
    /\ rows = [a \in Attempts |-> NoRow]
    /\ charges = [k \in Keys |-> 0]
    /\ lost = [k \in Keys |-> 0]
    /\ cache = [k \in Keys |-> NoBooking]
    /\ listing \in [live : {TRUE}, offer : Offers]
    /\ assets \in {[i \in AssetIds |-> IF i <= n THEN "active" ELSE "absent"] : n \in 0..MaxAssets}
    /\ blocks = {}
    /\ upsets = 0

---------------------------------------------------------------------------
(* The tables, as queries and constraints see them. *)

Exists(a) == rows[a] # NoRow
Committed(a) == Exists(a) /\ rows[a].committed

\* Mutant: only confirmed bookings hold their window.
ActiveWhenConfirmed(r) == r.status = "confirmed"

\* The WHERE clause of no_overlapping_bookings and of every overlap query.
Active(r) == r.status \in {"pending", "confirmed"}

Overlap(from1, to1, from2, to2) == from1 < to2 /\ from2 < to1

\* The committed active bookings that come within the turnaround buffer of w.
Around(w) == {b \in Attempts : /\ Committed(b) /\ Active(rows[b])
                               /\ Overlap(rows[b].from, rows[b].to, w.from - Buffer, w.to + Buffer)}

ActiveAssets == {i \in AssetIds : assets[i] = "active"}

hasOverlapForAssetWithBuffer(i, w) == \E b \in Around(w) : rows[b].unit = i
getBookedQuantity(w) == MapThenSumSet(LAMBDA b : rows[b].quantity, Around(w))
isBlocked(w) == \E b \in blocks : Overlap(b.from, b.to, w.from, w.to)

\* Mutant: asset_id instead of COALESCE(asset_id, listing_id), and NULL
\* equals nothing.
SameUnitUnlessNull(r, s) == r.unit = s.unit /\ r.unit # Whole

SameUnit(r, s) == r.unit = s.unit

\* EXCLUDE (COALESCE(asset_id, listing_id) WITH =, during WITH &&).
Excludes(r, s) ==
    /\ Active(r) /\ Active(s)
    /\ SameUnit(r, s)
    /\ Overlap(r.from, r.to, s.from, s.to)

\* Mutant: no unique index on the idempotency key.
NeverDuplicate(a, b) == FALSE

\* uq_bookings_idempotency_key.
Duplicate(a, b) == KeyOf(a) = KeyOf(b)

\* The other rows that keep a from inserting r.
InTheWay(a, r) == {b \in Attempts \ {a} : Exists(b) /\ (Duplicate(a, b) \/ Excludes(r, rows[b]))}

---------------------------------------------------------------------------
(* The checkout page and the interceptor. *)

At(a, where) == handler[a].at = where
Goto(a, h) == handler' = [handler EXCEPT ![a] = h]
Reply(a, r) == Goto(a, [at |-> "replying", reply |-> r])

\* Mutant: the cache key leaves the idempotency key out.
CacheKeyOfPage(k) == CHOOSE j \in Keys : TRUE

\* user:method:url:key.  Renter and route are the same for all of ours.
CacheKey(k) == k

\* The renter presses Pay: for the first time, or again because there was an
\* error or no answer (any answer may get lost, so that nothing here depends
\* on what the page was told).  The interceptor answers from the cache or
\* lets it in.
Send(a) ==
    LET cached == cache[CacheKey(KeyOf(a))]
    IN  /\ At(a, "unsent")
        /\ \A b \in Attempts : b[1] = a[1] /\ b[2] < a[2] => ~At(b, "unsent")
        /\ IF cached # NoBooking THEN Reply(a, cached)
                                 ELSE Goto(a, [at |-> "received"])
        /\ UNCHANGED <<rows, charges, lost, cache, provider, upsets>>

\* The interceptor's tap, and the response.
Respond(a) ==
    /\ At(a, "replying")
    /\ LET r == handler[a].reply
           k == KeyOf(a)
       IN  /\ Goto(a, [at |-> "done"])
           /\ cache' = IF r \in Attempts THEN [cache EXCEPT ![CacheKey(k)] = r] ELSE cache
    /\ UNCHANGED <<rows, charges, lost, provider, upsets>>

---------------------------------------------------------------------------
(* BookingService.create. *)

HandlerOnly == UNCHANGED <<rows, charges, lost, cache, provider, upsets>>

LookUp(a) ==
    LET found == {b \in Attempts : Committed(b) /\ KeyOf(b) = KeyOf(a)}
    IN  /\ At(a, "received")
        /\ \/ found = {} /\ Goto(a, [at |-> "new"])
           \/ \E b \in found : Reply(a, b)
        /\ HandlerOnly

ReadListing(a) ==
    /\ At(a, "new")
    /\ IF listing.live THEN Goto(a, [at |-> "listed", mode |-> listing.offer.mode,
                                      offered |-> listing.offer.quantity])
                       ELSE Reply(a, Refused)
    /\ HandlerOnly

CheckBlocks(a) ==
    /\ At(a, "listed")
    /\ IF isBlocked(Wanted[KeyOf(a)]) THEN Reply(a, Refused)
                                      ELSE Goto(a, [handler[a] EXCEPT !.at = "open"])
    /\ HandlerOnly

\* The first active asset that is free, in the order of creation; or, for a
\* listing without assets, enough of the quantity read with it.
ChooseUnit(a) ==
    LET w == Wanted[KeyOf(a)]
        free == {i \in ActiveAssets : ~hasOverlapForAssetWithBuffer(i, w)}
        Take(u) == Goto(a, [at |-> "chosen", mode |-> handler[a].mode,
                            offered |-> handler[a].offered, unit |-> u])
    IN  /\ At(a, "open")
        /\ \/ /\ ActiveAssets # {} /\ w.quantity = 1 /\ free # {}
              /\ \E i \in free : (\A j \in free : i <= j) /\ Take(i)
           \/ /\ ActiveAssets = {}
              /\ getBookedQuantity(w) + w.quantity <= handler[a].offered
              /\ Take(Whole)
           \/ /\ ActiveAssets # {} /\ (w.quantity > 1 \/ free = {})
              /\ Reply(a, Refused)
           \/ /\ ActiveAssets = {}
              /\ getBookedQuantity(w) + w.quantity > handler[a].offered
              /\ Reply(a, Refused)
        /\ HandlerOnly

\* getQuote reads the listing again: price and deposit are of now, mode and
\* quantity were of then.
MakeQuote(a) ==
    LET w == Wanted[KeyOf(a)]
    IN  /\ At(a, "chosen")
        /\ Goto(a, [at |-> "quoted", mode |-> handler[a].mode, offered |-> handler[a].offered,
                    unit |-> handler[a].unit,
                    quote |-> ComputeQuote(listing.offer, w.from, w.to, w.quantity)])
        /\ HandlerOnly

\* The row as it is inserted.
NewRow(a) ==
    LET w == Wanted[KeyOf(a)]
    IN  [unit |-> handler[a].unit, from |-> w.from, to |-> w.to, quantity |-> w.quantity,
         offered |-> handler[a].offered, quote |-> handler[a].quote, mode |-> handler[a].mode, status |-> "pending",
         committed |-> FALSE]

\* Mutant: an insert that meets a committed row waits, as for one in progress.
NeverRefused(a) == FALSE

\* AllExceptionsFilter: 23P01 and 23505 become a 409.
InsertRefused(a) == \E b \in InTheWay(a, NewRow(a)) : rows[b].committed

\* In the transaction.  With only uncommitted rows in the way the insert waits.
Insert(a) ==
    /\ At(a, "quoted")
    /\ \/ /\ InsertRefused(a)
          /\ Reply(a, Refused)
          /\ UNCHANGED rows
       \/ /\ InTheWay(a, NewRow(a)) = {}
          /\ rows' = [rows EXCEPT ![a] = NewRow(a)]
          /\ Goto(a, [at |-> "inserted"])
    /\ UNCHANGED <<charges, lost, cache, provider, upsets>>

\* Instant Book: the payment port is called inside the transaction.
Charge(a) ==
    /\ At(a, "inserted")
    /\ rows[a].mode = "instant"
    /\ charges' = [charges EXCEPT ![KeyOf(a)] = @ + 1]
    /\ Goto(a, [at |-> "charged"])
    /\ UNCHANGED <<rows, lost, cache, provider, upsets>>

CommitAs(a, status) ==
    /\ rows' = [rows EXCEPT ![a].status = status, ![a].committed = TRUE]
    /\ Reply(a, a)
    /\ UNCHANGED <<charges, lost, cache, provider, upsets>>

Commit(a) ==
    \/ At(a, "charged") /\ CommitAs(a, "confirmed")
    \/ At(a, "inserted") /\ rows[a].mode = "request" /\ CommitAs(a, "pending")

\* One step of the handler of a.
Handle(a) ==
    \/ LookUp(a)
    \/ ReadListing(a)
    \/ CheckBlocks(a)
    \/ ChooseUnit(a)
    \/ MakeQuote(a)
    \/ Insert(a)
    \/ Charge(a)
    \/ Commit(a)
    \/ Respond(a)

---------------------------------------------------------------------------
(* Faults, and time. *)

Upset == upsets < MaxUpsets /\ upsets' = upsets + 1

\* What a rollback of the transactions of the attempts in A leaves: their
\* rows are gone, their charges stay captured.  (Of one key only one row can
\* be in the making.)
RollBack(A) ==
    /\ rows' = [a \in Attempts |-> IF a \in A /\ ~Committed(a) THEN NoRow ELSE rows[a]]
    /\ lost' = [k \in Keys |-> IF \E a \in A : KeyOf(a) = k /\ At(a, "charged")
                               THEN lost[k] + 1 ELSE lost[k]]

\* The connection to the database breaks in the middle of a transaction.
Abort(a) ==
    /\ Upset
    /\ handler[a].at \in {"inserted", "charged"}
    /\ RollBack({a})
    /\ Reply(a, Refused)
    /\ UNCHANGED <<charges, cache, provider>>

\* The process dies and is started again, with an empty cache.
Crash ==
    /\ Upset
    /\ RollBack(Attempts)
    /\ handler' = [a \in Attempts |-> IF InFlight(a) THEN [at |-> "dead"] ELSE handler[a]]
    /\ cache' = [k \in Keys |-> NoBooking]
    /\ UNCHANGED <<charges, provider>>

\* A day later the cache forgets an answer.
Expire(k) ==
    /\ Upset
    /\ cache[k] # NoBooking
    /\ cache' = [cache EXCEPT ![k] = NoBooking]
    /\ UNCHANGED <<handler, rows, charges, lost, provider>>

---------------------------------------------------------------------------
(* The others. *)

\* declined, cancelled, completed or disputed: the booking leaves the constraint.
Release(a) ==
    /\ Upset
    /\ Committed(a) /\ Active(rows[a])
    /\ rows' = [rows EXCEPT ![a].status = "cancelled"]
    /\ UNCHANGED <<handler, charges, lost, cache, provider>>

Edit == Upset /\ UNCHANGED <<handler, rows, charges, lost, cache>>

\* createBlock looks at no booking.
CreateBlock ==
    /\ \E w \in Blockable \ blocks : blocks' = blocks \cup {w}
    /\ Edit
    /\ UNCHANGED <<listing, assets>>

CreateAsset ==
    /\ \E i \in AssetIds :
           /\ assets[i] = "absent"
           /\ \A j \in AssetIds : j < i => assets[j] # "absent"
           /\ assets' = [assets EXCEPT ![i] = "active"]
    /\ Edit
    /\ UNCHANGED <<listing, blocks>>

UpdateAsset ==
    /\ \E i \in AssetIds, s \in AssetStatuses :
           /\ assets[i] \notin {"absent", s}
           /\ assets' = [assets EXCEPT ![i] = s]
    /\ Edit
    /\ UNCHANGED <<listing, blocks>>

\* The owner's update (price, deposit, quantity and mode, whatever is booked) and
\* pause, an admin's pause and reinstatement.
UpdateListing ==
    /\ \E l \in ListingRow \ {listing} : listing' = l
    /\ Edit
    /\ UNCHANGED <<assets, blocks>>

Next ==
    \/ \E a \in Attempts : Send(a) \/ Handle(a) \/ Abort(a) \/ Release(a)
    \/ \E k \in Keys : Expire(k)
    \/ Crash
    \/ CreateBlock \/ CreateAsset \/ UpdateAsset \/ UpdateListing

\* Node resumes a handler when its query is answered, and Postgres answers:
\* a handler that can take a step takes one.  Nothing obliges the renter to
\* retry, the provider to edit, or a fault to happen.
Spec == Init /\ [][Next]_vars /\ \A a \in Attempts : WF_vars(Handle(a))

---------------------------------------------------------------------------
(* Properties. *)

\* However often the renter presses Pay, the card is charged a second time
\* only after a charge whose transaction was lost: the unique index makes a
\* concurrent retry wait before paymentPort.charge, never after it.
ChargedOncePerKey == \A k \in Keys : charges[k] <= 1 + lost[k]

\* Every successful answer to a checkout names the one booking it ever made,
\* whether it comes from the insert, from findByIdempotencyKey or from the
\* interceptor's cache, before or after a crash, an expiry or a release.
AnswersAgree ==
    \A a \in Attempts : At(a, "replying") /\ handler[a].reply \in Attempts =>
        {b \in Attempts : Committed(b) /\ KeyOf(b) = KeyOf(a)} = {handler[a].reply}

\* At no instant do the bookings that took the listing as a whole hold more
\* than the quantityAvailable that create had read for any one of them, though
\* getBookedQuantity is counted before the insert: the constraint refuses the
\* second of two that both found room.  (The owner may lower the quantity
\* under bookings that exist; update does not look at them.)
QuantityNeverOversold ==
    \A t \in 0..MaxSlot :
        LET atOnce == {a \in Attempts : /\ Committed(a) /\ Active(rows[a]) /\ rows[a].unit = Whole
                                        /\ rows[a].from <= t /\ t < rows[a].to}
        IN  \A a \in atOnce :
                MapThenSumSet(LAMBDA b : rows[b].quantity, atOnce) <= rows[a].offered

\* previewCancellationRefund never promises more than the booking's total nor
\* less than its deposit, and never more for a later cancellation, under any
\* policy and for every quote a booking was really made at: checked on either
\* side of every tier.
RefundWithinCharge ==
    \A a \in Attempts : Committed(a) =>
        \A policy \in Policies :
            LET Back(hours) == CancellationRefund(rows[a].quote, policy, hours)
            IN  /\ rows[a].quote.deposit <= Back(0)
                /\ Back(168) <= Total(rows[a].quote)
                /\ \A tier \in {24, 72, 168} : Back(tier - 1) <= Back(tier)

\* The code's promise for the calendar, as UnitCalendar states it.
Grants == {[key |-> KeyOf(a), unit |-> rows[a].unit, from |-> rows[a].from, to |-> rows[a].to] :
              a \in {b \in Attempts : Committed(b) /\ Active(rows[b])}}
Spent == {KeyOf(a) : a \in {b \in Attempts : Committed(b)}}

Calendar == INSTANCE UnitCalendar WITH Slots <- 0..MaxSlot, held <- Grants, spent <- Spent

\* Admission implements the calendar: every step grants one checkout its
\* window once and against no other grant, gives a grant back, or changes
\* nothing of it.
ImplementsCalendar == Calendar!Spec

\* Whatever a request waits for (another checkout's uncommitted row, its own
\* earlier attempt), it is answered, unless the process dies under it.
EveryRequestAnswered ==
    \A a \in Attempts : (handler[a].at # "unsent") ~> (handler[a].at \in {"done", "dead"})
=============================================================================
