-------------------------- MODULE AdmissionProofs --------------------------
(***************************************************************************)
(* The admission of bookings, for any number of checkouts, retries, units, *)
(* blocks, crashes and failed transactions: its invariants, that it        *)
(* implements UnitCalendar, that the listing is never oversold, and that   *)
(* a refund is never more than was charged.                                *)
(***************************************************************************)
EXTENDS BookingAdmission, FiniteSums, TLAPS

Making(a) == At(a, "inserted") \/ At(a, "charged")

\* Not as far as the insert.
Early(a) == handler[a].at \in {"unsent", "received", "new", "listed", "open", "chosen", "quoted"}

\* A handler is in its transaction exactly as long as its row is uncommitted,
\* and such a row is pending; before that there is none.
RowsInTheMaking ==
    \A a \in Attempts : /\ Making(a) <=> (Exists(a) /\ ~rows[a].committed)
                        /\ Early(a) => ~Exists(a)
                        /\ Making(a) => rows[a].status = "pending"

\* The unique index: one row for each key, in the making or committed.
OneRowPerKey == \A a, b \in Attempts : Exists(a) /\ Exists(b) /\ KeyOf(a) = KeyOf(b) => a = b

\* What is answered, and what is remembered to be answered, is a booking of
\* the key.
OfItsKey(b, k) == Committed(b) /\ KeyOf(b) = k
RepliesTrue ==
    \A a \in Attempts : At(a, "replying") /\ handler[a].reply \in Attempts =>
        OfItsKey(handler[a].reply, KeyOf(a))
CacheTrue == \A k \in Keys : cache[k] # NoBooking => OfItsKey(cache[k], k)

\* Without a charge in the making and without a booking, every charge of a
\* key was lost.
Settled(k) == \A a \in Attempts : KeyOf(a) = k => ~At(a, "charged") /\ ~Committed(a)
ChargesKept == \A k \in Keys : /\ charges[k] <= 1 + lost[k]
                               /\ Settled(k) => charges[k] <= lost[k]

\* The exclusion constraint, of rows in the making too.
Apart == \A a, b \in Attempts : a # b /\ Exists(a) /\ Exists(b) => ~Excludes(rows[a], rows[b])

Sound == RowsInTheMaking /\ OneRowPerKey /\ RepliesTrue /\ CacheTrue /\ ChargesKept /\ Apart

IInv == TypeOK /\ Sound

---------------------------------------------------------------------------
(* Facts about the data. *)

\* An attempt is one of its key's.
LEMMA AttemptHasKey == ASSUME NEW a \in Attempts PROVE KeyOf(a) \in Keys
  BY DEF Attempts, KeyOf

\* The replies that stand for no booking are none.
LEMMA NotAttempts == NoBooking \notin Attempts /\ Refused \notin Attempts
  BY DEF Attempts, NoBooking, Refused

\* A row is not the absence of one.
LEMMA RowIsSome == NoRow \notin Row
  BY DEF NoRow, Row

\* The naturals are closed under multiplication.
LEMMA ProductOfNats == ASSUME NEW m \in Nat, NEW n \in Nat PROVE m * n \in Nat
  OBVIOUS

\* A price times whole numbers is no debt, whatever is rounded.
LEMMA QuoteType ==
    ASSUME NEW offer \in Offers, NEW from \in 0..MaxSlot, NEW to \in 0..MaxSlot, NEW quantity \in Nat
    PROVE  ComputeQuote(offer, from, to, quantity) \in Quote
  <1> DEFINE price == offer.price
             rental == price * Nights(from, to) * quantity
  <1>0. price \in Nat /\ offer.deposit \in Nat
    BY AdmissionAssumption
  <1>1. Nights(from, to) \in Nat
    BY PricingAssumption, AdmissionAssumption DEF Nights
  <1> HIDE DEF price
  <1>2. price * Nights(from, to) \in Nat
    BY <1>0, <1>1, ProductOfNats
  <1>3. rental \in Nat
    BY <1>2, ProductOfNats
  <1>4. \A n \in Nat : Rounded(n, 10000) \in Nat
    BY DEF Rounded
  <1>5. CommissionBps \in Nat
    BY PricingAssumption
  <1>6. rental * CommissionBps \in Nat /\ offer.deposit * quantity \in Nat
    <2> HIDE DEF rental
    <2> QED BY <1>0, <1>3, <1>5, ProductOfNats
  <1>7. ComputeQuote(offer, from, to, quantity) =
          [rental |-> rental, service |-> Rounded(rental * CommissionBps, 10000),
           deposit |-> offer.deposit * quantity]
    BY DEF ComputeQuote, price
  <1> HIDE DEF rental
  <1> QED BY <1>3, <1>4, <1>6, <1>7 DEF Quote

---------------------------------------------------------------------------
(* Steps. *)

\* What a step leaves of an attempt when it is not about it.
Steady(b) ==
    /\ Exists(b)' <=> Exists(b)
    /\ Committed(b)' <=> Committed(b)
    /\ Making(b)' <=> Making(b)
    /\ Early(b)' <=> Early(b)
    /\ At(b, "charged")' <=> At(b, "charged")

\* The invariant holds at the start.
LEMMA Initially == Init => IInv
  <1> SUFFICES ASSUME Init PROVE IInv
    OBVIOUS
  <1>1. TypeOK
    <2>1. handler \in [Attempts -> Handler]
      BY DEF Init, Handler
    <2>2. listing \in ListingRow
      BY DEF Init, ListingRow
    <2>3. assets \in [AssetIds -> AssetStatuses \cup {"absent"}]
      BY DEF Init, AssetStatuses
    <2>4. upsets \in 0..MaxUpsets
      BY AdmissionAssumption DEF Init
    <2> QED BY <2>1, <2>2, <2>3, <2>4 DEF Init, TypeOK
  <1>2. Sound
    BY DEF Init, Sound, RowsInTheMaking, Making, Early, At, Exists, OneRowPerKey, RepliesTrue, CacheTrue,
       ChargesKept, Apart
  <1> QED BY <1>1, <1>2 DEF IInv

\* A handler that is not in its transaction goes on, and enters none; if it
\* answers with a booking, with one of its key.
LEMMA HandlerMoves ==
    ASSUME IInv, NEW a \in Attempts, NEW h \in Handler,
           handler' = [handler EXCEPT ![a] = h],
           Early(a), h.at \notin {"inserted", "charged"},
           h.at = "replying" /\ h.reply \in Attempts => OfItsKey(h.reply, KeyOf(a)),
           HandlerOnly
    PROVE  IInv'
  <1> USE DEF IInv, HandlerOnly
  <1>1. handler'[a] = h /\ \A b \in Attempts : b # a => handler'[b] = handler[b]
    BY DEF TypeOK
  <1>2. TypeOK'
    BY DEF TypeOK, provider
  <1>3. \A b \in Attempts : /\ Exists(b)' <=> Exists(b)
                            /\ Committed(b)' <=> Committed(b)
                            /\ Making(b)' <=> Making(b)
                            /\ Early(b)' => Early(b)
                            /\ At(b, "charged")' <=> At(b, "charged")
    BY <1>1 DEF Exists, Committed, Making, Early, At
  <1>4. RowsInTheMaking' /\ OneRowPerKey' /\ Apart'
    BY <1>3 DEF Sound, RowsInTheMaking, OneRowPerKey, Apart, Exists
  <1>5. RepliesTrue'
    BY <1>1 DEF Sound, RepliesTrue, At, OfItsKey, Committed, Exists
  <1>6. CacheTrue'
    BY DEF Sound, CacheTrue, OfItsKey, Committed, Exists
  <1>7. ChargesKept'
    BY <1>3 DEF Sound, ChargesKept, Settled
  <1> QED BY <1>2, <1>4, <1>5, <1>6, <1>7 DEF Sound

\* What a page asks for is a window of slots and a number of units.
LEMMA WantedType ==
    ASSUME NEW k \in Keys
    PROVE  /\ Wanted[k].from \in 0..MaxSlot
           /\ Wanted[k].to \in 0..MaxSlot
           /\ Wanted[k].quantity \in Nat
  BY AdmissionAssumption

\* A request arrives: the cache, if it answers, answers for its key.
LEMMA SendKeeps == ASSUME IInv, NEW a \in Attempts, Send(a) PROVE IInv'
  <1>1. HandlerOnly
    BY DEF Send, HandlerOnly
  <1>2. Early(a) /\ KeyOf(a) \in Keys
    BY AttemptHasKey DEF Send, At, Early
  <1>3. CASE cache[KeyOf(a)] # NoBooking
    <2> DEFINE h == [at |-> "replying", reply |-> cache[KeyOf(a)]]
    <2>1. handler' = [handler EXCEPT ![a] = h]
      BY <1>3 DEF Send, CacheKey, Reply, Goto
    <2>2. cache[KeyOf(a)] \in Attempts /\ OfItsKey(cache[KeyOf(a)], KeyOf(a))
      BY <1>2, <1>3 DEF IInv, TypeOK, Sound, CacheTrue
    <2>3. h \in Handler
      BY <2>2 DEF Handler, Replies
    <2> QED BY <1>1, <1>2, <2>1, <2>2, <2>3, HandlerMoves
  <1>4. CASE cache[KeyOf(a)] = NoBooking
    <2> DEFINE h == [at |-> "received"]
    <2>1. handler' = [handler EXCEPT ![a] = h]
      BY <1>4 DEF Send, CacheKey, Goto
    <2>2. h \in Handler
      BY DEF Handler
    <2> QED BY <1>1, <1>2, <2>1, <2>2, HandlerMoves
  <1> QED BY <1>3, <1>4

\* An answer in the negative.
LEMMA RefusalKeeps ==
    ASSUME IInv, NEW a \in Attempts, Early(a), Reply(a, Refused), HandlerOnly
    PROVE  IInv'
  <1> DEFINE h == [at |-> "replying", reply |-> Refused]
  <1>1. handler' = [handler EXCEPT ![a] = h]
    BY DEF Reply, Goto
  <1>2. h \in Handler
    BY DEF Handler, Replies
  <1> QED BY <1>1, <1>2, NotAttempts, HandlerMoves

\* The answer goes out, and is remembered if it names a booking.
LEMMA RespondKeeps == ASSUME IInv, NEW a \in Attempts, Respond(a) PROVE IInv'
  <1> DEFINE h == [at |-> "done"]
  <1>1. /\ handler' = [handler EXCEPT ![a] = h]
        /\ UNCHANGED <<rows, charges, lost, provider, upsets>>
        /\ At(a, "replying") /\ ~Making(a) /\ ~Early(a)
    BY DEF Respond, Goto, At, Making, Early
  <1>2. /\ handler'[a] = h /\ \A b \in Attempts : b # a => handler'[b] = handler[b]
        /\ \A k \in Keys : \/ cache'[k] = cache[k]
                           \/ cache'[k] \in Attempts /\ OfItsKey(cache'[k], k)
        /\ cache' \in [Keys -> Attempts \cup {NoBooking}]
    BY <1>1, AttemptHasKey DEF IInv, TypeOK, Sound, RepliesTrue, Respond, CacheKey
  <1>3. TypeOK'
    BY <1>1, <1>2 DEF IInv, TypeOK, Handler, provider
  <1>4. \A b \in Attempts : /\ Exists(b)' <=> Exists(b)
                            /\ Committed(b)' <=> Committed(b)
                            /\ Making(b)' <=> Making(b)
                            /\ Early(b)' => Early(b)
                            /\ At(b, "charged")' <=> At(b, "charged")
    BY <1>1, <1>2 DEF Exists, Committed, Making, Early, At
  <1>5. RowsInTheMaking' /\ OneRowPerKey' /\ Apart'
    BY <1>1, <1>4 DEF IInv, Sound, RowsInTheMaking, OneRowPerKey, Apart, Exists
  <1>6. RepliesTrue'
    BY <1>1, <1>2 DEF IInv, Sound, RepliesTrue, At, OfItsKey, Committed, Exists
  <1>7. CacheTrue'
    BY <1>1, <1>2 DEF IInv, Sound, CacheTrue, OfItsKey, Committed, Exists
  <1>8. ChargesKept'
    BY <1>1, <1>4 DEF IInv, Sound, ChargesKept, Settled
  <1> QED BY <1>3, <1>5, <1>6, <1>7, <1>8 DEF IInv, Sound

\* A day later the cache has forgotten.
LEMMA ExpireKeeps == ASSUME IInv, NEW k \in Keys, Expire(k) PROVE IInv'
  <1> USE DEF IInv
  <1>1. TypeOK'
    BY AdmissionAssumption DEF TypeOK, Expire, Upset, provider
  <1>2. RowsInTheMaking' /\ OneRowPerKey' /\ Apart'
    BY DEF Expire, Sound, RowsInTheMaking, Making, Early, At, OneRowPerKey, Apart, Exists
  <1>3. RepliesTrue' /\ CacheTrue'
    BY DEF TypeOK, Expire, Sound, RepliesTrue, CacheTrue, OfItsKey, Committed, Exists, At
  <1>4. ChargesKept'
    BY DEF Expire, Sound, ChargesKept, Settled, At, Committed, Exists
  <1> QED BY <1>1, <1>2, <1>3, <1>4 DEF Sound

\* findByIdempotencyKey finds a booking of the key, or none.
LEMMA LookUpKeeps == ASSUME IInv, NEW a \in Attempts, LookUp(a) PROVE IInv'
  <1>1. HandlerOnly /\ Early(a)
    BY DEF LookUp, At, Early
  <1>2. CASE Goto(a, [at |-> "new"])
    <2>1. [at |-> "new"] \in Handler
      BY DEF Handler
    <2> QED BY <1>1, <1>2, <2>1, HandlerMoves DEF Goto
  <1>3. CASE \E b \in Attempts : OfItsKey(b, KeyOf(a)) /\ Reply(a, b)
    <2>1. PICK b \in Attempts : OfItsKey(b, KeyOf(a)) /\ Reply(a, b)
      BY <1>3
    <2> DEFINE h == [at |-> "replying", reply |-> b]
    <2>2. h \in Handler
      BY DEF Handler, Replies
    <2> QED BY <1>1, <2>1, <2>2, HandlerMoves DEF Reply, Goto
  <1> QED BY <1>2, <1>3 DEF LookUp, OfItsKey

\* The listing's state is read.
LEMMA ReadListingKeeps == ASSUME IInv, NEW a \in Attempts, ReadListing(a) PROVE IInv'
  <1> DEFINE h == [at |-> "listed", mode |-> listing.offer.mode,
                   offered |-> listing.offer.quantity]
  <1>1. HandlerOnly /\ Early(a)
    BY DEF ReadListing, At, Early
  <1>2. h \in Handler
    <2>1. listing.offer.mode \in Modes /\ listing.offer.quantity \in Nat
      BY AdmissionAssumption DEF IInv, TypeOK, ListingRow
    <2> QED BY <2>1 DEF Handler
  <1>3. handler' = [handler EXCEPT ![a] = h] \/ Reply(a, Refused)
    BY DEF ReadListing, Goto
  <1> QED BY <1>1, <1>2, <1>3, HandlerMoves, RefusalKeeps

\* The blocks are read.
LEMMA CheckBlocksKeeps == ASSUME IInv, NEW a \in Attempts, CheckBlocks(a) PROVE IInv'
  <1> DEFINE h == [handler[a] EXCEPT !.at = "open"]
  <1>1. HandlerOnly /\ Early(a) /\ handler[a].at = "listed"
    BY DEF CheckBlocks, At, Early
  <1>2. handler[a] \in [at : {"listed", "open"}, mode : Modes, offered : Nat]
    BY <1>1 DEF IInv, TypeOK, Handler
  <1>3. h \in Handler /\ h.at = "open"
    BY <1>2 DEF Handler
  <1>4. handler' = [handler EXCEPT ![a] = h] \/ Reply(a, Refused)
    BY DEF CheckBlocks, Goto
  <1> QED BY <1>1, <1>3, <1>4, HandlerMoves, RefusalKeeps

\* A unit is chosen, or there is none.
LEMMA ChooseUnitKeeps == ASSUME IInv, NEW a \in Attempts, ChooseUnit(a) PROVE IInv'
  <1> DEFINE h(u) == [at |-> "chosen", mode |-> handler[a].mode,
                      offered |-> handler[a].offered, unit |-> u]
  <1>1. HandlerOnly /\ Early(a) /\ handler[a].at = "open"
    BY DEF ChooseUnit, At, Early
  <1>2. handler[a].mode \in Modes /\ handler[a].offered \in Nat
    BY <1>1 DEF IInv, TypeOK, Handler
  <1>3. (\E u \in Units : handler' = [handler EXCEPT ![a] = h(u)]) \/ Reply(a, Refused)
    BY DEF ChooseUnit, Goto, ActiveAssets, Units
  <1>4. \A u \in Units : h(u) \in Handler
    BY <1>2 DEF Handler
  <1> QED BY <1>1, <1>3, <1>4, HandlerMoves, RefusalKeeps

\* The price is read and the quote made.
LEMMA MakeQuoteKeeps == ASSUME IInv, NEW a \in Attempts, MakeQuote(a) PROVE IInv'
  <1> DEFINE w == Wanted[KeyOf(a)]
             quote == ComputeQuote(listing.offer, w.from, w.to, w.quantity)
             h == [at |-> "quoted", mode |-> handler[a].mode, offered |-> handler[a].offered,
                   unit |-> handler[a].unit, quote |-> quote]
  <1>1. HandlerOnly /\ Early(a) /\ handler[a].at = "chosen"
    BY DEF MakeQuote, At, Early
  <1>2. handler[a].mode \in Modes /\ handler[a].unit \in Units /\ handler[a].offered \in Nat
    BY <1>1 DEF IInv, TypeOK, Handler
  <1>3. quote \in Quote
    <2>1. listing.offer \in Offers
      BY DEF IInv, TypeOK, ListingRow
    <2> QED BY <2>1, AttemptHasKey, WantedType, QuoteType
  <1>4. h \in Handler
    <2> HIDE DEF quote
    <2> QED BY <1>2, <1>3 DEF Handler
  <1>5. handler' = [handler EXCEPT ![a] = h]
    BY DEF MakeQuote, Goto
  <1> QED BY <1>1, <1>4, <1>5, HandlerMoves

\* The row to be inserted is a row.
LEMMA NewRowType ==
    ASSUME TypeOK, NEW a \in Attempts, At(a, "quoted")
    PROVE  NewRow(a) \in Row /\ NewRow(a).status = "pending" /\ ~NewRow(a).committed
  <1>1. /\ handler[a].mode \in Modes /\ handler[a].unit \in Units
        /\ handler[a].quote \in Quote /\ handler[a].offered \in Nat
    BY DEF TypeOK, Handler, At
  <1>2. /\ Wanted[KeyOf(a)].from \in 0..MaxSlot
        /\ Wanted[KeyOf(a)].to \in 0..MaxSlot
        /\ Wanted[KeyOf(a)].quantity \in Nat
    BY AttemptHasKey, WantedType
  <1> QED BY <1>1, <1>2 DEF NewRow, Row

\* The insert goes through only with no row in its way, of its key or of its
\* unit and time, in the making or not.
LEMMA InsertKeeps == ASSUME IInv, NEW a \in Attempts, Insert(a) PROVE IInv'
  <1>1. At(a, "quoted") /\ Early(a) /\ UNCHANGED <<charges, lost, cache, provider, upsets>>
    BY DEF Insert, At, Early
  <1>2. CASE Reply(a, Refused) /\ UNCHANGED rows
    BY <1>1, <1>2, RefusalKeeps DEF HandlerOnly
  <1>3. CASE /\ InTheWay(a, NewRow(a)) = {}
             /\ rows' = [rows EXCEPT ![a] = NewRow(a)]
             /\ Goto(a, [at |-> "inserted"])
    <2> DEFINE r == NewRow(a)
    <2>1. r \in Row /\ r.status = "pending" /\ ~r.committed
      BY <1>1, NewRowType DEF IInv
    <2> HIDE DEF r
    <2>2. /\ rows'[a] = r /\ \A b \in Attempts : b # a => rows'[b] = rows[b]
          /\ handler'[a] = [at |-> "inserted"]
          /\ \A b \in Attempts : b # a => handler'[b] = handler[b]
      BY <1>3 DEF IInv, TypeOK, Goto, r
    <2>3. TypeOK'
      BY <1>1, <1>3, <2>1 DEF IInv, TypeOK, provider, Goto, Handler, r
    <2>4. ~Exists(a) /\ \A b \in Attempts \ {a} : Exists(b) => KeyOf(b) # KeyOf(a) /\ ~Excludes(r, rows[b])
      BY <1>1, <1>3 DEF IInv, Sound, RowsInTheMaking, InTheWay, Duplicate, r
    <2>5. /\ Exists(a)' /\ ~Committed(a)' /\ Making(a)' /\ ~Early(a)' /\ ~At(a, "charged")'
          /\ ~At(a, "charged") /\ ~Committed(a) /\ ~At(a, "replying")'
      BY <1>1, <2>1, <2>2, <2>4, RowIsSome DEF Exists, Committed, Making, Early, At
    <2>6. \A b \in Attempts : b # a => Steady(b)
      BY <2>2 DEF Steady, Exists, Committed, Making, Early, At
    <2>7. RowsInTheMaking'
      BY <2>1, <2>2, <2>5, <2>6 DEF Steady, IInv, Sound, RowsInTheMaking
    <2>8. OneRowPerKey'
      BY <2>4, <2>6 DEF Steady, IInv, Sound, OneRowPerKey
    <2>9. RepliesTrue'
      BY <1>1, <2>2, <2>5 DEF IInv, Sound, RepliesTrue, OfItsKey, Committed, Exists, At
    <2>10. CacheTrue'
      BY <1>1, <2>5, <2>6 DEF Steady, IInv, TypeOK, Sound, CacheTrue, OfItsKey
    <2>11. ChargesKept'
      BY <1>1, <2>5, <2>6 DEF Steady, IInv, Sound, ChargesKept, Settled
    <2>12. Apart'
      <3>1. \A b \in Attempts : b # a /\ Exists(b) => ~Excludes(r, rows[b]) /\ ~Excludes(rows[b], r)
        BY <2>4 DEF Excludes, SameUnit, Overlap
      <3> QED BY <2>2, <2>6, <3>1 DEF Steady, IInv, Sound, Apart
    <2> QED BY <2>3, <2>7, <2>8, <2>9, <2>10, <2>11, <2>12 DEF IInv, Sound
  <1> QED BY <1>1, <1>2, <1>3 DEF Insert

\* A charge is made for a row in the making, the only one of its key.
LEMMA ChargeKeeps == ASSUME IInv, NEW a \in Attempts, Charge(a) PROVE IInv'
  <1> USE DEF IInv
  <1>1. /\ At(a, "inserted") /\ Exists(a) /\ ~Committed(a) /\ KeyOf(a) \in Keys
        /\ UNCHANGED <<rows, lost, cache, provider, upsets>>
    BY AttemptHasKey DEF Charge, Sound, RowsInTheMaking, Making, Committed
  <1>2. /\ handler'[a] = [at |-> "charged"] /\ handler' \in [Attempts -> Handler]
        /\ \A b \in Attempts : b # a => handler'[b] = handler[b]
    BY DEF Charge, Goto, TypeOK, Handler
  <1>3. /\ charges' \in [Keys -> Nat] /\ charges'[KeyOf(a)] = charges[KeyOf(a)] + 1
        /\ \A k \in Keys : k # KeyOf(a) => charges'[k] = charges[k]
    BY <1>1 DEF Charge, TypeOK
  <1>4. TypeOK'
    BY <1>1, <1>2, <1>3 DEF TypeOK, provider
  <1>5. \A b \in Attempts : /\ Exists(b)' <=> Exists(b)
                            /\ Committed(b)' <=> Committed(b)
                            /\ Making(b)' <=> Making(b)
                            /\ Early(b)' <=> Early(b)
                            /\ b # a => (At(b, "charged")' <=> At(b, "charged"))
    BY <1>1, <1>2 DEF Exists, Committed, Making, Early, At
  <1>6. RowsInTheMaking' /\ OneRowPerKey' /\ Apart'
    BY <1>1, <1>5 DEF Sound, RowsInTheMaking, OneRowPerKey, Apart, Exists
  <1>7. RepliesTrue' /\ CacheTrue'
    BY <1>1, <1>2 DEF Sound, RepliesTrue, CacheTrue, OfItsKey, Committed, Exists, At
  <1>8. Settled(KeyOf(a)) /\ ~Settled(KeyOf(a))'
    <2>1. \A b \in Attempts : Exists(b) /\ KeyOf(b) = KeyOf(a) => b = a
      BY <1>1 DEF Sound, OneRowPerKey
    <2>2. \A b \in Attempts : At(b, "charged") => Exists(b)
      BY DEF Sound, RowsInTheMaking, Making
    <2>3. ~At(a, "charged") /\ At(a, "charged")'
      BY <1>1, <1>2 DEF At
    <2> QED BY <1>1, <2>1, <2>2, <2>3 DEF Settled, Committed
  <1>9. \A k \in Keys : k # KeyOf(a) => (Settled(k)' <=> Settled(k))
    BY <1>5 DEF Settled
  <1>10. ChargesKept'
    <2>1. \A k \in Keys : charges[k] \in Nat /\ lost[k] \in Nat /\ lost'[k] = lost[k]
      BY <1>1 DEF TypeOK
    <2> QED BY <1>1, <1>3, <1>8, <1>9, <2>1 DEF Sound, ChargesKept
  <1> QED BY <1>4, <1>6, <1>7, <1>10 DEF Sound

\* The commit makes the row, active before, a booking that may be answered.
LEMMA CommitKeeps == ASSUME IInv, NEW a \in Attempts, Commit(a) PROVE IInv'
  <1> USE DEF IInv
  <1>1. PICK status \in {"confirmed", "pending"} : Making(a) /\ CommitAs(a, status)
    BY DEF Commit, Making
  <1>2. Exists(a) /\ ~Committed(a) /\ rows[a].status = "pending" /\ rows[a] \in Row
    BY <1>1 DEF Sound, RowsInTheMaking, Committed, TypeOK, Exists
  <1> DEFINE r == [rows[a] EXCEPT !.status = status, !.committed = TRUE]
  <1>3. /\ r \in Row /\ r.committed /\ r.status = status
        /\ r.unit = rows[a].unit /\ r.from = rows[a].from /\ r.to = rows[a].to
    BY <1>2 DEF Row
  <1>4. rows' = [rows EXCEPT ![a] = r] /\ UNCHANGED <<charges, lost, cache, provider, upsets>>
    BY <1>1 DEF CommitAs
  <1> HIDE DEF r
  <1>5. /\ rows'[a] = r /\ \A b \in Attempts : b # a => rows'[b] = rows[b]
        /\ rows' \in [Attempts -> Row \cup {NoRow}]
    BY <1>3, <1>4 DEF TypeOK
  <1>6. /\ handler'[a] = [at |-> "replying", reply |-> a]
        /\ handler' \in [Attempts -> Handler]
        /\ \A b \in Attempts : b # a => handler'[b] = handler[b]
    BY <1>1 DEF CommitAs, Reply, Goto, TypeOK, Handler, Replies
  <1>7. TypeOK'
    BY <1>4, <1>5, <1>6 DEF TypeOK, provider
  <1>8. /\ Exists(a)' /\ Committed(a)' /\ ~Making(a)' /\ ~Early(a)' /\ ~At(a, "charged")'
    BY <1>3, <1>5, <1>6, RowIsSome DEF Exists, Committed, Making, Early, At
  <1>9. \A b \in Attempts : b # a => Steady(b)
    BY <1>5, <1>6 DEF Steady, Exists, Committed, Making, Early, At
  <1>10. RowsInTheMaking' /\ OneRowPerKey'
    BY <1>2, <1>3, <1>5, <1>8, <1>9 DEF Steady, Sound, RowsInTheMaking, OneRowPerKey, Committed
  <1>11. RepliesTrue' /\ CacheTrue'
    BY <1>4, <1>6, <1>8, <1>9 DEF Steady, Sound, RepliesTrue, CacheTrue, OfItsKey, At, TypeOK
  <1>12. ChargesKept'
    <2>1. ~Settled(KeyOf(a))'
      BY <1>8 DEF Settled
    <2>2. \A k \in Keys : k # KeyOf(a) => (Settled(k)' <=> Settled(k))
      BY <1>9 DEF Steady, Settled
    <2> QED BY <1>4, <2>1, <2>2 DEF Sound, ChargesKept
  <1>13. Apart'
    <2>1. \A b \in Attempts : /\ Excludes(r, rows[b]) => Excludes(rows[a], rows[b])
                              /\ Excludes(rows[b], r) => Excludes(rows[b], rows[a])
      BY <1>2, <1>3 DEF Excludes, Active, SameUnit
    <2> QED BY <1>2, <1>5, <1>9, <2>1 DEF Steady, Sound, Apart
  <1> QED BY <1>7, <1>10, <1>11, <1>12, <1>13 DEF Sound

\* What a failed transaction or a crash leaves: the rows in the making are
\* gone, each with the handler that made it, and the charge with them.
LEMMA RollBackKeeps ==
    ASSUME IInv, NEW A \in SUBSET Attempts, RollBack(A), UNCHANGED charges, TypeOK',
           \A b \in Attempts : \/ handler'[b] = handler[b] /\ (b \in A => ~Making(b))
                               \/ b \in A /\ handler'[b].at = "dead"
                               \/ b \in A /\ handler'[b] = [at |-> "replying", reply |-> Refused],
           \A k \in Keys : cache'[k] \in {cache[k], NoBooking}
    PROVE  IInv'
  <1> USE DEF IInv
  <1>1. \A b \in Attempts : rows'[b] = IF b \in A /\ ~Committed(b) THEN NoRow ELSE rows[b]
    BY DEF RollBack
  <1>2. \A b \in Attempts : /\ Exists(b)' => Exists(b) /\ rows'[b] = rows[b]
                            /\ Committed(b)' <=> Committed(b)
                            /\ Exists(b)' /\ ~Committed(b) => b \notin A
    BY <1>1 DEF Exists, Committed
  <1>3. RowsInTheMaking'
    <2> SUFFICES ASSUME NEW b \in Attempts
                 PROVE  /\ Making(b)' <=> (Exists(b)' /\ ~rows'[b].committed)
                        /\ Early(b)' => ~Exists(b)'
                        /\ Making(b)' => rows'[b].status = "pending"
      BY DEF RowsInTheMaking
    <2>1. /\ Making(b) <=> (Exists(b) /\ ~rows[b].committed)
          /\ Early(b) => ~Exists(b)
          /\ Making(b) => rows[b].status = "pending"
      BY DEF Sound, RowsInTheMaking
    <2>2. (Making(b)' \/ Early(b)') => handler'[b] = handler[b] /\ (b \in A => ~Making(b))
      BY DEF Making, Early, At
    <2>3. Making(b)' => Making(b) /\ b \notin A /\ rows'[b] = rows[b]
      BY <1>1, <2>2 DEF Making, At
    <2>4. Exists(b)' /\ ~rows'[b].committed => Making(b) /\ handler'[b] = handler[b]
      BY <1>2, <2>1 DEF Committed
    <2>5. Early(b)' => Early(b)
      BY <2>2 DEF Early
    <2> QED BY <1>2, <2>1, <2>3, <2>4, <2>5 DEF Making, At, Exists
  <1>4. OneRowPerKey' /\ Apart'
    BY <1>2 DEF Sound, OneRowPerKey, Apart
  <1>5. RepliesTrue'
    <2> SUFFICES ASSUME NEW b \in Attempts, At(b, "replying")', handler'[b].reply \in Attempts
                 PROVE  OfItsKey(handler[b].reply, KeyOf(b))'
      BY DEF RepliesTrue
    <2>1. handler'[b] = handler[b]
      BY NotAttempts DEF At
    <2> QED BY <1>2, <2>1 DEF Sound, RepliesTrue, OfItsKey, At
  <1>6. CacheTrue'
    BY <1>2 DEF TypeOK, Sound, CacheTrue, OfItsKey
  <1>7. ChargesKept'
    <2> SUFFICES ASSUME NEW k \in Keys
                 PROVE  charges[k] <= 1 + lost'[k] /\ (Settled(k)' => charges[k] <= lost'[k])
      BY DEF ChargesKept
    <2>1. /\ charges[k] \in Nat /\ lost[k] \in Nat
          /\ charges[k] <= 1 + lost[k] /\ (Settled(k) => charges[k] <= lost[k])
      BY DEF TypeOK, Sound, ChargesKept
    <2>2. CASE \E b \in A : KeyOf(b) = k /\ At(b, "charged")
      BY <2>1, <2>2 DEF RollBack
    <2>3. CASE ~\E b \in A : KeyOf(b) = k /\ At(b, "charged")
      <3>1. lost'[k] = lost[k]
        BY <2>3 DEF RollBack
      <3>2. \A b \in Attempts : KeyOf(b) = k /\ At(b, "charged") => At(b, "charged")'
        BY <2>3 DEF At
      <3>3. Settled(k)' => Settled(k)
        BY <1>2, <3>2 DEF Settled
      <3> QED BY <2>1, <3>1, <3>3
    <2> QED BY <2>2, <2>3
  <1> QED BY <1>3, <1>4, <1>5, <1>6, <1>7 DEF Sound

\* A rollback keeps the types.
LEMMA RollBackType ==
    ASSUME TypeOK, NEW A \in SUBSET Attempts, RollBack(A)
    PROVE  rows' \in [Attempts -> Row \cup {NoRow}] /\ lost' \in [Keys -> Nat]
  BY DEF TypeOK, RollBack

\* A transaction fails.
LEMMA AbortKeeps == ASSUME IInv, NEW a \in Attempts, Abort(a) PROVE IInv'
  <1> DEFINE h == [at |-> "replying", reply |-> Refused]
  <1>1. /\ RollBack({a}) /\ handler' = [handler EXCEPT ![a] = h]
        /\ UNCHANGED <<charges, cache, provider>> /\ upsets' = upsets + 1 /\ upsets < MaxUpsets
    BY DEF Abort, Upset, Reply, Goto
  <1>2. h \in Handler
    BY DEF Handler, Replies
  <1>3. handler' \in [Attempts -> Handler] /\ handler'[a] = h
        /\ \A b \in Attempts : b # a => handler'[b] = handler[b]
    BY <1>1, <1>2 DEF IInv, TypeOK
  <1>4. TypeOK'
    BY <1>1, <1>3, RollBackType, AdmissionAssumption DEF IInv, TypeOK, provider
  <1> QED BY <1>1, <1>3, <1>4, RollBackKeeps

\* The process dies.
LEMMA CrashKeeps == ASSUME IInv, Crash PROVE IInv'
  <1>1. /\ RollBack(Attempts) /\ UNCHANGED <<charges, provider>>
        /\ upsets' = upsets + 1 /\ upsets < MaxUpsets
        /\ handler' = [a \in Attempts |-> IF InFlight(a) THEN [at |-> "dead"] ELSE handler[a]]
        /\ cache' = [k \in Keys |-> NoBooking]
    BY DEF Crash, Upset
  <1>2. [at |-> "dead"] \in Handler
    BY DEF Handler
  <1>3. TypeOK'
    BY <1>1, <1>2, RollBackType, AdmissionAssumption DEF IInv, TypeOK, provider
  <1>4. \A b \in Attempts : \/ handler'[b] = handler[b] /\ ~Making(b)
                            \/ handler'[b].at = "dead"
    BY <1>1 DEF InFlight, Making, At
  <1> QED BY <1>1, <1>3, <1>4, RollBackKeeps

\* A booking is released: it stays the booking of its key.
LEMMA ReleaseKeeps == ASSUME IInv, NEW a \in Attempts, Release(a) PROVE IInv'
  <1> USE DEF IInv
  <1> DEFINE r == [rows[a] EXCEPT !.status = "cancelled"]
  <1>1. /\ Committed(a) /\ Active(rows[a]) /\ rows' = [rows EXCEPT ![a] = r]
        /\ UNCHANGED <<handler, charges, lost, cache, provider>>
        /\ upsets' = upsets + 1 /\ upsets < MaxUpsets
    BY DEF Release, Upset
  <1>2. r \in Row /\ r.committed /\ ~Active(r)
    BY <1>1 DEF TypeOK, Committed, Exists, Row, Active
  <1> HIDE DEF r
  <1>3. /\ rows'[a] = r /\ \A b \in Attempts : b # a => rows'[b] = rows[b]
        /\ rows' \in [Attempts -> Row \cup {NoRow}]
    BY <1>1, <1>2 DEF TypeOK
  <1>4. TypeOK'
    BY <1>1, <1>3, AdmissionAssumption DEF TypeOK, provider
  <1>5. \A b \in Attempts : Steady(b)
    BY <1>1, <1>2, <1>3, RowIsSome DEF Steady, Exists, Committed, Making, Early, At
  <1>6. RowsInTheMaking'
    BY <1>1, <1>3, <1>5 DEF Steady, Sound, RowsInTheMaking, Committed
  <1>7. OneRowPerKey' /\ ChargesKept'
    BY <1>1, <1>5 DEF Steady, Sound, OneRowPerKey, ChargesKept, Settled
  <1>8. RepliesTrue' /\ CacheTrue'
    BY <1>1, <1>5 DEF Steady, TypeOK, Sound, RepliesTrue, CacheTrue, OfItsKey, At
  <1>9. Apart'
    BY <1>2, <1>3, <1>5 DEF Steady, Sound, Apart, Excludes
  <1> QED BY <1>4, <1>6, <1>7, <1>8, <1>9 DEF Sound

\* What the provider does touches no booking.
LEMMA EditKeeps ==
    ASSUME IInv, Edit, listing' \in ListingRow,
           assets' \in [AssetIds -> AssetStatuses \cup {"absent"}], blocks' \subseteq Blockable
    PROVE  IInv'
  <1> USE DEF IInv, Edit, Upset
  <1>1. TypeOK'
    BY AdmissionAssumption DEF TypeOK
  <1>2. RowsInTheMaking' /\ OneRowPerKey' /\ Apart'
    BY DEF Sound, RowsInTheMaking, Making, Early, At, OneRowPerKey, Apart, Exists
  <1>3. RepliesTrue' /\ CacheTrue' /\ ChargesKept'
    BY DEF Sound, RepliesTrue, CacheTrue, ChargesKept, OfItsKey, Settled, Committed, Exists, At
  <1> QED BY <1>1, <1>2, <1>3 DEF Sound

\* Every step keeps the invariant.
LEMMA StepKeeps == ASSUME IInv, [Next]_vars PROVE IInv'
  <1>1. CASE UNCHANGED vars
    <2>1. TypeOK'
      BY <1>1 DEF IInv, TypeOK, vars, provider
    <2>2. RowsInTheMaking' /\ OneRowPerKey' /\ Apart'
      BY <1>1 DEF IInv, vars, Sound, RowsInTheMaking, Making, Early, At, OneRowPerKey, Apart, Exists
    <2>3. RepliesTrue' /\ CacheTrue' /\ ChargesKept'
      BY <1>1 DEF IInv, vars, Sound, RepliesTrue, CacheTrue, ChargesKept, OfItsKey, Settled, Committed,
         Exists, At
    <2> QED BY <2>1, <2>2, <2>3 DEF IInv, Sound
  <1>2. ASSUME NEW a \in Attempts, Handle(a) PROVE IInv'
    BY <1>2, LookUpKeeps, ReadListingKeeps, CheckBlocksKeeps, ChooseUnitKeeps, MakeQuoteKeeps,
       InsertKeeps, ChargeKeeps, CommitKeeps, RespondKeeps DEF Handle
  <1>3. ASSUME NEW a \in Attempts, Send(a) \/ Abort(a) \/ Release(a) PROVE IInv'
    BY <1>3, SendKeeps, AbortKeeps, ReleaseKeeps
  <1>4. CASE CreateBlock \/ CreateAsset \/ UpdateAsset \/ UpdateListing
    <2>1. /\ Edit /\ listing' \in ListingRow
          /\ assets' \in [AssetIds -> AssetStatuses \cup {"absent"}] /\ blocks' \subseteq Blockable
      BY <1>4 DEF IInv, TypeOK, CreateBlock, CreateAsset, UpdateAsset, UpdateListing, AssetStatuses
    <2> QED BY <2>1, EditKeeps
  <1> QED BY <1>1, <1>2, <1>3, <1>4, ExpireKeeps, CrashKeeps DEF Next

---------------------------------------------------------------------------
(* The invariants of the run, for any instance. *)

\* The invariant holds throughout.
THEOREM Inductive == Spec => []IInv
  <1>1. IInv /\ [Next]_vars => IInv'
    BY StepKeeps
  <1> QED BY Initially, <1>1, PTL DEF Spec

\* Every variable keeps its type: a handler never stands where its locals
\* do not fit, a quote is never negative, a block is never a stranger.
THEOREM Typed == Spec => []TypeOK
  <1>1. IInv => TypeOK
    BY DEF IInv
  <1> QED BY Inductive, <1>1, PTL

\* However many retries race, through however many crashes, a checkout is
\* charged at most once more than charges were lost with their transactions.
THEOREM NeverChargedTwice == Spec => []ChargedOncePerKey
  <1>1. IInv => ChargedOncePerKey
    BY DEF IInv, Sound, ChargesKept, ChargedOncePerKey
  <1> QED BY Inductive, <1>1, PTL

\* Every answer that names a booking names the only one of its checkout.
THEOREM OneAnswer == Spec => []AnswersAgree
  <1>1. IInv => AnswersAgree
    <2> SUFFICES ASSUME IInv, NEW a \in Attempts, At(a, "replying"), handler[a].reply \in Attempts
                 PROVE  {b \in Attempts : Committed(b) /\ KeyOf(b) = KeyOf(a)} = {handler[a].reply}
      BY DEF AnswersAgree
    <2>1. Committed(handler[a].reply) /\ KeyOf(handler[a].reply) = KeyOf(a)
      BY DEF IInv, Sound, RepliesTrue, OfItsKey
    <2>2. \A b \in Attempts : Committed(b) /\ KeyOf(b) = KeyOf(a) => b = handler[a].reply
      BY <2>1 DEF IInv, Sound, OneRowPerKey, Committed
    <2> QED BY <2>1, <2>2
  <1> QED BY Inductive, <1>1, PTL

---------------------------------------------------------------------------
(* The calendar. *)

\* Where the bookings stay, the calendar stays.
LEMMA CalendarStays ==
    ASSUME \A b \in Attempts : /\ Committed(b)' <=> Committed(b)
                               /\ Committed(b) => rows'[b] = rows[b]
    PROVE  UNCHANGED <<Grants, Spent>>
  BY DEF Grants, Spent

\* A commit admits one checkout, to a window no grant is in the way of.
LEMMA CommitAdmits ==
    ASSUME IInv, NEW a \in Attempts, Commit(a)
    PROVE  Calendar!Admit
  <1> USE DEF IInv
  <1>1. PICK status \in {"confirmed", "pending"} : Making(a) /\ CommitAs(a, status)
    BY DEF Commit, Making
  <1>2. Exists(a) /\ ~Committed(a) /\ rows[a].status = "pending" /\ rows[a] \in Row
    BY <1>1 DEF Sound, RowsInTheMaking, Committed, TypeOK, Exists
  <1> DEFINE r == [rows[a] EXCEPT !.status = status, !.committed = TRUE]
             k == KeyOf(a)
             w == [unit |-> rows[a].unit, from |-> rows[a].from, to |-> rows[a].to]
  <1>3. /\ r \in Row /\ r.committed /\ Active(r) /\ Active(rows[a])
        /\ r.unit = rows[a].unit /\ r.from = rows[a].from /\ r.to = rows[a].to
        /\ w \in Calendar!Windows
    BY <1>2 DEF Row, Active, Calendar!Windows
  <1>4. rows'[a] = r /\ \A b \in Attempts : b # a => rows'[b] = rows[b]
    BY <1>1 DEF CommitAs, TypeOK
  <1> HIDE DEF r
  <1>5. Committed(a)' /\ \A b \in Attempts : b # a => (Committed(b)' <=> Committed(b))
    BY <1>3, <1>4, RowIsSome DEF Committed, Exists
  <1>6. k \in Keys \ Spent
    BY <1>2, AttemptHasKey DEF Sound, OneRowPerKey, Spent, Committed
  <1>7. Spent' = Spent \cup {k}
    BY <1>5 DEF Spent
  <1>8. Grants' = Grants \cup {Calendar!Grant(k, w)}
    <2> DEFINE g(b) == [key |-> KeyOf(b), unit |-> rows[b].unit, from |-> rows[b].from, to |-> rows[b].to]
               gNew(b) == [key |-> KeyOf(b), unit |-> rows'[b].unit, from |-> rows'[b].from,
                           to |-> rows'[b].to]
               B == {b \in Attempts : Committed(b) /\ Active(rows[b])}
    <2>1. Grants = {g(b) : b \in B} /\ Grants' = {gNew(b) : b \in B'}
      BY DEF Grants
    <2>2. B' = B \cup {a}
      BY <1>3, <1>4, <1>5 DEF Active
    <2>3. \A b \in B : gNew(b) = g(b)
      BY <1>2, <1>4
    <2>4. gNew(a) = Calendar!Grant(k, w)
      BY <1>3, <1>4 DEF Calendar!Grant
    <2> HIDE DEF g, gNew, B
    <2> QED BY <2>1, <2>2, <2>3, <2>4
  <1>9. \A h \in Grants : ~Calendar!Clash(w, h)
    <2> SUFFICES ASSUME NEW b \in Attempts, Committed(b), Active(rows[b])
                 PROVE  ~Calendar!Clash(w, [key |-> KeyOf(b), unit |-> rows[b].unit,
                                            from |-> rows[b].from, to |-> rows[b].to])
      BY DEF Grants
    <2>1. ~Excludes(rows[a], rows[b])
      BY <1>2 DEF Sound, Apart, Committed
    <2> QED BY <1>3, <2>1 DEF Excludes, SameUnit, Overlap, Calendar!Clash
  <1> QED BY <1>3, <1>6, <1>7, <1>8, <1>9 DEF Calendar!Admit

\* A release gives back the grant of its booking and of no other.
LEMMA ReleaseGivesBack ==
    ASSUME IInv, NEW a \in Attempts, Release(a)
    PROVE  Calendar!GiveBack
  <1> USE DEF IInv
  <1> DEFINE r == [rows[a] EXCEPT !.status = "cancelled"]
             g(b) == [key |-> KeyOf(b), unit |-> rows[b].unit, from |-> rows[b].from, to |-> rows[b].to]
             gNew(b) == [key |-> KeyOf(b), unit |-> rows'[b].unit, from |-> rows'[b].from,
                         to |-> rows'[b].to]
             B == {b \in Attempts : Committed(b) /\ Active(rows[b])}
  <1>1. Committed(a) /\ Active(rows[a]) /\ rows' = [rows EXCEPT ![a] = r]
    BY DEF Release
  <1>2. r \in Row /\ r.committed /\ ~Active(r)
    BY <1>1 DEF TypeOK, Committed, Exists, Row, Active
  <1> HIDE DEF r
  <1>3. rows'[a] = r /\ \A b \in Attempts : b # a => rows'[b] = rows[b]
    BY <1>1 DEF TypeOK
  <1>4. \A b \in Attempts : Committed(b)' <=> Committed(b)
    BY <1>1, <1>2, <1>3, RowIsSome DEF Committed, Exists
  <1>5. UNCHANGED Spent
    BY <1>4 DEF Spent
  <1>6. B' = B \ {a} /\ a \in B
    BY <1>1, <1>2, <1>3, <1>4 DEF Active
  <1>7. \A b \in B : b # a => gNew(b) = g(b) /\ g(b) # g(a)
    BY <1>1, <1>3 DEF Sound, OneRowPerKey, Committed
  <1>8. Grants = {g(b) : b \in B} /\ Grants' = {gNew(b) : b \in B'}
    BY DEF Grants
  <1>9. Grants' = Grants \ {g(a)} /\ g(a) \in Grants
    <2> HIDE DEF g, gNew, B
    <2> QED BY <1>6, <1>7, <1>8
  <1> QED BY <1>5, <1>9 DEF Calendar!GiveBack

\* No other step changes anything of the calendar.
LEMMA OthersStay ==
    ASSUME IInv, [Next]_vars,
           \A a \in Attempts : ~Commit(a) /\ ~Release(a)
    PROVE  UNCHANGED <<Grants, Spent>>
  <1>1. CASE UNCHANGED rows
    BY <1>1, CalendarStays DEF Committed, Exists
  <1>2. ASSUME NEW a \in Attempts, Insert(a) PROVE UNCHANGED <<Grants, Spent>>
    <2>1. /\ ~Committed(a)
          /\ UNCHANGED rows \/ (rows' = [rows EXCEPT ![a] = NewRow(a)] /\ ~NewRow(a).committed)
      BY <1>2 DEF Insert, NewRow, IInv, Sound, RowsInTheMaking, Early, At, Committed
    <2> QED BY <1>1, <2>1, CalendarStays DEF IInv, TypeOK, Committed, Exists
  <1>3. ASSUME NEW A \in SUBSET Attempts, RollBack(A) PROVE UNCHANGED <<Grants, Spent>>
    BY <1>3, CalendarStays DEF RollBack, Committed, Exists
  <1>4. \/ UNCHANGED rows \/ \E a \in Attempts : Insert(a)
        \/ \E A \in SUBSET Attempts : RollBack(A)
    <2>1. ASSUME NEW a \in Attempts, Send(a) \/ Handle(a) PROVE UNCHANGED rows \/ Insert(a)
      BY <2>1 DEF Send, Handle, LookUp, ReadListing, CheckBlocks, ChooseUnit, MakeQuote, HandlerOnly,
         Charge, Respond
    <2>2. ASSUME NEW a \in Attempts, Abort(a) PROVE \E A \in SUBSET Attempts : RollBack(A)
      BY <2>2 DEF Abort
    <2>3. Crash => \E A \in SUBSET Attempts : RollBack(A)
      BY DEF Crash
    <2>4. ASSUME NEW k \in Keys, Expire(k) PROVE UNCHANGED rows
      BY <2>4 DEF Expire
    <2>5. CreateBlock \/ CreateAsset \/ UpdateAsset \/ UpdateListing \/ UNCHANGED vars => UNCHANGED rows
      BY DEF CreateBlock, CreateAsset, UpdateAsset, UpdateListing, Edit, vars
    <2> QED BY <2>1, <2>2, <2>3, <2>4, <2>5 DEF Next
  <1> QED BY <1>1, <1>2, <1>3, <1>4

\* Admission implements the calendar, for any number of racing checkouts.
THEOREM Refinement == Spec => ImplementsCalendar
  <1>1. Init => Calendar!Init
    BY DEF Init, Calendar!Init, Grants, Spent, Committed, Exists
  <1>2. IInv /\ [Next]_vars => [Calendar!Next]_<<Grants, Spent>>
    BY CommitAdmits, ReleaseGivesBack, OthersStay DEF Calendar!Next
  <1> QED BY Inductive, <1>1, <1>2, PTL DEF Spec, ImplementsCalendar, Calendar!Spec

---------------------------------------------------------------------------
(* The quantity of the listing. *)

\* A request that takes the listing as a whole asks for no more of it than
\* there was when it read, whatever is booked next to it.
AsksForNoMore(a) ==
    handler[a].at \in {"chosen", "quoted"} /\ handler[a].unit = Whole =>
        Wanted[KeyOf(a)].quantity <= handler[a].offered

\* Nor does a booking.
HoldsNoMore(a) == Exists(a) /\ rows[a].unit = Whole => rows[a].quantity <= rows[a].offered

\* The table is finite, though the attempts need not be.
Standing == {a \in Attempts : Exists(a)}

FitsQuantity ==
    /\ \A a \in Attempts : AsksForNoMore(a)
    /\ \A a \in Attempts : HoldsNoMore(a)
    /\ IsFiniteSet(Standing)

Quantities == [a \in Attempts |-> rows[a].quantity]

\* What the code adds up of the rows in A is the sum of their quantities.
LEMMA QuantitySum ==
    ASSUME NEW A, IsFiniteSet(A), A \subseteq Attempts
    PROVE  MapThenSumSet(LAMBDA b : rows[b].quantity, A) = SumOf(Quantities, A)
  <1> DEFINE Folded(k) == [s \in SUBSET A |->
                           IF s = {} THEN 0 ELSE rows[Picked(s)].quantity + k[s \ {Picked(s)}]]
  <1>1. PICK h : Sums(h, Quantities, A) /\ SumOf(Quantities, A) = h[A]
    BY SumOfIs
  <1>2. ASSUME NEW s \in SUBSET A, s # {}
        PROVE  Quantities[Picked(s)] = rows[Picked(s)].quantity
    BY <1>2 DEF Picked, Quantities
  <1>3. \A k : Sums(k, Quantities, A) <=> k = Folded(k)
    BY <1>2 DEF Sums
  <1>4. MapThenSumSet(LAMBDA b : rows[b].quantity, A) = (CHOOSE k : k = Folded(k))[A]
    BY DEF MapThenSumSet, MapThenFoldSet, Picked
  <1> HIDE DEF Folded
  <1>5. PICK k : k = CHOOSE x : x = Folded(x)
    OBVIOUS
  <1>6. k = Folded(k)
    BY <1>1, <1>3, <1>5
  <1>7. Sums(k, Quantities, A)
    BY <1>3, <1>6
  <1>8. h[A] = k[A]
    BY <1>1, <1>7, SumsUnique
  <1> QED BY <1>1, <1>4, <1>5, <1>8

\* What is booked around a window is a number, and no debt.
LEMMA BookedQuantityType ==
    ASSUME TypeOK, FitsQuantity, NEW w
    PROVE  getBookedQuantity(w) \in Nat
  <1>1. Around(w) \subseteq Standing /\ Standing \subseteq Attempts
    BY DEF Around, Standing, Committed
  <1>2. IsFiniteSet(Around(w))
    BY <1>1, FS_Subset DEF FitsQuantity
  <1>3. \A b \in Around(w) : Quantities[b] \in Nat
    BY <1>1 DEF Standing, Exists, TypeOK, Row, Quantities
  <1>4. SumOf(Quantities, Around(w)) \in Nat
    BY <1>2, <1>3, SumOfType
  <1> QED BY <1>1, <1>2, <1>4, QuantitySum DEF getBookedQuantity

\* The invariant holds at the start.
LEMMA FitsInit == Init => FitsQuantity
  <1> SUFFICES ASSUME Init PROVE FitsQuantity
    OBVIOUS
  <1>1. \A a \in Attempts : AsksForNoMore(a) /\ HoldsNoMore(a)
    BY DEF Init, AsksForNoMore, HoldsNoMore, Exists
  <1>2. Standing = {}
    BY DEF Init, Standing, Exists
  <1> QED BY <1>1, <1>2, FS_EmptySet DEF FitsQuantity

\* A row that is not new is as large as it was, and of the same unit.
RowsAsLarge ==
    \A b \in Attempts : Exists(b)' => /\ Exists(b)
                                      /\ rows'[b].unit = rows[b].unit
                                      /\ rows'[b].quantity = rows[b].quantity
                                      /\ rows'[b].offered = rows[b].offered

\* A handler stands where it stood, or holds no unit.
HandlersHoldNoUnit ==
    \A b \in Attempts : handler'[b] = handler[b] \/ handler'[b].at \notin {"chosen", "quoted"}

\* Where no row grows, every row holds what is there.
LEMMA RowsStayLarge ==
    ASSUME FitsQuantity, RowsAsLarge
    PROVE  (\A b \in Attempts : HoldsNoMore(b)') /\ IsFiniteSet(Standing')
  <1>1. Standing' \subseteq Standing
    BY DEF RowsAsLarge, Standing
  <1>2. IsFiniteSet(Standing')
    BY <1>1, FS_Subset DEF FitsQuantity
  <1>3. \A b \in Attempts : HoldsNoMore(b)'
    BY DEF FitsQuantity, RowsAsLarge, HoldsNoMore
  <1> QED BY <1>2, <1>3

\* Where no handler takes a unit either, the invariant stays.
LEMMA FitsStays ==
    ASSUME FitsQuantity, RowsAsLarge, HandlersHoldNoUnit
    PROVE  FitsQuantity'
  <1>1. \A b \in Attempts : AsksForNoMore(b)'
    BY DEF FitsQuantity, HandlersHoldNoUnit, AsksForNoMore
  <1> QED BY <1>1, RowsStayLarge DEF FitsQuantity

\* Rows that are not written stay as large.
LEMMA RowsUntouched == UNCHANGED rows => RowsAsLarge
  BY DEF RowsAsLarge, Exists

\* The unit is chosen with room for all that is asked for.
LEMMA ChooseUnitFits ==
    ASSUME TypeOK, FitsQuantity, NEW a \in Attempts, ChooseUnit(a)
    PROVE  FitsQuantity'
  <1>1. UNCHANGED rows
    BY DEF ChooseUnit, HandlerOnly
  <1> DEFINE w == Wanted[KeyOf(a)]
             h(u) == [at |-> "chosen", mode |-> handler[a].mode,
                      offered |-> handler[a].offered, unit |-> u]
  <1>2. \/ \E u \in AssetIds : handler' = [handler EXCEPT ![a] = h(u)]
        \/ /\ handler' = [handler EXCEPT ![a] = h(Whole)]
           /\ getBookedQuantity(w) + w.quantity <= handler[a].offered
        \/ handler' = [handler EXCEPT ![a] = [at |-> "replying", reply |-> Refused]]
    BY DEF ChooseUnit, Goto, Reply, ActiveAssets
  <1>3. \A u \in AssetIds : u # Whole
    BY AdmissionAssumption DEF AssetIds, Whole
  <1>4. getBookedQuantity(w) \in Nat /\ w.quantity \in Nat /\ handler[a].offered \in Nat
    <2>1. handler[a].offered \in Nat
      BY DEF ChooseUnit, At, TypeOK, Handler
    <2> QED BY <2>1, BookedQuantityType, AttemptHasKey, WantedType
  <1> HIDE DEF w
  <1>5. getBookedQuantity(w) + w.quantity <= handler[a].offered
          => w.quantity <= handler[a].offered
    BY <1>4
  <1>6. AsksForNoMore(a)'
    BY <1>2, <1>3, <1>5 DEF TypeOK, AsksForNoMore, w
  <1>7. \A b \in Attempts : b # a => AsksForNoMore(b)'
    BY <1>2 DEF TypeOK, FitsQuantity, AsksForNoMore
  <1> QED BY <1>1, <1>6, <1>7, RowsUntouched, RowsStayLarge DEF FitsQuantity

\* The quote is made for the unit chosen.
LEMMA MakeQuoteFits ==
    ASSUME TypeOK, FitsQuantity, NEW a \in Attempts, MakeQuote(a)
    PROVE  FitsQuantity'
  <1>1. UNCHANGED rows /\ handler[a].at = "chosen"
    BY DEF MakeQuote, HandlerOnly, At
  <1>2. PICK q : handler' = [handler EXCEPT ![a] =
                    [at |-> "quoted", mode |-> handler[a].mode, offered |-> handler[a].offered,
                     unit |-> handler[a].unit, quote |-> q]]
    BY DEF MakeQuote, Goto
  <1>3. \A b \in Attempts : AsksForNoMore(b)'
    BY <1>1, <1>2 DEF TypeOK, FitsQuantity, AsksForNoMore
  <1> QED BY <1>1, <1>3, RowsUntouched, RowsStayLarge DEF FitsQuantity

\* The row inserted is of the unit chosen.
LEMMA InsertFits ==
    ASSUME TypeOK, FitsQuantity, NEW a \in Attempts, Insert(a)
    PROVE  FitsQuantity'
  <1>1. CASE UNCHANGED rows /\ Reply(a, Refused)
    <2>1. HandlersHoldNoUnit
      BY <1>1 DEF TypeOK, HandlersHoldNoUnit, Reply, Goto
    <2> QED BY <1>1, <2>1, RowsUntouched, FitsStays
  <1>2. CASE /\ rows' = [rows EXCEPT ![a] = NewRow(a)]
             /\ Goto(a, [at |-> "inserted"])
    <2>1. \A b \in Attempts : AsksForNoMore(b)'
      BY <1>2 DEF TypeOK, FitsQuantity, AsksForNoMore, Goto
    <2>2. NewRow(a).unit = Whole => NewRow(a).quantity <= NewRow(a).offered
      BY DEF Insert, At, FitsQuantity, AsksForNoMore, NewRow
    <2>3. rows'[a] = NewRow(a) /\ \A b \in Attempts : b # a => rows'[b] = rows[b]
      BY <1>2 DEF TypeOK
    <2>4. \A b \in Attempts : HoldsNoMore(b)'
      BY <2>2, <2>3 DEF FitsQuantity, HoldsNoMore, Exists
    <2>5. Standing' \subseteq Standing \cup {a}
      BY <2>3 DEF Standing, Exists
    <2>6. IsFiniteSet(Standing')
      BY <2>5, FS_AddElement, FS_Subset DEF FitsQuantity
    <2> QED BY <2>1, <2>4, <2>6 DEF FitsQuantity
  <1> QED BY <1>1, <1>2 DEF Insert

\* A commit changes nothing but the status of a row.
LEMMA CommitFits ==
    ASSUME IInv, FitsQuantity, NEW a \in Attempts, Commit(a)
    PROVE  FitsQuantity'
  <1>1. PICK status \in {"confirmed", "pending"} : Making(a) /\ CommitAs(a, status)
    BY DEF Commit, Making
  <1>2. rows[a] \in Row /\ Exists(a)
    BY <1>1 DEF IInv, TypeOK, Sound, RowsInTheMaking, Exists
  <1>3. rows' = [rows EXCEPT ![a] = [rows[a] EXCEPT !.status = status, !.committed = TRUE]]
    BY <1>1 DEF CommitAs
  <1>4. RowsAsLarge
    BY <1>2, <1>3 DEF IInv, TypeOK, RowsAsLarge, Row, Exists
  <1>5. HandlersHoldNoUnit
    BY <1>1 DEF IInv, TypeOK, HandlersHoldNoUnit, CommitAs, Reply, Goto
  <1> QED BY <1>4, <1>5, FitsStays

\* Nor does a release.
LEMMA ReleaseFits ==
    ASSUME IInv, FitsQuantity, NEW a \in Attempts, Release(a)
    PROVE  FitsQuantity'
  <1>1. rows[a] \in Row /\ Exists(a)
    BY DEF IInv, TypeOK, Release, Committed, Exists
  <1>2. rows' = [rows EXCEPT ![a] = [rows[a] EXCEPT !.status = "cancelled"]] /\ UNCHANGED handler
    BY DEF Release
  <1>3. RowsAsLarge
    BY <1>1, <1>2 DEF IInv, TypeOK, RowsAsLarge, Row, Exists
  <1>4. HandlersHoldNoUnit
    BY <1>2 DEF HandlersHoldNoUnit
  <1> QED BY <1>3, <1>4, FitsStays

\* A rollback leaves rows as they are, or none.
LEMMA RollBackFits ==
    ASSUME FitsQuantity, NEW A \in SUBSET Attempts, RollBack(A), HandlersHoldNoUnit
    PROVE  FitsQuantity'
  <1>1. RowsAsLarge
    BY DEF RollBack, RowsAsLarge, Exists
  <1> QED BY <1>1, FitsStays

\* A transaction fails.
LEMMA AbortFits ==
    ASSUME IInv, FitsQuantity, NEW a \in Attempts, Abort(a)
    PROVE  FitsQuantity'
  <1>1. HandlersHoldNoUnit
    BY DEF IInv, TypeOK, Abort, Reply, Goto, HandlersHoldNoUnit
  <1> QED BY <1>1, RollBackFits DEF Abort

\* The process dies.
LEMMA CrashFits == ASSUME IInv, FitsQuantity, Crash PROVE FitsQuantity'
  <1>1. HandlersHoldNoUnit
    BY DEF IInv, TypeOK, Crash, HandlersHoldNoUnit
  <1> QED BY <1>1, RollBackFits DEF Crash

\* To go where no unit is held.
LEMMA GotoFits ==
    ASSUME TypeOK, FitsQuantity, UNCHANGED rows,
           NEW a \in Attempts, NEW h, h.at \notin {"chosen", "quoted"}, Goto(a, h)
    PROVE  FitsQuantity'
  <1>1. HandlersHoldNoUnit
    BY DEF TypeOK, HandlersHoldNoUnit, Goto
  <1> QED BY <1>1, RowsUntouched, FitsStays

\* The other steps of a handler choose nothing and write no row.
LEMMA OtherHandlingFits ==
    ASSUME TypeOK, FitsQuantity, NEW a \in Attempts,
           Send(a) \/ LookUp(a) \/ ReadListing(a) \/ CheckBlocks(a) \/ Charge(a) \/ Respond(a)
    PROVE  FitsQuantity'
  <1>1. UNCHANGED rows
    BY DEF Send, LookUp, ReadListing, CheckBlocks, Charge, Respond, HandlerOnly
  <1>2. \A where \in {"received", "new", "charged", "done"} : Goto(a, [at |-> where]) => FitsQuantity'
    BY <1>1, GotoFits
  <1>3. \A r : Goto(a, [at |-> "replying", reply |-> r]) => FitsQuantity'
    BY <1>1, GotoFits
  <1>4. \A m, n : Goto(a, [at |-> "listed", mode |-> m, offered |-> n]) => FitsQuantity'
    BY <1>1, GotoFits
  <1>5. CASE CheckBlocks(a)
    <2>1. handler[a] \in [at : {"listed", "open"}, mode : Modes, offered : Nat]
      BY <1>5 DEF TypeOK, Handler, CheckBlocks, At
    <2>2. [handler[a] EXCEPT !.at = "open"].at = "open"
      BY <2>1
    <2>3. Goto(a, [handler[a] EXCEPT !.at = "open"]) \/ Reply(a, Refused)
      BY <1>5 DEF CheckBlocks
    <2> QED BY <1>1, <1>3, <2>2, <2>3, GotoFits DEF Reply
  <1> QED BY <1>2, <1>3, <1>4, <1>5 DEF Send, LookUp, ReadListing, Charge, Respond, Reply

\* Every step keeps it.
LEMMA FitsNext == ASSUME IInv, FitsQuantity, [Next]_vars PROVE FitsQuantity'
  <1>1. ASSUME UNCHANGED <<handler, rows>> PROVE FitsQuantity'
    <2>1. HandlersHoldNoUnit
      BY <1>1 DEF HandlersHoldNoUnit
    <2> QED BY <1>1, <2>1, RowsUntouched, FitsStays
  <1>2. CASE UNCHANGED vars
    BY <1>1, <1>2 DEF vars
  <1>3. ASSUME NEW a \in Attempts, Send(a) \/ Handle(a) \/ Abort(a) \/ Release(a) PROVE FitsQuantity'
    BY <1>3, ChooseUnitFits, MakeQuoteFits, InsertFits, CommitFits, ReleaseFits, AbortFits,
       OtherHandlingFits DEF Handle, IInv
  <1>4. CASE CreateBlock \/ CreateAsset \/ UpdateAsset \/ UpdateListing
    BY <1>1, <1>4 DEF CreateBlock, CreateAsset, UpdateAsset, UpdateListing, Edit
  <1>5. ASSUME NEW k \in Keys, Expire(k) PROVE FitsQuantity'
    BY <1>1, <1>5 DEF Expire
  <1> QED BY <1>2, <1>3, <1>4, <1>5, CrashFits DEF Next

\* At no instant is more of the listing booked than there was when any one of
\* those bookings was admitted, though the owner may change what there is at
\* any time.
THEOREM NeverOversold == Spec => []QuantityNeverOversold
  <1>1. IInv /\ FitsQuantity => QuantityNeverOversold
    <2> DEFINE AtOnce(t) == {a \in Attempts : /\ Committed(a) /\ Active(rows[a]) /\ rows[a].unit = Whole
                                              /\ rows[a].from <= t /\ t < rows[a].to}
    <2> SUFFICES ASSUME IInv, FitsQuantity, NEW t \in 0..MaxSlot, NEW c \in AtOnce(t)
                 PROVE  MapThenSumSet(LAMBDA b : rows[b].quantity, AtOnce(t)) <= rows[c].offered
      BY DEF QuantityNeverOversold
    <2> HIDE DEF AtOnce
    <2> DEFINE atOnce == {a \in Attempts : /\ Committed(a) /\ Active(rows[a]) /\ rows[a].unit = Whole
                                           /\ rows[a].from <= t /\ t < rows[a].to}
    <2>1. atOnce \subseteq Standing /\ atOnce \subseteq Attempts
      BY DEF Standing, Committed
    <2>2. \A a \in atOnce : rows[a] \in Row /\ rows[a].quantity <= rows[a].offered
      BY DEF IInv, TypeOK, Committed, Exists, FitsQuantity, HoldsNoMore
    <2>3. \A a, b \in atOnce : a = b
      <3> SUFFICES ASSUME NEW a \in atOnce, NEW b \in atOnce, a # b PROVE FALSE
        OBVIOUS
      <3>1. /\ rows[a].from \in Nat /\ rows[a].to \in Nat /\ rows[b].from \in Nat /\ rows[b].to \in Nat
            /\ t \in Nat
        BY <2>2, AdmissionAssumption DEF Row
      <3>2. Excludes(rows[a], rows[b])
        BY <3>1 DEF Excludes, SameUnit, Overlap
      <3> QED BY <3>2 DEF IInv, Sound, Apart, Committed
    <2>4. IsFiniteSet(atOnce)
      BY <2>1, FS_Subset DEF FitsQuantity
    <2>5. MapThenSumSet(LAMBDA b : rows[b].quantity, atOnce) = SumOf(Quantities, atOnce)
      <3> HIDE DEF atOnce
      <3> QED BY <2>1, <2>4, QuantitySum
    <2>6. c \in atOnce /\ AtOnce(t) = atOnce
      BY DEF AtOnce
    <2>7. SumOf(Quantities, atOnce) <= rows[c].offered
      <3> HIDE DEF atOnce
      <3>1. atOnce = {c}
        BY <2>3, <2>6
      <3>2. Quantities[c] = rows[c].quantity /\ rows[c].quantity \in Nat
        BY <2>1, <2>2, <2>6 DEF Row, Quantities
      <3>3. SumOf(Quantities, {c}) = Quantities[c]
        BY <3>2, SumOfOne
      <3> QED BY <2>2, <2>6, <3>1, <3>2, <3>3
    <2> QED BY <2>5, <2>6, <2>7
  <1>2. FitsQuantity /\ IInv /\ [Next]_vars => FitsQuantity'
    BY FitsNext
  <1> QED BY Inductive, FitsInit, <1>1, <1>2, PTL DEF Spec

---------------------------------------------------------------------------
(* The preview of a refund. *)

\* A percentage of an amount, rounded, is at most the amount, and grows with
\* the percentage.
LEMMA RoundedShare ==
    ASSUME NEW n \in Nat
    PROVE  /\ Rounded(n * 0, 100) = 0
           /\ Rounded(n * 50, 100) \in 0..n
           /\ Rounded(n * 100, 100) = n
  <1>1. n * 0 = 0 /\ n * 50 = 50 * n /\ n * 100 = 100 * n
    OBVIOUS
  <1>2. (2 * 0 + 100) \div (2 * 100) = 0
    OBVIOUS
  <1>3. (2 * (100 * n) + 100) \div (2 * 100) = n
    OBVIOUS
  <1>4. (2 * (50 * n) + 100) \div (2 * 100) \in 0..n
    OBVIOUS
  <1> QED BY <1>1, <1>2, <1>3, <1>4 DEF Rounded

\* The percentage of a policy is one of three, all or half or nothing, and
\* never falls with the time that is left.
LEMMA PercentageGrows ==
    ASSUME NEW policy \in Policies
    PROVE  /\ \A hours \in Int : RefundPctFor(policy, hours) \in {0, 50, 100}
           /\ \A hours \in Int, later \in Int :
                  later <= hours => RefundPctFor(policy, later) <= RefundPctFor(policy, hours)
  <1>1. CASE policy = "flexible"
    BY <1>1 DEF RefundPctFor
  <1>2. CASE policy = "moderate"
    BY <1>2 DEF RefundPctFor
  <1>3. CASE policy = "strict"
    BY <1>3 DEF RefundPctFor
  <1> QED BY <1>1, <1>2, <1>3 DEF Policies

\* For every quote, policy and hour the refund is between the deposit and the
\* total, and never grows while time goes by.
LEMMA RefundGrows ==
    ASSUME NEW quote \in Quote, NEW policy \in Policies
    PROVE  /\ \A hours \in Int : /\ quote.deposit <= CancellationRefund(quote, policy, hours)
                                 /\ CancellationRefund(quote, policy, hours) <= Total(quote)
           /\ \A hours \in Int, later \in Int :
                  later <= hours =>
                      CancellationRefund(quote, policy, later) <= CancellationRefund(quote, policy, hours)
  <1> DEFINE fees == quote.rental + quote.service
             part(pct) == Rounded(fees * pct, 100)
  <1>1. fees \in Nat /\ quote.deposit \in Nat /\ Total(quote) = fees + quote.deposit
        /\ Total(quote) - quote.deposit = fees
    BY DEF Quote, Total
  <1>2. \A hours \in Int : CancellationRefund(quote, policy, hours)
                              = quote.deposit + part(RefundPctFor(policy, hours))
    BY <1>1 DEF CancellationRefund
  <1> HIDE DEF fees
  <1>3. part(0) = 0 /\ part(50) \in 0..fees /\ part(100) = fees
    BY <1>1, RoundedShare
  <1> HIDE DEF part
  <1>4. \A p, q \in {0, 50, 100} : /\ part(p) \in 0..fees
                                   /\ p <= q => part(p) <= part(q)
    BY <1>1, <1>3
  <1>5. \A hours \in Int : /\ RefundPctFor(policy, hours) \in {0, 50, 100}
                           /\ part(RefundPctFor(policy, hours)) \in 0..fees
    BY <1>4, PercentageGrows
  <1>6. \A hours \in Int, later \in Int :
            later <= hours => part(RefundPctFor(policy, later)) <= part(RefundPctFor(policy, hours))
    BY <1>4, <1>5, PercentageGrows
  <1> QED BY <1>1, <1>2, <1>5, <1>6

\* No booking that was ever made is promised more back than was charged.
THEOREM RefundsWithinCharge == Spec => []RefundWithinCharge
  <1>1. IInv => RefundWithinCharge
    <2> SUFFICES ASSUME IInv, NEW a \in Attempts, Committed(a), NEW policy \in Policies
                 PROVE  /\ rows[a].quote.deposit <= CancellationRefund(rows[a].quote, policy, 0)
                        /\ CancellationRefund(rows[a].quote, policy, 168) <= Total(rows[a].quote)
                        /\ \A tier \in {24, 72, 168} :
                               CancellationRefund(rows[a].quote, policy, tier - 1)
                                   <= CancellationRefund(rows[a].quote, policy, tier)
      BY DEF RefundWithinCharge
    <2>1. rows[a].quote \in Quote
      BY DEF IInv, TypeOK, Committed, Exists, Row
    <2>2. \A tier \in {24, 72, 168} : tier \in Int /\ tier - 1 \in Int /\ tier - 1 <= tier
      OBVIOUS
    <2>3. 0 \in Int /\ 168 \in Int
      OBVIOUS
    <2> QED BY <2>1, <2>2, <2>3, RefundGrows
  <1> QED BY Inductive, <1>1, PTL
=============================================================================
