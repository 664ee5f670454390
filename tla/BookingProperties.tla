------------------------- MODULE BookingProperties -------------------------
(***************************************************************************)
(* What BookingLifecycle is to guarantee: first what holds however the     *)
(* requests on the same rows interleave and fail, then what holds when one *)
(* request ends before the next begins.                                    *)
(***************************************************************************)
EXTENDS BookingLifecycle, FiniteSetsExt

---------------------------------------------------------------------------
(* Under any interleaving. *)

\* No two pending or confirmed bookings of one unit overlap: the promise of
\* no_overlapping_bookings, for every way a row's window or status is written
\* (inserts, extensions, stale copies saved back).
NoOverlap ==
    \A b \in Bookings : Exists(b) /\ Active(rows[b].status) =>
        ~Occupied(b, rows[b].unit, rows[b].from, rows[b].to)

\* The ledger never claims money the payment port did not move.
LedgerBackedByPort ==
    \A b \in Bookings : /\ ledger[b].charge <= port[b].charge
                        /\ ledger[b].refund <= port[b].refund
                        /\ ledger[b].release <= port[b].release

\* A booking parked as DISPUTED has a disputes row someone can resolve or has
\* resolved: it is never stranded without one.
DisputedHasDispute ==
    \A b \in Bookings : rows[b].status = "disputed" => disputes[b].status # "none"

\* The item leaves the provider, and a booking is reserved at all, only once
\* the ledger holds the charge of its whole current total.
ReservedIsPaid ==
    \A b \in Bookings :
        Exists(b) /\ StageOrder[rows[b].stage] >= StageOrder["reserved"] =>
            ledger[b].charge >= Total(rows[b])

\* Every approved extension is paid for, on top of the window first booked.
ExtensionsArePaid ==
    \A b \in Bookings :
        LET approved == {e \in Extensions : exts[e].status = "approved" /\ exts[e].b = b}
        IN approved # {} =>
             \E win \in Windows :
                /\ win[1] = rows[b].from
                /\ ledger[b].charge >=
                     RentalFor(win[1], win[2]) + ServiceFor(win[1], win[2]) + Deposit
                     + MapThenSumSet(LAMBDA e : exts[e].rental + exts[e].service, approved)

\* A recorded resolution has been carried out: the deposit is accounted for in
\* full, the provider has the agreed deduction and the whole rental of the
\* window first booked (an extension approved meanwhile may come too late for
\* the copy that is settled).
ResolutionCarriedOut ==
    \A b \in Bookings : disputes[b].resolution # "none" =>
        /\ ledger[b].forfeit >= disputes[b].final
        /\ ledger[b].release + ledger[b].forfeit >= Deposit
        /\ \E win \in Windows :
              win[1] = rows[b].from /\ ledger[b].earning >= RentalFor(win[1], win[2])

---------------------------------------------------------------------------
(* One request at a time. *)

\* The status and the stage of a booking tell one story.
StatusFitsStage ==
    \A b \in Bookings : Exists(b) =>
        LET stage == rows[b].stage
        IN CASE rows[b].status = "pending"   -> stage = "requested"
             [] rows[b].status = "declined"  -> stage = "requested"
             [] rows[b].status = "cancelled" -> stage \in {"requested", "reserved"}
             [] rows[b].status = "confirmed" -> stage \in {"reserved", "active",
                                                           "returnsched", "returned"}
             [] rows[b].status = "disputed"  -> stage = "inspected"
             [] rows[b].status = "completed" -> stage = "completed"

\* A booking is DISPUTED exactly while its dispute is unresolved.
DisputedWhileUnresolved ==
    \A b \in Bookings :
        rows[b].status = "disputed" <=> disputes[b].status \notin {"none", "resolved"}

\* The deposit leaves escrow once: nothing before completion, then all of it,
\* shared between renter and provider.
DepositSettledOnce ==
    \A b \in Bookings :
        ledger[b].release + ledger[b].forfeit =
            IF rows[b].status = "completed" THEN Deposit ELSE 0

\* At most one of the bookings that overlap on a unit has the item out.
OneRenterHoldsTheItem ==
    \A b, c \in Bookings :
        /\ b # c /\ Exists(b) /\ Exists(c)
        /\ rows[b].stage \in InHand /\ rows[c].stage \in InHand
        /\ rows[b].unit = rows[c].unit
        => ~Overlap(rows[b].from, rows[b].to, rows[c].from, rows[c].to)

\* A booking's stage only ever moves forward along BOOKING_STAGE_ORDER.
StagesMoveForward ==
    [][\A b \in Bookings : Exists(b) =>
         StageOrder[rows'[b].stage] >= StageOrder[rows[b].stage]]_vars

\* Completion settles the rental: what was charged and not refunded is
\* exactly the deposit, the provider's earning and the platform's fee.
CompletionSettles ==
    [][\A b \in Bookings :
         rows'[b].status = "completed" /\ rows[b].status # "completed"
            /\ ledger[b].refund = 0
         => ledger'[b].charge = ledger'[b].release + ledger'[b].forfeit
                                  + ledger'[b].earning + rows'[b].service]_vars

\* The provider's profile counts the completed bookings: the increment takes
\* another connection than the transaction it is made in, so a request that was
\* lost may have left one too many, but one that was refused has not, and no
\* completion is missed.
CompletionsCounted ==
    LET done == Cardinality({b \in Bookings : rows[b].status = "completed"})
    IN done <= completed /\ completed <= done + failures

\* The last history row of a booking says what its row says, unless an
\* extension was approved: that one is always recorded as active to active.
HistoryMatchesRow ==
    \A b \in Bookings :
        Exists(b) /\ (\A e \in Extensions : exts[e].status = "approved" => exts[e].b # b)
            => trail[b] = <<rows[b].status, rows[b].stage>>

---------------------------------------------------------------------------
(* What the documentation says and the code does not do. *)

\* A cancelled booking is closed: it stays cancelled.
CancelledStaysCancelled ==
    [][\A b \in Bookings : rows[b].status = "cancelled" =>
                           rows'[b].status = "cancelled"]_vars

\* One booking is charged its total once: never more than it is worth.
ChargedOnce ==
    \A b \in Bookings : Exists(b) => ledger[b].charge <= Total(rows[b])

\* The admin can resolve every unresolved dispute: the constraint accepts the
\* CONFIRMED row the resolution starts by saving.
BackstopAvailable ==
    \A b \in Bookings : rows[b].status = "disputed" =>
        ~Occupied(b, rows[b].unit, rows[b].from, rows[b].to)
=============================================================================
