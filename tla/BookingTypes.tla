---------------------------- MODULE BookingTypes ----------------------------
(***************************************************************************)
(* The vocabulary of the booking subsystem: the columns of a bookings row, *)
(* of a disputes row and of an extension request, the amounts a booking    *)
(* moves, the overlap test of Postgres ranges, and what TypeORM's save()   *)
(* does to a row.  No state lives here; BookingLifecycle is the machine.   *)
(*                                                                         *)
(* Dates are slots of one clock: the half-open window [from, to) of a      *)
(* booking is what its tstzrange column `during' holds.                    *)
(***************************************************************************)
EXTENDS Integers

CONSTANTS Units,        \* COALESCE(asset_id, listing_id): what a booking occupies
          MaxTime,      \* bound: the last slot a rental may be extended to
          RentalRate,   \* rental fee of one slot, in minor units
          ServiceRate,  \* service fee of one slot
          Deposit       \* deposit of the listing (0: none)

ASSUME RatesAssumption ==
    /\ MaxTime \in Nat
    /\ RentalRate \in Nat
    /\ ServiceRate \in Nat
    /\ Deposit \in Nat

---------------------------------------------------------------------------
(* Enumerations. *)

Statuses == {"pending", "confirmed", "declined", "cancelled", "completed", "disputed"}

\* The twelve stages; StageOrder is BOOKING_STAGE_ORDER, position by stage.
StageOrder ==
    [requested |-> 1, accepted |-> 2, payment |-> 3, reserved |-> 4, ready |-> 5,
     pickedup |-> 6, active |-> 7, returnsched |-> 8, returned |-> 9,
     inspected |-> 10, depositreleased |-> 11, completed |-> 12]

Stages == DOMAIN StageOrder

BeforePickup == {"requested", "accepted", "payment", "reserved", "ready"}

\* The stages in which the renter holds the item.
InHand == {"pickedup", "active", "returnsched"}

\* The statuses in the WHERE clause of no_overlapping_bookings, and of every
\* availability query.
Active(status) == status \in {"pending", "confirmed"}

DisputeStatuses == {"none", "open", "proposed", "contested", "resolved"}
Resolutions == {"none", "agreed", "admin_decided"}
ExtensionStatuses == {"absent", "pending", "approved", "declined", "cancelled"}

---------------------------------------------------------------------------
(* Rows.  The service fee and the total are snapshotted with the rental    *)
(* fee and only ever change with it, so they are derived from it here.     *)

Row == [status : Statuses, stage : Stages, unit : Units, from : Nat, to : Nat,
        mode : {"instant", "request"}, rental : Nat, service : Nat]

NoRow == [status |-> "absent"]

Dispute == [status : DisputeStatuses, proposed : 0..Deposit, final : 0..Deposit,
            resolution : Resolutions]

NoDispute == [status |-> "none", proposed |-> 0, final |-> 0, resolution |-> "none"]

---------------------------------------------------------------------------
(* Money.  One record of amounts serves the payment port (what was really  *)
(* moved) and the transaction ledger (what the database recorded).         *)

Amounts == [charge : Nat, refund : Nat, release : Nat, forfeit : Nat, earning : Nat]

Nothing == [charge |-> 0, refund |-> 0, release |-> 0, forfeit |-> 0, earning |-> 0]

Plus(a, b) ==
    [charge |-> a.charge + b.charge, refund |-> a.refund + b.refund,
     release |-> a.release + b.release, forfeit |-> a.forfeit + b.forfeit,
     earning |-> a.earning + b.earning]

Total(row) == row.rental + row.service + Deposit

\* Mutant: the dates subtracted the wrong way round.
RentalForReversed(from, to) == RentalRate * (from - to)

\* computeQuote for the slots from..to-1.
RentalFor(from, to) == RentalRate * (to - from)
ServiceFor(from, to) == ServiceRate * (to - from)

\* computeCancellationRefund: the deposit in full, and pct percent of the
\* rest rounded half up.
RefundAt(pct, row) == Deposit + (((row.rental + row.service) * pct + 50) \div 100)

---------------------------------------------------------------------------
(* Ranges and saves. *)

\* Postgres && on half-open ranges; an empty range overlaps nothing.
Overlap(f1, t1, f2, t2) == f1 < t1 /\ f2 < t2 /\ f1 < t2 /\ f2 < t1

\* save(entity) selects the row, then updates only the columns in which the
\* entity in memory differs from what it selected: one column ...
Column(stored, seen, mem) == IF mem # seen THEN mem ELSE stored

\* ... and all the columns that ever change after the insert.
Save(stored, seen, mem) ==
    [stored EXCEPT !.status  = Column(stored.status,  seen.status,  mem.status),
                   !.stage   = Column(stored.stage,   seen.stage,   mem.stage),
                   !.to      = Column(stored.to,      seen.to,      mem.to),
                   !.rental  = Column(stored.rental,  seen.rental,  mem.rental),
                   !.service = Column(stored.service, seen.service, mem.service)]

SaveDispute(stored, seen, mem) ==
    [status     |-> Column(stored.status,     seen.status,     mem.status),
     proposed   |-> Column(stored.proposed,   seen.proposed,   mem.proposed),
     final      |-> Column(stored.final,      seen.final,      mem.final),
     resolution |-> Column(stored.resolution, seen.resolution, mem.resolution)]
=============================================================================
