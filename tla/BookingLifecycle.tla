-------------------------- MODULE BookingLifecycle --------------------------
(***************************************************************************)
(* The life of a booking: BookingService and DisputeService over the       *)
(* bookings, disputes, booking_extension_requests and transactions tables, *)
(* and the payment port they call.                                         *)
(*                                                                         *)
(* The services take no row lock and keep no version column.  A request    *)
(* reads a row (its checks are made on that copy), then saves the copy.    *)
(* Each request is therefore a job of a worker, in these steps:            *)
(*                                                                         *)
(*   found      approveExtension has read its request, not the booking;    *)
(*   loaded     the rows are read and the checks have passed;              *)
(*   selected   save() has selected the row it will diff the copy with     *)
(*              (a request that saves a booking twice or more in one       *)
(*              transaction ends by writing the whole copy, so the select  *)
(*              does not matter there and is left out);                    *)
(*   resolving  a dispute's transaction has updated, hence locked, the     *)
(*              dispute and read the booking it will finalize;             *)
(*   idle       the transaction has committed or rolled back.              *)
(*                                                                         *)
(* The payment port is outside the transaction: what it moved stays moved  *)
(* when the transaction rolls back.  No request reads the port, so a call  *)
(* to it is taken together with the end of the transaction it is made in.  *)
(***************************************************************************)
EXTENDS BookingTypes, FiniteSets

CONSTANTS Workers,        \* requests in progress at the same time
          Bookings,       \* ids of bookings rows
          Extensions,     \* ids of extension request rows
          Modes,          \* the modes the listing is offered in
          Windows,        \* the pairs <<from, to>> renters ask for
          RefundPcts,     \* what the cancellation policy may give back
          MaxOverlaps,    \* bound: requests started while another is in progress
          MaxFailures,    \* bound: processes or connections lost mid-request
          MaxCompletions, \* bound: completions after which none is started
          MaxReleased     \* bound: amount released on a booking after which no
                          \* settlement of it is started

ASSUME LifecycleAssumption ==
    /\ Modes \subseteq {"instant", "request"}
    /\ \A win \in Windows : win \in Nat \X Nat /\ win[1] < win[2]
    /\ RefundPcts \subseteq 0..100
    /\ MaxOverlaps \in Nat
    /\ MaxFailures \in Nat
    /\ MaxCompletions \in Nat
    /\ MaxReleased \in Nat

VARIABLES
    rows,       \* bookings
    trail,      \* the <<status, stage>> the last history row of a booking says it got
    disputes,   \* disputes, by booking (booking_id is unique)
    exts,       \* booking_extension_requests
    ledger,     \* transactions, summed by booking and type
    port,       \* what the payment provider moved, by booking and kind
    completed,  \* ProviderProfile.completedBookings
    job,        \* the request each worker has in progress
    overlaps,   \* requests started so far while another was in progress
    failures    \* requests lost so far

tables == <<rows, trail, disputes, exts, ledger>>
vars == <<rows, trail, disputes, exts, ledger, port, completed, job, overlaps, failures>>

Idle == [phase |-> "idle"]
NoExtension == [status |-> "absent"]

Extension == [status : ExtensionStatuses \ {"absent"}, b : Bookings, newEnd : Nat,
              rental : Nat, service : Nat]

BookingJob == [op : {"create", "approve", "decline", "cancel", "handover",
                     "scheduleReturn", "confirmReturn", "inspect", "reportDamage"},
               phase : {"loaded", "selected"}, b : Bookings, mem : Row,
               seen : Row \cup {NoRow}]
ExtensionJob == [op : {"requestExtension", "approveExtension", "declineExtension",
                       "cancelExtension"},
                 phase : {"found", "loaded", "selected"}, b : Bookings, e : Extensions,
                 ext : Extension, mem : Row \cup {NoRow}, seen : Row \cup {NoRow}]
DisputeJob == [op : {"propose", "reject", "accept", "adminResolve"},
               phase : {"loaded", "selected", "resolving"}, b : Bookings,
               dmem : Dispute, dseen : Dispute, mem : Row \cup {NoRow}]

TypeOK ==
    /\ rows \in [Bookings -> Row \cup {NoRow}]
    /\ trail \in [Bookings -> Statuses \X Stages]
    /\ disputes \in [Bookings -> Dispute]
    /\ exts \in [Extensions -> Extension \cup {NoExtension}]
    /\ ledger \in [Bookings -> Amounts]
    /\ port \in [Bookings -> Amounts]
    /\ completed \in Nat
    /\ job \in [Workers -> BookingJob \cup ExtensionJob \cup DisputeJob \cup {Idle}]
    /\ overlaps \in Nat
    /\ failures \in Nat

Init ==
    /\ rows = [b \in Bookings |-> NoRow]
    /\ trail = [b \in Bookings |-> <<"pending", "requested">>]
    /\ disputes = [b \in Bookings |-> NoDispute]
    /\ exts = [e \in Extensions |-> NoExtension]
    /\ ledger = [b \in Bookings |-> Nothing]
    /\ port = [b \in Bookings |-> Nothing]
    /\ completed = 0
    /\ job = [w \in Workers |-> Idle]
    /\ overlaps = 0
    /\ failures = 0

---------------------------------------------------------------------------
(* The steps of a request. *)

Exists(b) == rows[b].status # "absent"

At(w, op, phase) == job[w].phase = phase /\ job[w].op = op

\* Worker w takes up a request.
Start(w, request) ==
    /\ job[w] = Idle
    /\ IF \E v \in Workers : job[v] # Idle
         THEN overlaps < MaxOverlaps /\ overlaps' = overlaps + 1
         ELSE UNCHANGED overlaps
    /\ job' = [job EXCEPT ![w] = request]
    /\ UNCHANGED <<tables, port, completed, failures>>

\* Worker w's request goes on without touching a table.
Proceed(w, request) ==
    /\ job' = [job EXCEPT ![w] = request]
    /\ UNCHANGED <<tables, port, completed, overlaps, failures>>

\* Another pending or confirmed booking occupies the unit in [from, to).
Occupied(b, unit, from, to) ==
    \E c \in Bookings \ {b} : /\ Exists(c)
                              /\ Active(rows[c].status)
                              /\ rows[c].unit = unit
                              /\ Overlap(rows[c].from, rows[c].to, from, to)

\* Mutant: the constraint is checked on inserts only.
AcceptsUpdates(b, row) ==
    Active(row.status) => Exists(b) \/ ~Occupied(b, row.unit, row.from, row.to)

\* no_overlapping_bookings lets booking b take this version of its row.
Accepts(b, row) == Active(row.status) => ~Occupied(b, row.unit, row.from, row.to)

\* The read that starts a request on a booking, its checks given by Guard.
Load(w, op, b) ==
    /\ Exists(b)
    /\ Start(w, [op |-> op, phase |-> "loaded", b |-> b, mem |-> rows[b], seen |-> NoRow])

\* save() selects the row before it computes what to update.
SelectRow(w) ==
    /\ \E op \in {"decline", "cancel", "scheduleReturn", "confirmReturn",
                  "reportDamage", "approveExtension"} : At(w, op, "loaded")
    /\ Proceed(w, [job[w] EXCEPT !.phase = "selected", !.seen = rows[job[w].b]])

\* How a transaction that writes these versions of a booking's row may end.
Outcomes(b, versions) ==
    IF \A row \in versions : Accepts(b, row)
    THEN {"commit"} \cup (IF failures < MaxFailures THEN {"lost"} ELSE {})
    ELSE {"rejected"}

\* Mutant: the port is called after the commit, so a lost request has booked
\* what was never moved.
EndThenPay(w, b, outcome, moved, row, told, booked) ==
    /\ port' = [port EXCEPT ![b] = IF outcome = "lost" THEN @ ELSE Plus(@, moved)]
    /\ IF outcome \in {"commit", "lost"}
         THEN /\ rows' = [rows EXCEPT ![b] = row]
              /\ trail' = [trail EXCEPT ![b] = told]
              /\ ledger' = [ledger EXCEPT ![b] = Plus(@, booked)]
         ELSE UNCHANGED <<rows, trail, ledger>>
    /\ failures' = IF outcome = "lost" THEN failures + 1 ELSE failures
    /\ job' = [job EXCEPT ![w] = Idle]
    /\ UNCHANGED overlaps

\* The end of worker w's transaction on booking b: moved by the port in any
\* case, the row, its history (told) and the ledger only on commit.
End(w, b, outcome, moved, row, told, booked) ==
    /\ port' = [port EXCEPT ![b] = Plus(@, moved)]
    /\ IF outcome = "commit"
         THEN /\ rows' = [rows EXCEPT ![b] = row]
              /\ trail' = [trail EXCEPT ![b] = told]
              /\ ledger' = [ledger EXCEPT ![b] = Plus(@, booked)]
         ELSE UNCHANGED <<rows, trail, ledger>>
    /\ failures' = IF outcome = "lost" THEN failures + 1 ELSE failures
    /\ job' = [job EXCEPT ![w] = Idle]
    /\ UNCHANGED overlaps

To(row, status, stage) == [row EXCEPT !.status = status, !.stage = stage]

\* setStatusOnly: the copy with another status, saved once.
EndStatusOnly(w, status, moved) ==
    LET j    == job[w]
        mem  == [j.mem EXCEPT !.status = status]
        row  == Save(rows[j.b], j.seen, mem)
    IN /\ \E outcome \in Outcomes(j.b, {row}) :
             End(w, j.b, outcome, moved, row, <<mem.status, mem.stage>>, moved)
       /\ UNCHANGED <<disputes, exts, completed>>

\* Mutant: the history row is written before the status is confirmed.
EndOneStepUnconfirmed(w, stage) ==
    LET j    == job[w]
        mem  == To(j.mem, "confirmed", stage)
        row  == Save(rows[j.b], j.seen, mem)
    IN /\ \E outcome \in Outcomes(j.b, {row}) :
             End(w, j.b, outcome, Nothing, row, <<mem.status, j.mem.stage>>, Nothing)
       /\ UNCHANGED <<disputes, exts, completed>>

\* runSteps with one step: the copy at another stage, confirmed, saved once.
EndOneStep(w, stage) ==
    LET j    == job[w]
        mem  == To(j.mem, "confirmed", stage)
        row  == Save(rows[j.b], j.seen, mem)
    IN /\ \E outcome \in Outcomes(j.b, {row}) :
             End(w, j.b, outcome, Nothing, row, <<mem.status, mem.stage>>, Nothing)
       /\ UNCHANGED <<disputes, exts, completed>>

---------------------------------------------------------------------------
(* create: the availability check, then one transaction that inserts the   *)
(* row and, for an instant booking, charges and reserves.  The insert      *)
(* comes before the charge, so a row the constraint refuses costs nothing. *)

Fresh(b) ==
    /\ ~Exists(b)
    /\ port[b] = Nothing
    /\ \A w \in Workers : job[w] # Idle => job[w].b # b

LoadCreate(w) ==
    \E b \in Bookings, unit \in Units, win \in Windows, mode \in Modes :
        /\ Fresh(b)
        /\ ~Occupied(b, unit, win[1], win[2])
        /\ Start(w, [op |-> "create", phase |-> "loaded", b |-> b, seen |-> NoRow,
                     mem |-> [status |-> "pending", stage |-> "requested",
                              unit |-> unit, from |-> win[1], to |-> win[2],
                              mode |-> mode, rental |-> RentalFor(win[1], win[2]),
                              service |-> ServiceFor(win[1], win[2])]])

CommitCreate(w) ==
    /\ At(w, "create", "loaded")
    /\ LET j       == job[w]
           instant == j.mem.mode = "instant"
           row     == IF instant THEN To(j.mem, "confirmed", "reserved") ELSE j.mem
           charged == [Nothing EXCEPT !.charge = IF instant THEN Total(j.mem) ELSE 0]
       IN \E outcome \in Outcomes(j.b, {j.mem}) :
            End(w, j.b, outcome, IF outcome = "rejected" THEN Nothing ELSE charged,
                row, <<row.status, row.stage>>, charged)
    /\ UNCHANGED <<disputes, exts, completed>>

---------------------------------------------------------------------------
(* Before pickup. *)

LoadApprove(w) ==
    \E b \in Bookings :
        /\ Load(w, "approve", b)
        /\ rows[b].mode = "request"
        /\ rows[b].status = "pending"

\* Charges, records the charge, then saves accepted, payment and reserved.
CommitApprove(w) ==
    /\ At(w, "approve", "loaded")
    /\ LET j       == job[w]
           row     == To(j.mem, "confirmed", "reserved")
           charged == [Nothing EXCEPT !.charge = Total(j.mem)]
       IN \E outcome \in Outcomes(j.b, {row}) :
            End(w, j.b, outcome, charged, row, <<row.status, row.stage>>, charged)
    /\ UNCHANGED <<disputes, exts, completed>>

LoadDecline(w) ==
    \E b \in Bookings : Load(w, "decline", b) /\ rows[b].status = "pending"

CommitDecline(w) ==
    /\ At(w, "decline", "selected")
    /\ EndStatusOnly(w, "declined", Nothing)

\* Mutant: cancel forgets to check the stage.
LoadCancelAnyStage(w) ==
    \E b \in Bookings : Load(w, "cancel", b) /\ rows[b].status # "cancelled"

\* The check looks at the stage and at CANCELLED only: a declined booking
\* passes it.
LoadCancel(w) ==
    \E b \in Bookings :
        /\ Load(w, "cancel", b)
        /\ rows[b].stage \in BeforePickup
        /\ rows[b].status # "cancelled"

\* The stage is left where it was.
CommitCancel(w) ==
    /\ At(w, "cancel", "selected")
    /\ \E pct \in RefundPcts :
         EndStatusOnly(w, "cancelled",
             [Nothing EXCEPT !.refund = IF job[w].mem.status = "confirmed"
                                        THEN RefundAt(pct, job[w].mem) ELSE 0])

---------------------------------------------------------------------------
(* Handover and return: the stage alone is checked. *)

LoadAtStage(w, op, stages) ==
    \E b \in Bookings : Load(w, op, b) /\ rows[b].stage \in stages

\* Mutant: handover accepts every stage before pickup.
LoadHandoverEarly(w) == LoadAtStage(w, "handover", BeforePickup)

LoadHandover(w) == LoadAtStage(w, "handover", {"reserved", "ready"})

\* ready, pickedup and active, each saved as confirmed.
CommitHandover(w) ==
    /\ At(w, "handover", "loaded")
    /\ LET j   == job[w]
           row == To(j.mem, "confirmed", "active")
       IN \E outcome \in Outcomes(j.b, {row}) :
            End(w, j.b, outcome, Nothing, row, <<row.status, row.stage>>, Nothing)
    /\ UNCHANGED <<disputes, exts, completed>>

\* Mutant: a return can be scheduled after the item is back.
LoadScheduleReturnLate(w) == LoadAtStage(w, "scheduleReturn", {"active", "returned"})

LoadScheduleReturn(w) == LoadAtStage(w, "scheduleReturn", {"active"})

CommitScheduleReturn(w) ==
    At(w, "scheduleReturn", "selected") /\ EndOneStep(w, "returnsched")

LoadConfirmReturn(w) == LoadAtStage(w, "confirmReturn", {"returnsched", "active"})

CommitConfirmReturn(w) ==
    At(w, "confirmReturn", "selected") /\ EndOneStep(w, "returned")

---------------------------------------------------------------------------
(* Inspection.  Completing a booking also increments the provider's        *)
(* completedBookings through a connection outside the transaction, as the  *)
(* last step before commit: a lost request may leave it counted.           *)

\* Mutant: the booking is counted before the row it completes is saved.
CountedFirst(outcome) ==
    IF outcome = "commit" THEN {completed + 1} ELSE {completed, completed + 1}

Counted(outcome) ==
    CASE outcome = "commit"   -> {completed + 1}
      [] outcome = "lost"     -> {completed, completed + 1}
      [] outcome = "rejected" -> {completed}

\* recomputeRatingAggregate and the verdicts on a provider save the whole
\* profile they read, the count that it had then too.
SaveProfile ==
    /\ overlaps < MaxOverlaps /\ overlaps' = overlaps + 1
    /\ completed' \in 0..(completed - 1)
    /\ UNCHANGED <<tables, port, job, failures>>

\* The bounds on settlements (a rejected one may be tried again for ever).
MaySettle(b) == completed < MaxCompletions /\ port[b].release < MaxReleased

\* Mutant: an inspection can be recorded again on a completed booking.
LoadInspectAgain(w) ==
    \E b \in Bookings :
        MaySettle(b) /\ Load(w, "inspect", b) /\ rows[b].stage \in {"returned", "completed"}

LoadInspect(w) ==
    \E b \in Bookings :
        MaySettle(b) /\ Load(w, "inspect", b) /\ rows[b].stage = "returned"

\* Mutant: the deduction is taken off the provider's earning too.
SettledNet(deduction, rental) ==
    [Nothing EXCEPT !.release = Deposit - deduction, !.forfeit = deduction,
                    !.earning = rental - deduction]

\* What completing a booking books: the deposit less the deduction back to
\* the renter, the deduction and the rental to the provider.
Settled(deduction, rental) ==
    [Nothing EXCEPT !.release = Deposit - deduction, !.forfeit = deduction,
                    !.earning = rental]

\* ... of which the payment port moves the release only.
Released(deduction) == [Nothing EXCEPT !.release = Deposit - deduction]

\* No damage: release the deposit, save inspected, depositreleased and
\* completed, credit the provider.
CommitInspect(w) ==
    /\ At(w, "inspect", "loaded")
    /\ LET j   == job[w]
           row == To(j.mem, "completed", "completed")
       IN \E outcome \in Outcomes(j.b, {To(j.mem, "confirmed", "inspected"), row}) :
            /\ End(w, j.b, outcome, Released(0), row, <<row.status, row.stage>>,
                   Settled(0, j.mem.rental))
            /\ completed' \in Counted(outcome)
    /\ UNCHANGED <<disputes, exts>>

LoadReportDamage(w) == LoadAtStage(w, "reportDamage", {"returned"})

\* A transaction that resolves booking b's dispute holds its row.
Locked(b) == \E w \in Workers : job[w].phase = "resolving" /\ job[w].b = b

\* Mutant: the disputes row is inserted after the commit.
CommitReportDamageThenInsert(w) ==
    /\ At(w, "reportDamage", "selected")
    /\ LET j         == job[w]
           inspected == Save(rows[j.b], j.seen, To(j.mem, "confirmed", "inspected"))
           row       == To(j.mem, "disputed", "inspected")
       IN \E outcome \in Outcomes(j.b, {inspected}) :
            /\ ~Locked(j.b)
            /\ End(w, j.b, IF outcome = "rejected" THEN outcome ELSE "commit",
                   Nothing, row, <<row.status, row.stage>>, Nothing)
            /\ disputes' = IF outcome = "commit" /\ disputes[j.b].status = "none"
                           THEN [disputes EXCEPT ![j.b] =
                                     [NoDispute EXCEPT !.status = "open"]]
                           ELSE disputes
    /\ UNCHANGED <<exts, completed>>

\* Damage: save inspected, then disputed, and insert the dispute; a second
\* dispute of the booking violates the unique index and rolls all back.
CommitReportDamage(w) ==
    /\ At(w, "reportDamage", "selected")
    /\ LET j         == job[w]
           inspected == Save(rows[j.b], j.seen, To(j.mem, "confirmed", "inspected"))
           row       == To(j.mem, "disputed", "inspected")
       IN \E outcome \in Outcomes(j.b, {inspected}) :
            LET result == IF outcome = "commit" /\ disputes[j.b].status # "none"
                          THEN "rejected" ELSE outcome
            IN /\ ~Locked(j.b)
               /\ End(w, j.b, result, Nothing, row, <<row.status, row.stage>>, Nothing)
               /\ disputes' = IF result = "commit"
                              THEN [disputes EXCEPT ![j.b] =
                                        [NoDispute EXCEPT !.status = "open"]]
                              ELSE disputes
    /\ UNCHANGED <<exts, completed>>

---------------------------------------------------------------------------
(* Disputes. *)

LoadDispute(w, op, b, statuses, dmem) ==
    /\ disputes[b].status \in statuses
    /\ Start(w, [op |-> op, phase |-> "loaded", b |-> b,
                 dmem |-> dmem, dseen |-> NoDispute, mem |-> NoRow])

LoadPropose(w) ==
    \E b \in Bookings, amount \in 0..Deposit :
        LoadDispute(w, "propose", b, {"open", "contested"},
                    [disputes[b] EXCEPT !.status = "proposed", !.proposed = amount])

\* Mutant: a proposal can be rejected after it has been resolved.
LoadRejectLate(w) ==
    \E b \in Bookings :
        LoadDispute(w, "reject", b, {"proposed", "resolved"},
                    [disputes[b] EXCEPT !.status = "contested"])

LoadReject(w) ==
    \E b \in Bookings :
        LoadDispute(w, "reject", b, {"proposed"},
                    [disputes[b] EXCEPT !.status = "contested"])

LoadAccept(w) ==
    \E b \in Bookings :
        /\ MaySettle(b)
        /\ LoadDispute(w, "accept", b, {"proposed"},
               [disputes[b] EXCEPT !.status = "resolved", !.resolution = "agreed",
                                   !.final = disputes[b].proposed])

LoadAdminResolve(w) ==
    \E b \in Bookings, amount \in 0..Deposit :
        /\ MaySettle(b)
        /\ LoadDispute(w, "adminResolve", b, {"open", "proposed", "contested"},
               [disputes[b] EXCEPT !.status = "resolved", !.resolution = "admin_decided",
                                   !.final = amount])

SelectDispute(w) ==
    /\ \E op \in {"propose", "reject", "accept", "adminResolve"} : At(w, op, "loaded")
    /\ Proceed(w, [job[w] EXCEPT !.phase = "selected", !.dseen = disputes[job[w].b]])

\* A proposal and its rejection are one plain save of the dispute.
CommitNegotiation(w) ==
    /\ At(w, "propose", "selected") \/ At(w, "reject", "selected")
    /\ LET j == job[w]
       IN /\ ~Locked(j.b)
          /\ disputes' = [disputes EXCEPT ![j.b] = SaveDispute(@, j.dseen, j.dmem)]
    /\ job' = [job EXCEPT ![w] = Idle]
    /\ UNCHANGED <<rows, trail, exts, ledger, port, completed, overlaps, failures>>

\* Acceptance and the admin's decision: the update locks the dispute, then
\* finalizeDispute reads the booking ...
LockDispute(w) ==
    /\ At(w, "accept", "selected") \/ At(w, "adminResolve", "selected")
    /\ ~Locked(job[w].b)
    /\ Proceed(w, [job[w] EXCEPT !.phase = "resolving", !.mem = rows[job[w].b]])

\* ... releases what is not deducted, credits the provider, and saves the
\* booking as confirmed, depositreleased and completed.
CommitResolution(w) ==
    /\ job[w].phase = "resolving"
    /\ LET j     == job[w]
           final == j.dmem.final
           row   == To(j.mem, "completed", "completed")
       IN \E outcome \in Outcomes(j.b, {To(j.mem, "confirmed", j.mem.stage), row}) :
            /\ End(w, j.b, outcome, Released(final), row, <<row.status, row.stage>>,
                   Settled(final, j.mem.rental))
            /\ disputes' = IF outcome = "commit"
                           THEN [disputes EXCEPT ![j.b] = SaveDispute(@, j.dseen, j.dmem)]
                           ELSE disputes
            /\ completed' \in Counted(outcome)
    /\ UNCHANGED exts

---------------------------------------------------------------------------
(* Extension requests. *)

\* Mutant: the extension's service fee is not charged.
ExtensionPriceNet(ext) == ext.rental

ExtensionPrice(ext) == ext.rental + ext.service

LoadExtension(w, op, e, ext, mem) ==
    Start(w, [op |-> op, phase |-> "loaded", b |-> ext.b, e |-> e,
              ext |-> ext, mem |-> mem, seen |-> NoRow])

LoadRequestExtension(w) ==
    \E b \in Bookings, e \in Extensions, newEnd \in 1..MaxTime :
        /\ exts[e] = NoExtension
        /\ \A v \in Workers : At(v, "requestExtension", "loaded") => job[v].e # e
        /\ Exists(b)
        /\ rows[b].stage = "active"
        /\ newEnd > rows[b].to
        /\ ~Occupied(b, rows[b].unit, rows[b].to, newEnd)
        /\ LoadExtension(w, "requestExtension", e,
               [status |-> "pending", b |-> b, newEnd |-> newEnd,
                rental |-> RentalFor(rows[b].to, newEnd),
                service |-> ServiceFor(rows[b].to, newEnd)], rows[b])

\* The insert; uq_pending_extension_per_booking refuses a second pending one.
CommitRequestExtension(w) ==
    /\ At(w, "requestExtension", "loaded")
    /\ LET j == job[w]
       IN exts' = IF \E e \in Extensions : exts[e].status = "pending" /\ exts[e].b = j.b
                  THEN exts ELSE [exts EXCEPT ![j.e] = j.ext]
    /\ job' = [job EXCEPT ![w] = Idle]
    /\ UNCHANGED <<rows, trail, disputes, ledger, port, completed, overlaps, failures>>

\* The request must be pending; then the booking is read, whose stage is not
\* looked at.  (Postgres refuses the range of the availability check when the
\* rental already ends later.)
FindExtension(w) ==
    \E e \in Extensions :
        /\ exts[e].status = "pending"
        /\ Start(w, [op |-> "approveExtension", phase |-> "found", b |-> exts[e].b, e |-> e,
                     ext |-> exts[e], mem |-> NoRow, seen |-> NoRow])

LoadApproveExtension(w) ==
    /\ At(w, "approveExtension", "found")
    /\ LET j   == job[w]
           row == rows[j.b]
       IN Proceed(w, IF row.to <= j.ext.newEnd /\ ~Occupied(j.b, row.unit, row.to, j.ext.newEnd)
                     THEN [j EXCEPT !.phase = "loaded", !.mem = row] ELSE Idle)

\* Charged before the transaction, which saves the new end and fees, records
\* the charge and an active-to-active history row, and approves the request.
CommitApproveExtension(w) ==
    /\ At(w, "approveExtension", "selected")
    /\ LET j       == job[w]
           mem     == [j.mem EXCEPT !.to = j.ext.newEnd,
                                    !.rental = @ + j.ext.rental,
                                    !.service = @ + j.ext.service]
           row     == Save(rows[j.b], j.seen, mem)
           charged == [Nothing EXCEPT !.charge = ExtensionPrice(j.ext)]
       IN \E outcome \in Outcomes(j.b, {row}) :
            /\ End(w, j.b, outcome, charged, row, <<mem.status, "active">>, charged)
            /\ exts' = IF outcome = "commit"
                       THEN [exts EXCEPT ![j.e].status = "approved"] ELSE exts
    /\ UNCHANGED <<disputes, completed>>

LoadCloseExtension(w) ==
    \E e \in Extensions, op \in {"declineExtension", "cancelExtension"} :
        /\ exts[e].status = "pending"
        /\ LoadExtension(w, op, e, exts[e], NoRow)

\* A plain save: whatever the request has become meanwhile is overwritten.
CommitCloseExtension(w) ==
    \E op \in {"declineExtension", "cancelExtension"} :
        /\ At(w, op, "loaded")
        /\ exts' = [exts EXCEPT ![job[w].e].status =
                        IF op = "declineExtension" THEN "declined" ELSE "cancelled"]
        /\ job' = [job EXCEPT ![w] = Idle]
        /\ UNCHANGED <<rows, trail, disputes, ledger, port, completed, overlaps, failures>>

---------------------------------------------------------------------------

Loads(w) ==
    \/ LoadCreate(w) \/ LoadApprove(w) \/ LoadDecline(w) \/ LoadCancel(w)
    \/ LoadHandover(w) \/ LoadScheduleReturn(w) \/ LoadConfirmReturn(w)
    \/ LoadInspect(w) \/ LoadReportDamage(w)
    \/ LoadPropose(w) \/ LoadReject(w) \/ LoadAccept(w) \/ LoadAdminResolve(w)
    \/ LoadRequestExtension(w) \/ FindExtension(w) \/ LoadCloseExtension(w)

Selects(w) ==
    SelectRow(w) \/ SelectDispute(w) \/ LockDispute(w) \/ LoadApproveExtension(w)

Commits(w) ==
    \/ CommitCreate(w) \/ CommitApprove(w) \/ CommitDecline(w) \/ CommitCancel(w)
    \/ CommitHandover(w) \/ CommitScheduleReturn(w) \/ CommitConfirmReturn(w)
    \/ CommitInspect(w) \/ CommitReportDamage(w)
    \/ CommitNegotiation(w) \/ CommitResolution(w)
    \/ CommitRequestExtension(w) \/ CommitApproveExtension(w) \/ CommitCloseExtension(w)

Next ==
    \/ \E w \in Workers : Loads(w) \/ Selects(w) \/ Commits(w)
    \/ SaveProfile

Spec == Init /\ [][Next]_vars
=============================================================================
