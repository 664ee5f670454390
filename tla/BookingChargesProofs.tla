------------------------ MODULE BookingChargesProofs ------------------------
(***************************************************************************)
(* What the ledger of BookingLifecycle holds, for every value of its       *)
(* constants and however many requests interleave and fail: whatever is    *)
(* reserved or approved has been charged, and a dispute's recorded         *)
(* resolution has been carried out.                                        *)
(***************************************************************************)
EXTENDS BookingSafetyProofs, FiniteSums

---------------------------------------------------------------------------
(* The ledger only grows, by one booking's entries at a time.              *)

\* A request's step books these amounts on this booking.
Books(b, booked) == ledger' = [ledger EXCEPT ![b] = Plus(ledger[b], booked)]

LedgerStep ==
    UNCHANGED ledger \/ \E b \in Bookings : \E booked \in Amounts : Books(b, booked)

\* The end of a transaction books its amounts, or nothing.
LEMMA EndBooks ==
    ASSUME NEW w, NEW b \in Bookings, NEW outcome, NEW moved, NEW row, NEW told,
           NEW booked \in Amounts, End(w, b, outcome, moved, row, told, booked)
    PROVE  LedgerStep
  BY DEF End, Books, LedgerStep

\* Every end of a request books at most one booking's entries.
LEMMA CommitsBook ==
    ASSUME TypeInv, NEW w \in Workers, Commits(w)
    PROVE  LedgerStep
  <1> DEFINE j == job[w]
  <1>1. CASE CommitCreate(w)
    <2> DEFINE amount == IF j.mem.mode = "instant" THEN Total(j.mem) ELSE 0
               charged == [Nothing EXCEPT !.charge = amount]
    <2>1. j # Idle /\ j.op = "create"
      BY <1>1, BusyAt DEF CommitCreate
    <2>2. j.b \in Bookings /\ j.mem \in Row
      BY <2>1, JobKinds DEF TypeInv, BookingJob
    <2>3. amount \in Nat
      BY <2>2, RowFields
    <2>4. charged \in Amounts
      <3> HIDE DEF amount
      <3> QED BY <2>3, ChargeType
    <2>5. PICK outcome, moved, row, told : End(w, j.b, outcome, moved, row, told, charged)
      BY <1>1 DEF CommitCreate
    <2> HIDE DEF charged, amount, j
    <2> QED BY <2>2, <2>4, <2>5, EndBooks
  <1>2. CASE CommitApprove(w)
    <2> DEFINE charged == [Nothing EXCEPT !.charge = Total(j.mem)]
    <2>1. j.b \in Bookings /\ j.mem \in Row
      BY <1>2, BookingJobType DEF CommitApprove
    <2>2. charged \in Amounts
      BY <2>1, RowFields, ChargeType
    <2>3. PICK outcome, moved, row, told : End(w, j.b, outcome, moved, row, told, charged)
      BY <1>2 DEF CommitApprove
    <2> HIDE DEF charged, j
    <2> QED BY <2>1, <2>2, <2>3, EndBooks
  <1>3. CASE CommitCancel(w)
    <2>1. j.b \in Bookings /\ j.mem \in Row
      BY <1>3, BookingJobType DEF CommitCancel
    <2>2. PICK pct \in RefundPcts :
            EndStatusOnly(w, "cancelled",
               [Nothing EXCEPT !.refund = IF j.mem.status = "confirmed"
                                          THEN RefundAt(pct, j.mem) ELSE 0])
      BY <1>3 DEF CommitCancel
    <2> DEFINE amount == IF j.mem.status = "confirmed" THEN RefundAt(pct, j.mem) ELSE 0
               refunded == [Nothing EXCEPT !.refund = amount]
    <2>3. amount \in Nat
      BY <2>1, RefundType, LifecycleAssumption
    <2>4. refunded \in Amounts
      BY <2>3, ChargeType
    <2>5. PICK outcome, row, told : End(w, j.b, outcome, refunded, row, told, refunded)
      BY <2>2 DEF EndStatusOnly
    <2> HIDE DEF refunded, amount, j
    <2> QED BY <2>1, <2>4, <2>5, EndBooks
  <1>4. CASE CommitDecline(w) \/ CommitHandover(w) \/ CommitScheduleReturn(w)
             \/ CommitConfirmReturn(w) \/ CommitReportDamage(w)
    <2>1. j.b \in Bookings
      BY <1>4, BookingJobType DEF CommitDecline, CommitHandover, CommitScheduleReturn,
         CommitConfirmReturn, CommitReportDamage
    <2>2. PICK outcome, row, told : End(w, j.b, outcome, Nothing, row, told, Nothing)
      BY <1>4 DEF CommitDecline, CommitHandover, CommitScheduleReturn,
         CommitConfirmReturn, CommitReportDamage, EndOneStep, EndStatusOnly
    <2> QED BY <2>1, <2>2, EndBooks, AmountsType
  <1>5. CASE CommitInspect(w)
    <2>1. j.b \in Bookings /\ j.mem \in Row
      BY <1>5, BookingJobType DEF CommitInspect
    <2>2. Settled(0, j.mem.rental) \in Amounts
      <3>1. j.mem.rental \in Nat
        BY <2>1, RowFields
      <3>2. 0 \in 0..Deposit
        BY RatesAssumption
      <3> QED BY <3>1, <3>2, SettledType
    <2>3. PICK outcome, row, told :
            End(w, j.b, outcome, Released(0), row, told, Settled(0, j.mem.rental))
      BY <1>5 DEF CommitInspect
    <2> QED BY <2>1, <2>2, <2>3, EndBooks
  <1>6. CASE CommitResolution(w)
    <2>1. j # Idle /\ j.phase = "resolving"
      BY <1>6 DEF CommitResolution, Idle
    <2>2. j.b \in Bookings /\ j.mem \in Row /\ j.dmem.final \in 0..Deposit
      BY <2>1, DisputeJobType DEF Dispute
    <2>3. Settled(j.dmem.final, j.mem.rental) \in Amounts
      BY <2>2, RowFields, SettledType
    <2>4. PICK outcome, row, told :
            End(w, j.b, outcome, Released(j.dmem.final), row, told,
                Settled(j.dmem.final, j.mem.rental))
      BY <1>6 DEF CommitResolution
    <2> QED BY <2>2, <2>3, <2>4, EndBooks
  <1>7. CASE CommitApproveExtension(w)
    <2> DEFINE charged == [Nothing EXCEPT !.charge = ExtensionPrice(j.ext)]
    <2>1. j # Idle /\ j.op = "approveExtension"
      BY <1>7, BusyAt DEF CommitApproveExtension
    <2>2. j.b \in Bookings /\ j.ext \in Extension
      BY <2>1, ExtensionJobType
    <2>3. ExtensionPrice(j.ext) \in Nat
      BY <2>2 DEF ExtensionPrice, Extension
    <2>4. charged \in Amounts
      BY <2>3, ChargeType
    <2>5. PICK outcome, row, told : End(w, j.b, outcome, charged, row, told, charged)
      BY <1>7 DEF CommitApproveExtension
    <2> HIDE DEF charged, j
    <2> QED BY <2>2, <2>4, <2>5, EndBooks
  <1>8. CASE CommitNegotiation(w) \/ CommitRequestExtension(w) \/ CommitCloseExtension(w)
    BY <1>8 DEF CommitNegotiation, CommitRequestExtension, CommitCloseExtension, LedgerStep
  <1> QED BY <1>1, <1>2, <1>3, <1>4, <1>5, <1>6, <1>7, <1>8 DEF Commits

\* Every step books at most one booking's entries.
LEMMA NextBooks == TypeInv /\ [Next]_vars => LedgerStep
  <1> SUFFICES ASSUME TypeInv, [Next]_vars PROVE LedgerStep
    OBVIOUS
  <1>1. CASE UNCHANGED ledger
    BY <1>1 DEF LedgerStep
  <1> QED BY <1>1, LoadsKeepTables, CommitsBook DEF Next, SaveProfile, vars, tables

---------------------------------------------------------------------------
(* What the ledger has been charged.  The fees of a row, of a copy and of  *)
(* an extension are those of a number of slots; a save that mixes columns  *)
(* of two versions of a row still writes the fees of one of them.  Every   *)
(* version of a booking is either as long as it was first booked (base) or *)
(* has been charged, and the base itself is charged once it is reserved.   *)

Lengths == Nat \ {0}

Price(k) == RentalRate * k + ServiceRate * k + Deposit

Priced(fees, k) == fees.rental = RentalRate * k /\ fees.service = ServiceRate * k

\* The stages that only a charged booking reaches.
Late == Stages \ {"requested", "accepted", "payment"}

\* This version of a row is sound when its booking has been charged so much.
Sound(charge, base, row) ==
    /\ \E k \in Lengths : /\ Priced(row, k) /\ k >= base
                          /\ k = base \/ (charge >= Price(k) /\ charge >= Price(base))
    /\ row.stage \in Late => charge >= Price(base)

ExtensionOps == {"requestExtension", "approveExtension", "declineExtension",
                 "cancelExtension"}

\* The requests that are accepted from a charged booking only.
LateOps == ExtensionOps \cup {"handover", "scheduleReturn", "confirmReturn", "inspect",
                              "reportDamage", "propose", "reject", "accept", "adminResolve"}

SoundJob(charge, base, j) ==
    /\ j.mem # NoRow => Sound(charge, base, j.mem)
    /\ j.op \in LateOps => charge >= Price(base)
    /\ j.op \in ExtensionOps => \E k \in Nat : Priced(j.ext, k)
    /\ j.phase = "selected" /\ j.op \in {"decline", "cancel", "scheduleReturn", "confirmReturn",
                                         "approveExtension"} =>
         \E k \in Lengths : Priced(j.seen, k)

SoundHistory(b, base) ==
    LET charge == ledger[b].charge
    IN  /\ Exists(b) => Sound(charge, base, rows[b])
        /\ disputes[b].status # "none" => charge >= Price(base)
        /\ \A e \in Extensions : exts[e].status # "absent" /\ exts[e].b = b =>
              charge >= Price(base) /\ \E k \in Nat : Priced(exts[e], k)
        /\ \A w \in Workers : job[w] # Idle /\ job[w].b = b => SoundJob(charge, base, job[w])

ChargesInv == \A b \in Bookings : \E base \in Lengths : SoundHistory(b, base)

\* A step leaves every history as sound as it was ...
HistoryKept(b) == \A base \in Lengths : SoundHistory(b, base) => SoundHistory(b, base)'

HistoriesKept == \A b \in Bookings : HistoryKept(b)

\* ... or it is the read of create, which starts the history of a booking
\* that nothing knows yet.
HistoryBegun ==
    \E b \in Bookings, base \in Lengths :
        SoundHistory(b, base)' /\ \A c \in Bookings \ {b} : HistoryKept(c)

\* Prices are amounts, and those of two lengths add up.
LEMMA PriceType ==
    ASSUME NEW k \in Nat, NEW n \in Nat
    PROVE  /\ RentalRate * k \in Nat /\ ServiceRate * k \in Nat /\ Price(k) \in Nat
           /\ RentalRate * (k + n) = RentalRate * k + RentalRate * n
           /\ ServiceRate * (k + n) = ServiceRate * k + ServiceRate * n
  <1>1. RentalRate \in Nat /\ ServiceRate \in Nat /\ Deposit \in Nat
    BY RatesAssumption
  <1>2. \A x, y \in Nat : x * y \in Nat
    OBVIOUS
  <1>3. \A x, y, z \in Nat : x * (y + z) = x * y + x * z
    OBVIOUS
  <1>4. RentalRate * k \in Nat /\ ServiceRate * k \in Nat
    BY <1>1, <1>2
  <1>5. Price(k) \in Nat
    BY <1>1, <1>4 DEF Price
  <1> QED BY <1>1, <1>3, <1>4, <1>5

\* Equal fees at a rate are free or of the same length.
LEMMA EqualFees ==
    ASSUME NEW rate \in Nat, NEW k \in Nat, NEW n \in Nat, rate * k = rate * n
    PROVE  rate = 0 \/ k = n
  <1>1. CASE k < n
    <2>1. \A x, y, z \in Nat : x > 0 /\ y < z => x * y < x * z
      OBVIOUS
    <2> QED BY <1>1, <2>1
  <1>2. CASE n < k
    <2>1. \A x, y, z \in Nat : x > 0 /\ y < z => x * y < x * z
      OBVIOUS
    <2> QED BY <1>2, <2>1
  <1> QED BY <1>1, <1>2

\* A save writes the fees of the copy or those it finds, never a mixture.
LEMMA SavePriced ==
    ASSUME NEW stored \in Row, NEW seen, NEW mem \in Row,
           NEW ks \in Lengths, NEW kn \in Lengths, NEW km \in Lengths,
           Priced(stored, ks), Priced(seen, kn), Priced(mem, km)
    PROVE  Priced(Save(stored, seen, mem), km) \/ Priced(Save(stored, seen, mem), ks)
  <1> DEFINE saved == Save(stored, seen, mem)
  <1>1. /\ saved.rental = Column(stored.rental, seen.rental, mem.rental)
        /\ saved.service = Column(stored.service, seen.service, mem.service)
    BY DEF Save, Row
  <1>2. RentalRate \in Nat /\ ServiceRate \in Nat
    BY RatesAssumption
  <1>3. \A k \in Lengths : 0 * k = 0
    BY DEF Lengths
  <1>4. RentalRate = 0 \/ km = kn \/ mem.rental # seen.rental
    BY <1>2, EqualFees DEF Priced, Lengths
  <1>5. ServiceRate = 0 \/ km = kn \/ mem.service # seen.service
    BY <1>2, EqualFees DEF Priced, Lengths
  <1>6. CASE km = kn
    BY <1>1, <1>6 DEF Priced, Column
  <1>7. CASE RentalRate = 0
    BY <1>1, <1>3, <1>7 DEF Priced, Column
  <1>8. CASE ServiceRate = 0
    BY <1>1, <1>3, <1>8 DEF Priced, Column
  <1>9. CASE mem.rental # seen.rental /\ mem.service # seen.service
    BY <1>1, <1>9 DEF Priced, Column
  <1> QED BY <1>4, <1>5, <1>6, <1>7, <1>8, <1>9

\* A save of a sound copy over a sound row leaves a sound row.
LEMMA SaveSound ==
    ASSUME NEW charge, NEW base, NEW stored \in Row, NEW seen, NEW mem \in Row,
           Sound(charge, base, stored), Sound(charge, base, mem),
           \E k \in Lengths : Priced(seen, k)
    PROVE  Sound(charge, base, Save(stored, seen, mem))
  <1> DEFINE saved == Save(stored, seen, mem)
  <1>1. PICK ks \in Lengths :
          /\ Priced(stored, ks) /\ ks >= base
          /\ ks = base \/ (charge >= Price(ks) /\ charge >= Price(base))
    BY DEF Sound
  <1>2. PICK km \in Lengths :
          /\ Priced(mem, km) /\ km >= base
          /\ km = base \/ (charge >= Price(km) /\ charge >= Price(base))
    BY DEF Sound
  <1>3. Priced(saved, km) \/ Priced(saved, ks)
    BY <1>1, <1>2, SavePriced
  <1>4. saved.stage \in {stored.stage, mem.stage}
    BY DEF Save, Column, Row
  <1>5. Sound(charge, base, saved)
    <2> HIDE DEF saved
    <2> QED BY <1>1, <1>2, <1>3, <1>4 DEF Sound
  <1> QED BY <1>5

\* Moving to another stage leaves a version sound, if a late one is paid.
LEMMA MoveSound ==
    ASSUME NEW charge, NEW base, NEW row \in Row, NEW status, NEW stage,
           Sound(charge, base, row), stage \in Late => charge >= Price(base)
    PROVE  Sound(charge, base, To(row, status, stage))
  <1>1. /\ To(row, status, stage).rental = row.rental
        /\ To(row, status, stage).service = row.service
        /\ To(row, status, stage).stage = stage
    BY DEF To, Row
  <1> HIDE DEF To
  <1> QED BY <1>1 DEF Sound, Priced

\* More in the ledger keeps a version, and a request, sound.
LEMMA MoreSound ==
    ASSUME NEW charge \in Nat, NEW more \in Nat, charge <= more, NEW base \in Lengths
    PROVE  /\ charge >= Price(base) => more >= Price(base)
           /\ \A row : Sound(charge, base, row) => Sound(more, base, row)
           /\ \A j : SoundJob(charge, base, j) => SoundJob(more, base, j)
  <1>1. \A k \in Lengths : charge >= Price(k) => more >= Price(k)
    BY PriceType DEF Lengths
  <1>2. \A row : Sound(charge, base, row) => Sound(more, base, row)
    BY <1>1 DEF Sound
  <1> QED BY <1>1, <1>2 DEF SoundJob

\* A request is taken up, or goes on, with sound copies.
LEMMA StartCharges ==
    ASSUME TypeInv, ChargesInv, NEW w \in Workers, NEW request,
           Start(w, request) \/ Proceed(w, request),
           request # Idle =>
              \A base \in Lengths : SoundHistory(request.b, base) =>
                 SoundJob(ledger[request.b].charge, base, request)
    PROVE  HistoriesKept
  <1>1. UNCHANGED <<rows, disputes, exts, ledger>> /\ job' = [job EXCEPT ![w] = request]
    BY DEF Start, Proceed, tables
  <1>2. SUFFICES ASSUME NEW b \in Bookings, NEW base \in Lengths, SoundHistory(b, base)
                 PROVE  SoundHistory(b, base)'
    BY DEF HistoriesKept, HistoryKept
  <1>3. SoundHistory(b, base)
    BY <1>2
  <1>4. ASSUME NEW v \in Workers, job'[v] # Idle, job'[v].b = b
        PROVE  SoundJob(ledger[b].charge, base, job'[v])
    <2>1. CASE v = w
      <3>1. job'[v] = request
        BY <1>1, <2>1 DEF TypeInv, TypeOK
      <3> QED BY <1>3, <1>4, <3>1
    <2>2. CASE v # w
      <3>1. job'[v] = job[v]
        BY <1>1, <2>2 DEF TypeInv, TypeOK
      <3> QED BY <1>3, <1>4, <3>1 DEF SoundHistory
    <2> QED BY <2>1, <2>2
  <1>5. SoundHistory(b, base)'
    <2>1. /\ (Exists(b) => Sound(ledger[b].charge, base, rows[b]))'
          /\ (disputes[b].status # "none" => ledger[b].charge >= Price(base))'
          /\ (\A e \in Extensions : exts[e].status # "absent" /\ exts[e].b = b =>
                ledger[b].charge >= Price(base) /\ \E k \in Nat : Priced(exts[e], k))'
      BY <1>1, <1>3 DEF SoundHistory, Exists
    <2>2. (\A v \in Workers : job[v] # Idle /\ job[v].b = b =>
                                 SoundJob(ledger[b].charge, base, job[v]))'
      BY <1>1, <1>4
    <2> QED BY <2>1, <2>2 DEF SoundHistory
  <1> QED BY <1>5

\* Booking b's history shows that it has been charged its base price.
BasePaid(b) == \A base \in Lengths : SoundHistory(b, base) => ledger[b].charge >= Price(base)

\* A request's step writes no row, or one that is sound after it.
RowsSound ==
    UNCHANGED rows \/ \E b \in Bookings : \E row \in Row :
        /\ rows' = [rows EXCEPT ![b] = row]
        /\ \A base \in Lengths : SoundHistory(b, base) =>
              Sound(ledger'[b].charge, base, row)

\* Disputes are opened, and extensions requested, on charged bookings only.
DisputesPaid ==
    \A b \in Bookings : disputes'[b].status # "none" =>
        disputes[b].status # "none" \/ BasePaid(b)

ExtensionsPriced ==
    \A e \in Extensions : exts'[e].status # "absent" =>
        \/ /\ exts[e].status # "absent" /\ exts'[e].b = exts[e].b
           /\ exts'[e].rental = exts[e].rental /\ exts'[e].service = exts[e].service
        \/ BasePaid(exts'[e].b) /\ \E k \in Nat : Priced(exts'[e], k)

\* The end of a request that writes sound data preserves the invariant.
LEMMA FinishCharges ==
    ASSUME TypeInv, ChargesInv, NEW w \in Workers, job' = [job EXCEPT ![w] = Idle],
           LedgerStep, RowsSound, DisputesPaid, ExtensionsPriced
    PROVE  HistoriesKept
  <1> SUFFICES ASSUME NEW b \in Bookings, NEW base \in Lengths, SoundHistory(b, base)
               PROVE  SoundHistory(b, base)'
    BY DEF HistoriesKept, HistoryKept
  <1> DEFINE charge == ledger[b].charge
             more == ledger'[b].charge
  <1>1. SoundHistory(b, base)
    OBVIOUS
  <1>2. charge \in Nat /\ more \in Nat /\ charge <= more
    <2>1. ledger \in [Bookings -> Amounts]
      BY DEF TypeInv, TypeOK
    <2>2. ledger'[b] = ledger[b] \/ \E booked \in Amounts : ledger'[b] = Plus(ledger[b], booked)
      BY <2>1 DEF LedgerStep, Books
    <2>3. \A booked \in Amounts : /\ Plus(ledger[b], booked).charge \in Nat
                                  /\ ledger[b].charge <= Plus(ledger[b], booked).charge
      BY <2>1 DEF Plus, Amounts
    <2>4. ledger[b].charge \in Nat
      BY <2>1 DEF Amounts
    <2> QED BY <2>2, <2>3, <2>4
  <1>3. /\ charge >= Price(base) => more >= Price(base)
        /\ \A row : Sound(charge, base, row) => Sound(more, base, row)
        /\ \A j : SoundJob(charge, base, j) => SoundJob(more, base, j)
    <2> HIDE DEF charge, more
    <2> QED BY <1>2, MoreSound
  <1>4. rows'[b].status # "absent" => Sound(more, base, rows'[b])
    <2>1. CASE rows'[b] = rows[b]
      BY <1>1, <1>3, <2>1 DEF SoundHistory, Exists
    <2>2. CASE rows'[b] # rows[b]
      <3>1. PICK c \in Bookings, row \in Row :
              /\ rows' = [rows EXCEPT ![c] = row]
              /\ SoundHistory(c, base) => Sound(ledger'[c].charge, base, row)
        BY <2>2 DEF RowsSound
      <3>2. c = b /\ rows'[b] = row
        BY <2>2, <3>1 DEF TypeInv, TypeOK
      <3> QED BY <1>1, <3>1, <3>2
    <2> QED BY <2>1, <2>2
  <1>5. disputes'[b].status # "none" => more >= Price(base)
    BY <1>1, <1>3 DEF DisputesPaid, BasePaid, SoundHistory
  <1>6. ASSUME NEW e \in Extensions, exts'[e].status # "absent", exts'[e].b = b
        PROVE  more >= Price(base) /\ \E k \in Nat : Priced(exts'[e], k)
    <2>1. CASE /\ exts[e].status # "absent" /\ exts'[e].b = exts[e].b
               /\ exts'[e].rental = exts[e].rental /\ exts'[e].service = exts[e].service
      <3>1. charge >= Price(base) /\ \E k \in Nat : Priced(exts[e], k)
        BY <1>1, <1>6, <2>1 DEF SoundHistory
      <3> QED BY <1>3, <2>1, <3>1 DEF Priced
    <2>2. CASE BasePaid(exts'[e].b) /\ \E k \in Nat : Priced(exts'[e], k)
      BY <1>1, <1>3, <1>6, <2>2 DEF BasePaid
    <2> QED BY <1>6, <2>1, <2>2 DEF ExtensionsPriced
  <1>7. ASSUME NEW v \in Workers, job'[v] # Idle, job'[v].b = b
        PROVE  SoundJob(more, base, job'[v])
    <2>1. job'[v] = job[v]
      BY <1>7 DEF TypeInv, TypeOK
    <2> QED BY <1>1, <1>3, <1>7, <2>1 DEF SoundHistory
  <1>8. SoundHistory(b, base)'
    <2> HIDE DEF more
    <2>1. more = (ledger[b].charge)'
      BY DEF more
    <2> QED BY <1>4, <1>5, <1>6, <1>7, <2>1 DEF SoundHistory, Exists
  <1> QED BY <1>8

\* What a request on a booking starts with.
LEMMA LoadCharges ==
    ASSUME TypeInv, ChargesInv, NEW w \in Workers, NEW b \in Bookings,
           NEW op \in {"approve", "decline", "cancel", "handover", "scheduleReturn",
                      "confirmReturn", "inspect", "reportDamage"},
           Load(w, op, b), op \in LateOps => rows[b].stage \in Late
    PROVE  HistoriesKept
  <1> DEFINE request == [op |-> op, phase |-> "loaded", b |-> b, mem |-> rows[b],
                         seen |-> NoRow]
  <1>1. Exists(b) /\ Start(w, request)
    BY DEF Load
  <1>2. ASSUME NEW base \in Lengths, SoundHistory(b, base)
        PROVE  SoundJob(ledger[b].charge, base, request)
    <2>1. Sound(ledger[b].charge, base, rows[b])
      BY <1>1, <1>2 DEF SoundHistory
    <2>2. op \in LateOps => ledger[b].charge >= Price(base)
      BY <2>1 DEF Sound
    <2>3. op \notin ExtensionOps
      BY DEF ExtensionOps
    <2>4. /\ request.op = op /\ request.phase = "loaded" /\ request.mem = rows[b]
      OBVIOUS
    <2> HIDE DEF request
    <2> QED BY <2>1, <2>2, <2>3, <2>4 DEF SoundJob
  <1>3. request.b = b
    OBVIOUS
  <1> HIDE DEF request
  <1> QED BY <1>1, <1>2, <1>3, StartCharges

\* A dispute is worked on after the booking was charged.
LEMMA LoadDisputeCharges ==
    ASSUME TypeInv, ChargesInv, NEW w \in Workers, NEW b \in Bookings,
           NEW op \in {"propose", "reject", "accept", "adminResolve"},
           NEW statuses, "none" \notin statuses, NEW dmem,
           LoadDispute(w, op, b, statuses, dmem)
    PROVE  HistoriesKept
  <1> DEFINE request == [op |-> op, phase |-> "loaded", b |-> b, dmem |-> dmem,
                         dseen |-> NoDispute, mem |-> NoRow]
  <1>1. disputes[b].status # "none" /\ Start(w, request)
    BY DEF LoadDispute
  <1>2. ASSUME NEW base \in Lengths, SoundHistory(b, base)
        PROVE  SoundJob(ledger[b].charge, base, request)
    <2>1. ledger[b].charge >= Price(base)
      BY <1>1, <1>2 DEF SoundHistory
    <2>2. op \notin ExtensionOps
      BY DEF ExtensionOps
    <2>3. request.op = op /\ request.phase = "loaded" /\ request.mem = NoRow
      OBVIOUS
    <2> HIDE DEF request
    <2> QED BY <2>1, <2>2, <2>3 DEF SoundJob
  <1>3. request.b = b
    OBVIOUS
  <1> HIDE DEF request
  <1> QED BY <1>1, <1>2, <1>3, StartCharges

\* An extension is worked on after the booking was charged.
LEMMA LoadExtensionCharges ==
    ASSUME TypeInv, ChargesInv, NEW w \in Workers, NEW e, NEW ext, NEW op \in ExtensionOps,
           NEW phase \in {"found", "loaded"}, NEW mem,
           Start(w, [op |-> op, phase |-> phase, b |-> ext.b, e |-> e, ext |-> ext,
                     mem |-> mem, seen |-> NoRow]),
           mem = NoRow \/ (mem = rows[ext.b] /\ Exists(ext.b)), BasePaid(ext.b),
           \E k \in Nat : Priced(ext, k)
    PROVE  HistoriesKept
  <1> DEFINE request == [op |-> op, phase |-> phase, b |-> ext.b, e |-> e,
                         ext |-> ext, mem |-> mem, seen |-> NoRow]
  <1>1. Start(w, request)
    OBVIOUS
  <1>2. ASSUME NEW base \in Lengths, SoundHistory(ext.b, base)
        PROVE  SoundJob(ledger[ext.b].charge, base, request)
    <2>1. ledger[ext.b].charge >= Price(base)
      BY <1>2 DEF BasePaid
    <2>2. mem # NoRow => Sound(ledger[ext.b].charge, base, mem)
      BY <1>2 DEF SoundHistory
    <2>3. /\ request.op = op /\ request.phase # "selected" /\ request.mem = mem
          /\ request.ext = ext
      OBVIOUS
    <2> HIDE DEF request
    <2> QED BY <2>1, <2>2, <2>3 DEF SoundJob
  <1>3. request.b = ext.b
    OBVIOUS
  <1> HIDE DEF request
  <1> QED BY <1>1, <1>2, <1>3, StartCharges

\* create starts the history of its booking: nothing else knows it yet.
LEMMA LoadCreateCharges ==
    ASSUME TypeInv, NEW w \in Workers, NEW b \in Bookings, NEW unit \in Units,
           NEW win \in Windows, NEW mode \in Modes, Fresh(b),
           Start(w, [op |-> "create", phase |-> "loaded", b |-> b, seen |-> NoRow,
                     mem |-> [status |-> "pending", stage |-> "requested",
                              unit |-> unit, from |-> win[1], to |-> win[2],
                              mode |-> mode, rental |-> RentalFor(win[1], win[2]),
                              service |-> ServiceFor(win[1], win[2])]])
    PROVE  /\ win[2] - win[1] \in Lengths
           /\ SoundHistory(b, win[2] - win[1])'
           /\ \A c \in Bookings \ {b} : HistoryKept(c)
  <1> DEFINE first == win[2] - win[1]
             mem == [status |-> "pending", stage |-> "requested",
                     unit |-> unit, from |-> win[1], to |-> win[2],
                     mode |-> mode, rental |-> RentalFor(win[1], win[2]),
                     service |-> ServiceFor(win[1], win[2])]
             request == [op |-> "create", phase |-> "loaded", b |-> b, seen |-> NoRow,
                         mem |-> mem]
  <1>2. first \in Lengths
    BY LifecycleAssumption DEF Lengths
  <1>3. Priced(mem, first) /\ mem.stage \notin Late
    BY DEF Priced, RentalFor, ServiceFor, Late
  <1>4. UNCHANGED <<rows, disputes, exts, ledger>> /\ job' = [job EXCEPT ![w] = request]
    BY DEF Start, tables
  <1>5. request.op = "create" /\ request.phase = "loaded" /\ request.b = b /\ request.mem = mem
    OBVIOUS
  <1> HIDE DEF request, mem, first
  <1>6. SoundJob(ledger[b].charge, first, request)
    BY <1>2, <1>3, <1>5 DEF SoundJob, Sound, LateOps, ExtensionOps, Lengths
  <1>7. SoundHistory(b, first)'
    <2>1. ~Exists(b)' /\ disputes'[b].status = "none"
      BY <1>4 DEF Fresh, Exists, TypeInv, WellFormed
    <2>2. \A e \in Extensions : exts'[e].status = "absent" \/ exts'[e].b # b
      BY <1>4 DEF Fresh, TypeInv, WellFormed
    <2>3. ASSUME NEW v \in Workers, job'[v] # Idle, job'[v].b = b
          PROVE  SoundJob(ledger'[b].charge, first, job'[v])
      <3>1. CASE v = w
        <4>1. job'[v] = request
          BY <1>4, <3>1 DEF TypeInv, TypeOK
        <4> QED BY <1>4, <1>6, <4>1
      <3>2. CASE v # w
        <4>1. job'[v] = job[v]
          BY <1>4, <3>2 DEF TypeInv, TypeOK
        <4> QED BY <2>3, <4>1 DEF Fresh
      <3> QED BY <3>1, <3>2
    <2> QED BY <2>1, <2>2, <2>3 DEF SoundHistory
  <1>8. ASSUME NEW c \in Bookings \ {b}, NEW base \in Lengths, SoundHistory(c, base)
        PROVE  SoundHistory(c, base)'
    <2>1. SoundHistory(c, base)
      BY <1>8
    <2>2. ASSUME NEW v \in Workers, job'[v] # Idle, job'[v].b = c
          PROVE  SoundJob(ledger'[c].charge, base, job'[v])
      <3>1. job'[v] = job[v]
        BY <1>4, <1>5, <2>2 DEF TypeInv, TypeOK
      <3> QED BY <1>4, <2>1, <2>2, <3>1 DEF SoundHistory
    <2>3. /\ (Exists(c) => Sound(ledger[c].charge, base, rows[c]))'
          /\ (disputes[c].status # "none" => ledger[c].charge >= Price(base))'
          /\ (\A e \in Extensions : exts[e].status # "absent" /\ exts[e].b = c =>
                ledger[c].charge >= Price(base) /\ \E k \in Nat : Priced(exts[e], k))'
      BY <1>4, <2>1 DEF SoundHistory, Exists
    <2> QED BY <2>2, <2>3 DEF SoundHistory
  <1> QED BY <1>2, <1>7, <1>8 DEF HistoryKept, first

\* Every read of a request starts from sound copies.
LEMMA LoadsCharges ==
    ASSUME TypeInv, ChargesInv, NEW w \in Workers, Loads(w), ~LoadCreate(w)
    PROVE  HistoriesKept
  <1>1. \A stage : stage \in {"reserved", "ready", "active", "returnsched", "returned"} =>
          stage \in Late
    BY StagesAre DEF Late
  <1>2. ASSUME NEW op \in {"handover", "scheduleReturn", "confirmReturn", "inspect",
                          "reportDamage"},
               NEW b \in Bookings, Load(w, op, b),
               rows[b].stage \in {"reserved", "ready", "active", "returnsched", "returned"}
        PROVE  HistoriesKept
    BY <1>1, <1>2, LoadCharges
  <1>3. CASE LoadApprove(w) \/ LoadDecline(w) \/ LoadCancel(w)
    <2>1. "approve" \notin LateOps /\ "decline" \notin LateOps /\ "cancel" \notin LateOps
      BY DEF LateOps, ExtensionOps
    <2> QED BY <1>3, <2>1, LoadCharges DEF LoadApprove, LoadDecline, LoadCancel
  <1>4. CASE LoadHandover(w) \/ LoadScheduleReturn(w) \/ LoadConfirmReturn(w)
             \/ LoadReportDamage(w) \/ LoadInspect(w)
    BY <1>2, <1>4 DEF LoadHandover, LoadScheduleReturn, LoadConfirmReturn,
       LoadReportDamage, LoadInspect, LoadAtStage
  <1>5. CASE LoadPropose(w) \/ LoadReject(w) \/ LoadAccept(w) \/ LoadAdminResolve(w)
    <2>1. PICK b, op, statuses, dmem :
            /\ b \in Bookings /\ op \in {"propose", "reject", "accept", "adminResolve"}
            /\ "none" \notin statuses
            /\ LoadDispute(w, op, b, statuses, dmem)
      BY <1>5 DEF LoadPropose, LoadReject, LoadAccept, LoadAdminResolve
    <2> QED BY <2>1, LoadDisputeCharges
  <1>6. CASE LoadRequestExtension(w)
    <2>1. PICK b \in Bookings, e \in Extensions, newEnd \in 1..MaxTime :
            /\ Exists(b)
            /\ rows[b].stage = "active"
            /\ newEnd > rows[b].to
            /\ LoadExtension(w, "requestExtension", e,
                   [status |-> "pending", b |-> b, newEnd |-> newEnd,
                    rental |-> RentalFor(rows[b].to, newEnd),
                    service |-> ServiceFor(rows[b].to, newEnd)], rows[b])
      BY <1>6 DEF LoadRequestExtension
    <2> DEFINE ext == [status |-> "pending", b |-> b, newEnd |-> newEnd,
                       rental |-> RentalFor(rows[b].to, newEnd),
                       service |-> ServiceFor(rows[b].to, newEnd)]
    <2>2. rows[b] \in Row /\ rows[b].to \in Nat /\ newEnd \in Nat
      BY <2>1, RowExists, RatesAssumption DEF TypeInv, Row
    <2>3. ext \in Extension
      BY <2>1, <2>2, FeesType DEF Extension, ExtensionStatuses
    <2>4. newEnd - rows[b].to \in Nat /\ Priced(ext, newEnd - rows[b].to)
      BY <2>1, <2>2 DEF Priced, RentalFor, ServiceFor
    <2>5. BasePaid(b)
      BY <1>1, <2>1 DEF BasePaid, SoundHistory, Sound
    <2>6. "requestExtension" \in ExtensionOps
      BY DEF ExtensionOps
    <2>7. ext.b = b
      OBVIOUS
    <2>8. Start(w, [op |-> "requestExtension", phase |-> "loaded", b |-> ext.b, e |-> e,
                    ext |-> ext, mem |-> rows[b], seen |-> NoRow])
      BY <2>1 DEF LoadExtension
    <2> HIDE DEF ext
    <2> QED BY <2>1, <2>4, <2>5, <2>6, <2>7, <2>8, LoadExtensionCharges
  <1>7. CASE FindExtension(w) \/ LoadCloseExtension(w)
    <2>1. PICK e, op, phase :
            /\ e \in Extensions /\ op \in ExtensionOps
            /\ phase \in {"found", "loaded"}
            /\ exts[e].status = "pending"
            /\ Start(w, [op |-> op, phase |-> phase, b |-> exts[e].b, e |-> e,
                         ext |-> exts[e], mem |-> NoRow, seen |-> NoRow])
      BY <1>7 DEF FindExtension, LoadCloseExtension, LoadExtension, ExtensionOps
    <2>2. exts[e] \in Extension /\ exts[e].b \in Bookings /\ Exists(exts[e].b)
      BY <2>1 DEF TypeInv, TypeOK, WellFormed, NoExtension, Extension
    <2>3. BasePaid(exts[e].b) /\ \E k \in Nat : Priced(exts[e], k)
      BY <2>1, <2>2 DEF BasePaid, ChargesInv, SoundHistory
    <2> QED BY <2>1, <2>3, LoadExtensionCharges
  <1> QED BY <1>3, <1>4, <1>5, <1>6, <1>7 DEF Loads

\* A request in progress is sound with respect to its booking's history.
LEMMA JobCharges ==
    ASSUME NEW w \in Workers, job[w] # Idle, NEW base, SoundHistory(job[w].b, base)
    PROVE  SoundJob(ledger[job[w].b].charge, base, job[w])
  BY DEF SoundHistory

\* Every select of a save keeps the copies sound.
LEMMA SelectsCharges ==
    ASSUME TypeInv, ChargesInv, NEW w \in Workers, Selects(w)
    PROVE  HistoriesKept
  <1> DEFINE j == job[w]
             charge == ledger[j.b].charge
  <1>1. j # Idle
    BY DEF Selects, SelectRow, SelectDispute, LockDispute, LoadApproveExtension, At, Idle
  <1>2. j \in Job /\ GoodJob(j)
    BY <1>1, JobKinds DEF TypeInv, WellFormed
  <1>3. CASE SelectRow(w)
    <2> DEFINE request == [j EXCEPT !.phase = "selected", !.seen = rows[j.b]]
    <2>1. PICK op \in {"decline", "cancel", "scheduleReturn", "confirmReturn",
                       "reportDamage", "approveExtension"} : At(w, op, "loaded")
      BY <1>3 DEF SelectRow
    <2>2. j.op = op
      BY <2>1, BusyAt
    <2>3. Exists(j.b) /\ j \in BookingJob \cup ExtensionJob
      BY <1>1, <1>2, <2>2, JobKinds DEF TypeInv, GoodJob
    <2>4. /\ request.b = j.b /\ request.op = j.op /\ request.mem = j.mem
          /\ request.seen = rows[j.b]
          /\ request.op \in ExtensionOps => request.ext = j.ext
      BY <2>3 DEF BookingJob, ExtensionJob, ExtensionOps
    <2>5. Proceed(w, request)
      BY <1>3 DEF SelectRow
    <2> HIDE DEF request
    <2>6. ASSUME NEW base \in Lengths, SoundHistory(j.b, base)
          PROVE  SoundJob(charge, base, request)
      <3>1. SoundJob(charge, base, j) /\ Sound(charge, base, rows[j.b])
        BY <1>1, <2>3, <2>6, JobCharges DEF SoundHistory
      <3> HIDE DEF j, charge
      <3> QED BY <2>4, <3>1 DEF SoundJob, Sound
    <2> QED BY <2>4, <2>5, <2>6, StartCharges
  <1>4. CASE SelectDispute(w) \/ LockDispute(w)
    <2>1. j.op \in {"propose", "reject", "accept", "adminResolve"}
      BY <1>4 DEF SelectDispute, LockDispute, At
    <2>2. j \in DisputeJob /\ Exists(j.b)
      BY <1>1, <1>2, <2>1, JobKinds DEF TypeInv, GoodJob
    <2>3. PICK request : /\ Proceed(w, request)
                         /\ request.b = j.b /\ request.op = j.op
                         /\ request.mem \in {j.mem, rows[j.b]}
      <3>1. CASE SelectDispute(w)
        <4> DEFINE request == [j EXCEPT !.phase = "selected", !.dseen = disputes[j.b]]
        <4>1. Proceed(w, request)
          BY <3>1 DEF SelectDispute
        <4>2. request.b = j.b /\ request.op = j.op /\ request.mem = j.mem
          BY <2>2 DEF DisputeJob
        <4> HIDE DEF request
        <4> QED BY <4>1, <4>2
      <3>2. CASE LockDispute(w)
        <4> DEFINE request == [j EXCEPT !.phase = "resolving", !.mem = rows[j.b]]
        <4>1. Proceed(w, request)
          BY <3>2 DEF LockDispute
        <4>2. request.b = j.b /\ request.op = j.op /\ request.mem = rows[j.b]
          BY <2>2 DEF DisputeJob
        <4> HIDE DEF request
        <4> QED BY <4>1, <4>2
      <3> QED BY <1>4, <3>1, <3>2
    <2>4. ASSUME NEW base \in Lengths, SoundHistory(j.b, base)
          PROVE  SoundJob(charge, base, request)
      <3>1. SoundJob(charge, base, j) /\ Sound(charge, base, rows[j.b])
        BY <1>1, <2>2, <2>4, JobCharges DEF SoundHistory
      <3> HIDE DEF j, charge
      <3> QED BY <2>1, <2>3, <3>1 DEF SoundJob, ExtensionOps
    <2> QED BY <2>3, <2>4, StartCharges
  <1>5. CASE LoadApproveExtension(w)
    <2> DEFINE request == [j EXCEPT !.phase = "loaded", !.mem = rows[j.b]]
    <2>1. j.op = "approveExtension"
      BY <1>5 DEF LoadApproveExtension, At
    <2>2. j \in ExtensionJob /\ Exists(j.b)
      BY <1>1, <1>2, <2>1, JobKinds DEF TypeInv, GoodJob
    <2>3. Proceed(w, Idle) \/ Proceed(w, request)
      BY <1>5 DEF LoadApproveExtension
    <2>4. /\ request.b = j.b /\ request.op = j.op /\ request.mem = rows[j.b]
          /\ request.phase = "loaded" /\ request.ext = j.ext
      BY <2>2 DEF ExtensionJob
    <2> HIDE DEF request
    <2>5. ASSUME NEW base \in Lengths, SoundHistory(j.b, base)
          PROVE  SoundJob(charge, base, request)
      <3>1. SoundJob(charge, base, j) /\ Sound(charge, base, rows[j.b])
        BY <1>1, <2>2, <2>5, JobCharges DEF SoundHistory
      <3> HIDE DEF j, charge
      <3> QED BY <2>4, <3>1 DEF SoundJob
    <2> QED BY <2>3, <2>4, <2>5, StartCharges
  <1> QED BY <1>3, <1>4, <1>5 DEF Selects

\* The end of a transaction writes a sound row on commit, or none.
LEMMA EndSound ==
    ASSUME TypeInv, NEW w, NEW b \in Bookings, NEW outcome, NEW moved, NEW row \in Row,
           NEW told, NEW booked \in Amounts, End(w, b, outcome, moved, row, told, booked),
           \A base \in Lengths : SoundHistory(b, base) =>
              Sound(ledger[b].charge + booked.charge, base, row)
    PROVE  RowsSound
  <1>1. CASE outcome = "commit"
    <2>1. rows' = [rows EXCEPT ![b] = row]
      BY <1>1 DEF End
    <2>2. ledger'[b].charge = ledger[b].charge + booked.charge
      BY <1>1 DEF End, TypeInv, TypeOK, Plus
    <2> QED BY <2>1, <2>2 DEF RowsSound
  <1>2. CASE outcome # "commit"
    BY <1>2 DEF End, RowsSound
  <1> QED BY <1>1, <1>2

\* A version that is the copy's is sound after what is booked.
LEMMA BookedSound ==
    ASSUME TypeInv, NEW b \in Bookings, NEW booked \in Amounts, NEW base \in Lengths
    PROVE  /\ ledger[b].charge \in Nat /\ ledger[b].charge + booked.charge \in Nat
           /\ \A row : Sound(ledger[b].charge, base, row) =>
                Sound(ledger[b].charge + booked.charge, base, row)
           /\ ledger[b].charge >= Price(base) =>
                ledger[b].charge + booked.charge >= Price(base)
  <1>1. /\ ledger[b].charge \in Nat /\ ledger[b].charge + booked.charge \in Nat
        /\ ledger[b].charge <= ledger[b].charge + booked.charge
    BY DEF TypeInv, TypeOK, Amounts
  <1> QED BY <1>1, MoreSound

\* A copy that is charged its total is sound at any stage.
LEMMA ChargedSound ==
    ASSUME NEW charge \in Nat, NEW base \in Lengths, NEW row \in Row, NEW status,
           NEW stage, Sound(charge, base, row)
    PROVE  Sound(charge + Total(row), base, To(row, status, stage))
  <1>1. PICK k \in Lengths :
          Priced(row, k) /\ (k = base \/ (charge >= Price(k) /\ charge >= Price(base)))
    BY DEF Sound
  <1>2. Total(row) = Price(k) /\ Price(k) \in Nat /\ Price(base) \in Nat
    BY <1>1, PriceType DEF Total, Price, Priced, Lengths
  <1>3. charge + Total(row) >= Price(base)
    BY <1>1, <1>2
  <1>4. charge + Total(row) \in Nat /\ charge <= charge + Total(row)
    BY <1>2
  <1>5. Sound(charge + Total(row), base, row)
    BY <1>4, MoreSound
  <1> QED BY <1>3, <1>5, MoveSound

\* A copy lengthened by an extension that is charged is sound.
LEMMA LengthenedSound ==
    ASSUME NEW charge \in Nat, NEW base \in Lengths, NEW row \in Row, NEW ext \in Extension,
           NEW n \in Nat, Priced(ext, n), Sound(charge, base, row), charge >= Price(base)
    PROVE  Sound(charge + ExtensionPrice(ext), base,
                 [row EXCEPT !.to = ext.newEnd, !.rental = @ + ext.rental,
                             !.service = @ + ext.service])
  <1> DEFINE longer == [row EXCEPT !.to = ext.newEnd, !.rental = @ + ext.rental,
                                   !.service = @ + ext.service]
             more == charge + ExtensionPrice(ext)
  <1>1. PICK k \in Lengths :
          /\ Priced(row, k) /\ k >= base
          /\ k = base \/ (charge >= Price(k) /\ charge >= Price(base))
    BY DEF Sound
  <1>2. /\ longer.rental = row.rental + ext.rental
        /\ longer.service = row.service + ext.service
        /\ longer.stage = row.stage
    BY DEF Row
  <1>3. k + n \in Lengths /\ k \in Nat /\ k + n >= base
    BY <1>1 DEF Lengths
  <1>4. Priced(longer, k + n)
    BY <1>1, <1>2, <1>3, PriceType DEF Priced
  <1>5. /\ Price(k + n) = Price(k) + ExtensionPrice(ext)
        /\ Price(k) \in Nat /\ Price(base) \in Nat /\ ExtensionPrice(ext) \in Nat
    <2>1. /\ ext.rental = RentalRate * n /\ ext.service = ServiceRate * n
          /\ ext.rental \in Nat /\ ext.service \in Nat
      BY DEF Priced, Extension
    <2>2. /\ RentalRate * k \in Nat /\ ServiceRate * k \in Nat /\ Price(k) \in Nat
          /\ RentalRate * (k + n) = RentalRate * k + RentalRate * n
          /\ ServiceRate * (k + n) = ServiceRate * k + ServiceRate * n
          /\ Price(base) \in Nat /\ Deposit \in Nat
      BY <1>3, PriceType, RatesAssumption DEF Lengths
    <2> QED BY <2>1, <2>2 DEF Price, ExtensionPrice
  <1>6. more >= Price(k + n) /\ more >= Price(base)
    BY <1>1, <1>5
  <1> HIDE DEF longer, more
  <1>7. Sound(more, base, longer)
    BY <1>2, <1>3, <1>4, <1>6 DEF Sound
  <1> QED BY <1>7 DEF longer, more

\* setStatusOnly writes a sound row.
LEMMA StatusOnlySound ==
    ASSUME TypeInv, ChargesInv, NEW w \in Workers, NEW op \in {"decline", "cancel"},
           At(w, op, "selected"), NEW status \in Statuses, NEW moved \in Amounts,
           EndStatusOnly(w, status, moved)
    PROVE  RowsSound
  <1> DEFINE j == job[w]
             mem == [j.mem EXCEPT !.status = status]
             row == Save(rows[j.b], j.seen, mem)
  <1>1. j # Idle /\ j.op = op /\ j.phase = "selected"
    BY BusyAt
  <1>2. j.b \in Bookings /\ j.mem \in Row /\ rows[j.b] \in Row
    BY BookingJobType
  <1>3. Exists(j.b) /\ j.mem # NoRow
    BY <1>2, RowExists DEF TypeInv, Row, NoRow, Statuses
  <1>4. mem \in Row /\ mem = To(j.mem, status, j.mem.stage) /\ j.mem.stage \in Stages
    BY <1>2 DEF Row, To
  <1>5. row \in Row
    BY <1>2, <1>4, SaveType
  <1>6. PICK outcome, told : End(w, j.b, outcome, moved, row, told, moved)
    BY DEF EndStatusOnly
  <1>7. ASSUME NEW base \in Lengths, SoundHistory(j.b, base)
        PROVE  Sound(ledger[j.b].charge + moved.charge, base, row)
    <2>1. /\ SoundJob(ledger[j.b].charge, base, j)
          /\ Sound(ledger[j.b].charge, base, rows[j.b])
      BY <1>1, <1>3, <1>7, JobCharges DEF SoundHistory
    <2>2. /\ Sound(ledger[j.b].charge, base, j.mem)
          /\ \E k \in Lengths : Priced(j.seen, k)
      BY <1>1, <1>3, <2>1 DEF SoundJob
    <2>3. j.mem.stage \in Late => ledger[j.b].charge >= Price(base)
      BY <2>2 DEF Sound
    <2> HIDE DEF mem
    <2>4. Sound(ledger[j.b].charge, base, mem)
      BY <1>2, <1>4, <2>2, <2>3, MoveSound
    <2>5. Sound(ledger[j.b].charge, base, row)
      BY <1>2, <1>4, <2>1, <2>2, <2>4, SaveSound
    <2> HIDE DEF row, j
    <2> QED BY <1>2, <2>5, BookedSound
  <1> HIDE DEF row, mem, j
  <1> QED BY <1>2, <1>5, <1>6, <1>7, EndSound

\* runSteps writes a sound row.
LEMMA OneStepSound ==
    ASSUME TypeInv, ChargesInv, NEW w \in Workers,
           NEW op \in {"scheduleReturn", "confirmReturn"}, At(w, op, "selected"),
           NEW stage \in Stages, EndOneStep(w, stage)
    PROVE  RowsSound
  <1> DEFINE j == job[w]
             mem == To(j.mem, "confirmed", stage)
             row == Save(rows[j.b], j.seen, mem)
  <1>1. j # Idle /\ j.op = op /\ j.phase = "selected"
    BY BusyAt
  <1>2. j.b \in Bookings /\ j.mem \in Row /\ rows[j.b] \in Row
    BY BookingJobType
  <1>3. Exists(j.b) /\ j.mem # NoRow
    BY <1>2, RowExists DEF TypeInv, Row, NoRow, Statuses
  <1>4. mem \in Row
    BY <1>2, ToType DEF Statuses
  <1>5. row \in Row
    BY <1>2, <1>4, SaveType
  <1>6. PICK outcome, told : End(w, j.b, outcome, Nothing, row, told, Nothing)
    BY DEF EndOneStep
  <1>7. ASSUME NEW base \in Lengths, SoundHistory(j.b, base)
        PROVE  Sound(ledger[j.b].charge + Nothing.charge, base, row)
    <2>1. /\ SoundJob(ledger[j.b].charge, base, j)
          /\ Sound(ledger[j.b].charge, base, rows[j.b])
      BY <1>1, <1>3, <1>7, JobCharges DEF SoundHistory
    <2>2. /\ Sound(ledger[j.b].charge, base, j.mem)
          /\ \E k \in Lengths : Priced(j.seen, k)
          /\ ledger[j.b].charge >= Price(base)
      BY <1>1, <1>3, <2>1 DEF SoundJob, LateOps
    <2>3. Sound(ledger[j.b].charge, base, mem)
      BY <1>2, <2>2, MoveSound
    <2> HIDE DEF mem
    <2>4. Sound(ledger[j.b].charge, base, row)
      BY <1>2, <1>4, <2>1, <2>2, <2>3, SaveSound
    <2> HIDE DEF row, j
    <2> QED BY <1>2, <2>4, AmountsType, BookedSound
  <1> HIDE DEF row, mem, j
  <1> QED BY <1>2, <1>5, <1>6, <1>7, AmountsType, EndSound

\* The requests that write their whole copy from a charged booking: handover,
\* inspect, reportDamage and the resolution of a dispute.
LEMMA WholeSound ==
    ASSUME TypeInv, ChargesInv, NEW w \in Workers, job[w] # Idle, job[w].op \in LateOps,
           job[w].b \in Bookings, job[w].mem \in Row, NEW status \in Statuses,
           NEW stage \in Stages, NEW outcome, NEW moved, NEW told, NEW booked \in Amounts,
           End(w, job[w].b, outcome, moved, To(job[w].mem, status, stage), told, booked)
    PROVE  RowsSound
  <1> DEFINE j == job[w]
             row == To(j.mem, status, stage)
  <1>1. row \in Row /\ j.mem # NoRow
    BY ToType DEF Row, NoRow, Statuses
  <1>2. ASSUME NEW base \in Lengths, SoundHistory(j.b, base)
        PROVE  Sound(ledger[j.b].charge + booked.charge, base, row)
    <2>1. SoundJob(ledger[j.b].charge, base, j)
      BY <1>2, JobCharges
    <2>2. Sound(ledger[j.b].charge, base, j.mem) /\ ledger[j.b].charge >= Price(base)
      BY <1>1, <2>1 DEF SoundJob
    <2>3. Sound(ledger[j.b].charge, base, row)
      BY <2>2, MoveSound
    <2> HIDE DEF row
    <2> QED BY <2>3, BookedSound
  <1> HIDE DEF row
  <1>3. End(w, j.b, outcome, moved, row, told, booked)
    BY DEF row
  <1> QED BY <1>1, <1>2, <1>3, EndSound

\* The requests that charge the whole price with the row they write.
LEMMA ChargesSound ==
    ASSUME TypeInv, ChargesInv, NEW w \in Workers, job[w] # Idle, job[w].b \in Bookings,
           job[w].mem \in Row, NEW outcome, NEW moved, NEW told,
           End(w, job[w].b, outcome, moved, To(job[w].mem, "confirmed", "reserved"), told,
               [Nothing EXCEPT !.charge = Total(job[w].mem)])
    PROVE  RowsSound
  <1> DEFINE j == job[w]
             row == To(j.mem, "confirmed", "reserved")
             charged == [Nothing EXCEPT !.charge = Total(j.mem)]
  <1>1. row \in Row /\ j.mem # NoRow
    BY ToType, StagesAre DEF Row, NoRow, Statuses
  <1>2. charged \in Amounts /\ charged.charge = Total(j.mem)
    BY RowFields, ChargeType DEF Nothing
  <1>3. ASSUME NEW base \in Lengths, SoundHistory(j.b, base)
        PROVE  Sound(ledger[j.b].charge + charged.charge, base, row)
    <2>1. SoundJob(ledger[j.b].charge, base, j)
      BY <1>3, JobCharges
    <2>2. Sound(ledger[j.b].charge, base, j.mem) /\ ledger[j.b].charge \in Nat
      BY <1>1, <2>1 DEF SoundJob, TypeInv, TypeOK, Amounts
    <2> HIDE DEF charged
    <2> QED BY <1>2, <2>2, ChargedSound
  <1>4. End(w, j.b, outcome, moved, row, told, charged)
    OBVIOUS
  <1> HIDE DEF row, charged, j
  <1>5. j.b \in Bookings
    BY DEF j
  <1> QED BY <1>1, <1>2, <1>3, <1>4, <1>5, EndSound

\* create writes a sound row, charged when it is reserved at once.
LEMMA CreateSound ==
    ASSUME TypeInv, ChargesInv, NEW w \in Workers, CommitCreate(w)
    PROVE  RowsSound
  <1> DEFINE j == job[w]
  <1>1. j # Idle /\ j.op = "create"
    BY BusyAt DEF CommitCreate
  <1>2. j.b \in Bookings /\ j.mem \in Row
    BY <1>1, JobKinds DEF TypeInv, BookingJob
  <1>3. CASE j.mem.mode = "instant"
    <2>1. PICK outcome, moved, told :
            End(w, j.b, outcome, moved, To(j.mem, "confirmed", "reserved"), told,
                [Nothing EXCEPT !.charge = Total(j.mem)])
      BY <1>3 DEF CommitCreate
    <2> QED BY <1>1, <1>2, <2>1, ChargesSound
  <1>4. CASE j.mem.mode # "instant"
    <2> DEFINE nothing == [Nothing EXCEPT !.charge = 0]
    <2>1. PICK outcome, moved, told : End(w, j.b, outcome, moved, j.mem, told, nothing)
      BY <1>4 DEF CommitCreate
    <2>2. nothing \in Amounts
      BY ChargeType
    <2>3. j.mem # NoRow
      BY <1>2 DEF Row, NoRow, Statuses
    <2> HIDE DEF nothing
    <2>4. ASSUME NEW base \in Lengths, SoundHistory(j.b, base)
          PROVE  Sound(ledger[j.b].charge + nothing.charge, base, j.mem)
      <3>1. SoundJob(ledger[j.b].charge, base, j)
        BY <1>1, <2>4, JobCharges
      <3>2. Sound(ledger[j.b].charge, base, j.mem)
        BY <2>3, <3>1 DEF SoundJob
      <3> HIDE DEF j
      <3> QED BY <1>2, <2>2, <3>2, BookedSound
    <2> HIDE DEF j
    <2> QED BY <1>2, <2>1, <2>2, <2>4, EndSound
  <1> QED BY <1>3, <1>4

\* approveExtension writes a sound row.
LEMMA ApproveExtensionSound ==
    ASSUME TypeInv, ChargesInv, NEW w \in Workers, CommitApproveExtension(w)
    PROVE  RowsSound
  <1> DEFINE j == job[w]
             mem == [j.mem EXCEPT !.to = j.ext.newEnd,
                                  !.rental = @ + j.ext.rental,
                                  !.service = @ + j.ext.service]
             row == Save(rows[j.b], j.seen, mem)
             charged == [Nothing EXCEPT !.charge = ExtensionPrice(j.ext)]
  <1>1. j # Idle /\ j.op = "approveExtension" /\ j.phase = "selected"
    BY BusyAt DEF CommitApproveExtension
  <1>2. j.b \in Bookings /\ rows[j.b] \in Row /\ j.mem \in Row /\ j.ext \in Extension
    BY <1>1, ExtensionJobType
  <1>3. mem \in Row
    BY <1>2, ExtendedType
  <1>4. row \in Row
    BY <1>2, <1>3, SaveType
  <1>5. PICK outcome, told : End(w, j.b, outcome, charged, row, told, charged)
    BY DEF CommitApproveExtension
  <1>6. ExtensionPrice(j.ext) \in Nat
    BY <1>2 DEF ExtensionPrice, Extension
  <1>7. charged \in Amounts /\ charged.charge = ExtensionPrice(j.ext)
    BY <1>6, ChargeType DEF Nothing
  <1>8. Exists(j.b) /\ j.mem # NoRow
    BY <1>2, RowExists DEF TypeInv, Row, NoRow, Statuses
  <1>9. ASSUME NEW base \in Lengths, SoundHistory(j.b, base)
        PROVE  Sound(ledger[j.b].charge + charged.charge, base, row)
    <2>1. /\ SoundJob(ledger[j.b].charge, base, j)
          /\ Sound(ledger[j.b].charge, base, rows[j.b])
      BY <1>1, <1>8, <1>9, JobCharges DEF SoundHistory
    <2>2. /\ Sound(ledger[j.b].charge, base, j.mem)
          /\ \E k \in Lengths : Priced(j.seen, k)
          /\ \E n \in Nat : Priced(j.ext, n)
          /\ ledger[j.b].charge >= Price(base)
      BY <1>1, <1>8, <2>1 DEF SoundJob, LateOps, ExtensionOps
    <2>3. ledger[j.b].charge \in Nat
      BY <1>2 DEF TypeInv, TypeOK, Amounts
    <2>4. Sound(ledger[j.b].charge + ExtensionPrice(j.ext), base, mem)
      BY <1>2, <2>2, <2>3, LengthenedSound
    <2> HIDE DEF mem, charged, j
    <2>5. Sound(ledger[j.b].charge + charged.charge, base, rows[j.b])
      BY <1>2, <1>7, <2>1, BookedSound
    <2> QED BY <1>2, <1>3, <1>7, <2>2, <2>4, <2>5, SaveSound
  <1> HIDE DEF row, mem, charged, j
  <1> QED BY <1>2, <1>4, <1>5, <1>7, <1>9, EndSound

\* Every end of a request writes a sound row, or none.
LEMMA CommitsRowsSound ==
    ASSUME TypeInv, ChargesInv, NEW w \in Workers, Commits(w)
    PROVE  RowsSound
  <1> DEFINE j == job[w]
  <1>1. CASE CommitDecline(w)
    BY <1>1, StatusOnlySound, AmountsType DEF CommitDecline, Statuses
  <1>2. CASE CommitCancel(w)
    <2>1. j.b \in Bookings /\ j.mem \in Row
      BY <1>2, BookingJobType DEF CommitCancel
    <2>2. PICK pct \in RefundPcts :
            EndStatusOnly(w, "cancelled",
               [Nothing EXCEPT !.refund = IF j.mem.status = "confirmed"
                                          THEN RefundAt(pct, j.mem) ELSE 0])
      BY <1>2 DEF CommitCancel
    <2> DEFINE refunded == [Nothing EXCEPT !.refund = IF j.mem.status = "confirmed"
                                                      THEN RefundAt(pct, j.mem) ELSE 0]
    <2>3. refunded \in Amounts
      BY <2>1, RefundType, ChargeType, LifecycleAssumption
    <2>4. EndStatusOnly(w, "cancelled", refunded) /\ At(w, "cancel", "selected")
      BY <1>2, <2>2 DEF CommitCancel
    <2> HIDE DEF refunded
    <2> QED BY <2>3, <2>4, StatusOnlySound DEF Statuses
  <1>3. CASE CommitScheduleReturn(w)
    BY <1>3, StagesAre, OneStepSound DEF CommitScheduleReturn
  <1>4. CASE CommitConfirmReturn(w)
    BY <1>4, StagesAre, OneStepSound DEF CommitConfirmReturn
  <1>5. CASE CommitApprove(w)
    <2>1. j # Idle /\ j.b \in Bookings /\ j.mem \in Row
      BY <1>5, BookingJobType, BusyAt DEF CommitApprove
    <2>2. PICK outcome, moved, told :
            End(w, j.b, outcome, moved, To(j.mem, "confirmed", "reserved"), told,
                [Nothing EXCEPT !.charge = Total(j.mem)])
      BY <1>5 DEF CommitApprove
    <2> QED BY <2>1, <2>2, ChargesSound
  <1>6. CASE CommitHandover(w) \/ CommitReportDamage(w)
    <2>1. j # Idle /\ j.op \in LateOps /\ j.b \in Bookings /\ j.mem \in Row
      BY <1>6, BookingJobType, BusyAt DEF CommitHandover, CommitReportDamage, LateOps
    <2>2. PICK status, stage, outcome, told :
            /\ status \in Statuses /\ stage \in Stages
            /\ End(w, j.b, outcome, Nothing, To(j.mem, status, stage), told, Nothing)
      <3>1. \A status, stage :
               status \in {"confirmed", "disputed"} /\ stage \in {"active", "inspected"} =>
                  status \in Statuses /\ stage \in Stages
        BY StagesAre DEF Statuses
      <3>2. PICK status, stage, outcome, told :
              /\ status \in {"confirmed", "disputed"} /\ stage \in {"active", "inspected"}
              /\ End(w, j.b, outcome, Nothing, To(j.mem, status, stage), told, Nothing)
        BY <1>6 DEF CommitHandover, CommitReportDamage
      <3> QED BY <3>1, <3>2
    <2> QED BY <2>1, <2>2, WholeSound, AmountsType
  <1>7. CASE CommitInspect(w)
    <2>1. j # Idle /\ j.op \in LateOps /\ j.b \in Bookings /\ j.mem \in Row
      BY <1>7, BookingJobType, BusyAt DEF CommitInspect, LateOps
    <2>2. PICK outcome, told :
            End(w, j.b, outcome, Released(0), To(j.mem, "completed", "completed"), told,
                Settled(0, j.mem.rental))
      BY <1>7 DEF CommitInspect
    <2>3. Settled(0, j.mem.rental) \in Amounts
      <3>1. j.mem.rental \in Nat
        BY <2>1, RowFields
      <3>2. 0 \in 0..Deposit
        BY RatesAssumption
      <3> QED BY <3>1, <3>2, SettledType
    <2>4. "completed" \in Statuses /\ "completed" \in Stages
      BY StagesAre DEF Statuses
    <2> QED BY <2>1, <2>2, <2>3, <2>4, WholeSound
  <1>8. CASE CommitResolution(w)
    <2>1. j # Idle /\ j.phase = "resolving"
      BY <1>8 DEF CommitResolution, Idle
    <2>2. /\ j.b \in Bookings /\ j.mem \in Row /\ j.dmem.final \in 0..Deposit
          /\ j.op \in {"propose", "reject", "accept", "adminResolve"}
      BY <2>1, DisputeJobType DEF Dispute
    <2>3. PICK outcome, told :
            End(w, j.b, outcome, Released(j.dmem.final), To(j.mem, "completed", "completed"),
                told, Settled(j.dmem.final, j.mem.rental))
      BY <1>8 DEF CommitResolution
    <2>4. Settled(j.dmem.final, j.mem.rental) \in Amounts
      BY <2>2, RowFields, SettledType
    <2>5. "completed" \in Statuses /\ "completed" \in Stages
      BY StagesAre DEF Statuses
    <2>6. j.op \in LateOps
      BY <2>2 DEF LateOps
    <2> QED BY <2>1, <2>2, <2>3, <2>4, <2>5, <2>6, WholeSound
  <1>9. CASE CommitNegotiation(w) \/ CommitRequestExtension(w) \/ CommitCloseExtension(w)
    BY <1>9 DEF CommitNegotiation, CommitRequestExtension, CommitCloseExtension, RowsSound
  <1> QED BY <1>1, <1>2, <1>3, <1>4, <1>5, <1>6, <1>7, <1>8, <1>9, CreateSound,
             ApproveExtensionSound DEF Commits

\* The booking of a request that is accepted from charged bookings is charged.
LEMMA LateJobPaid ==
    ASSUME NEW w \in Workers, job[w] # Idle, job[w].op \in LateOps
    PROVE  BasePaid(job[w].b)
  BY JobCharges DEF BasePaid, SoundJob

\* Every end of a request leaves disputes and extensions on charged bookings.
LEMMA CommitsTablesPaid ==
    ASSUME TypeInv, ChargesInv, NEW w \in Workers, Commits(w)
    PROVE  DisputesPaid /\ ExtensionsPriced
  <1> DEFINE j == job[w]
  <1>1. UNCHANGED disputes => DisputesPaid
    BY DEF DisputesPaid
  <1>2. UNCHANGED exts => ExtensionsPriced
    BY DEF ExtensionsPriced
  <1>3. CASE UNCHANGED <<disputes, exts>>
    BY <1>1, <1>2, <1>3
  <1>4. CASE CommitNegotiation(w) \/ CommitResolution(w) \/ CommitReportDamage(w)
    <2>1. j # Idle /\ j.op \in LateOps
      <3>1. CASE CommitNegotiation(w) \/ CommitReportDamage(w)
        BY <3>1, BusyAt DEF CommitNegotiation, CommitReportDamage, LateOps
      <3>2. CASE CommitResolution(w)
        <4>1. j # Idle /\ j.phase = "resolving"
          BY <3>2 DEF CommitResolution, Idle
        <4> QED BY <4>1, DisputeJobType DEF LateOps
      <3> QED BY <1>4, <3>1, <3>2
    <2>2. UNCHANGED exts
      BY <1>4 DEF CommitNegotiation, CommitResolution, CommitReportDamage
    <2>3. UNCHANGED disputes \/ \E d : disputes' = [disputes EXCEPT ![j.b] = d]
      BY <1>4 DEF CommitNegotiation, CommitResolution, CommitReportDamage
    <2>4. BasePaid(j.b)
      BY <2>1, LateJobPaid
    <2> QED BY <1>2, <2>2, <2>3, <2>4 DEF DisputesPaid, TypeInv, TypeOK
  <1>5. CASE CommitRequestExtension(w)
    <2>1. j # Idle /\ j.op = "requestExtension" /\ UNCHANGED disputes
      BY <1>5, BusyAt DEF CommitRequestExtension
    <2>2. j.e \in Extensions /\ j.ext.b = j.b /\ j.b \in Bookings
      BY <2>1, ExtensionJobType
    <2>3. UNCHANGED exts \/ exts' = [exts EXCEPT ![j.e] = j.ext]
      BY <1>5 DEF CommitRequestExtension
    <2>4. BasePaid(j.b)
      BY <2>1, LateJobPaid DEF LateOps, ExtensionOps
    <2>5. \E k \in Nat : Priced(j.ext, k)
      BY <2>1, <2>2, JobCharges DEF ChargesInv, SoundJob, ExtensionOps
    <2> HIDE DEF j
    <2>6. ExtensionsPriced
      BY <1>2, <2>2, <2>3, <2>4, <2>5 DEF ExtensionsPriced, TypeInv, TypeOK
    <2> QED BY <1>1, <2>1, <2>6
  <1>6. CASE CommitApproveExtension(w) \/ CommitCloseExtension(w)
    <2>1. j # Idle /\ j.op \in {"approveExtension", "declineExtension", "cancelExtension"}
      BY <1>6, BusyAt DEF CommitApproveExtension, CommitCloseExtension
    <2>2. j.e \in Extensions /\ exts[j.e] \in Extension
      BY <2>1, ExtensionJobType
    <2>3. UNCHANGED exts \/ \E status : exts' = [exts EXCEPT ![j.e].status = status]
      BY <1>6 DEF CommitApproveExtension, CommitCloseExtension
    <2>4. UNCHANGED disputes
      BY <1>6 DEF CommitApproveExtension, CommitCloseExtension
    <2> HIDE DEF j
    <2>5. ASSUME NEW e \in Extensions, exts'[e].status # "absent"
          PROVE  /\ exts[e].status # "absent" /\ exts'[e].b = exts[e].b
                 /\ exts'[e].rental = exts[e].rental /\ exts'[e].service = exts[e].service
      <3>1. CASE exts'[e] = exts[e]
        BY <2>5, <3>1
      <3>2. CASE exts'[e] # exts[e]
        <4>1. PICK status : exts' = [exts EXCEPT ![j.e].status = status]
          BY <2>3, <3>2
        <4>2. e = j.e /\ exts'[e] = [exts[e] EXCEPT !.status = status]
          BY <2>2, <3>2, <4>1 DEF TypeInv, TypeOK
        <4> QED BY <2>2, <4>2 DEF Extension, ExtensionStatuses
      <3> QED BY <3>1, <3>2
    <2> QED BY <1>1, <2>4, <2>5 DEF ExtensionsPriced
  <1> QED BY <1>3, <1>4, <1>5, <1>6 DEF Commits, CommitCreate, CommitApprove, CommitDecline,
         CommitCancel, CommitHandover, CommitScheduleReturn, CommitConfirmReturn,
         CommitInspect, EndStatusOnly, EndOneStep

\* A commit ends the request of its worker.
LEMMA CommitsIdle ==
    ASSUME NEW w \in Workers, Commits(w)
    PROVE  job' = [job EXCEPT ![w] = Idle]
  BY DEF Commits, CommitCreate, CommitApprove, CommitDecline, CommitCancel,
     CommitHandover, CommitScheduleReturn, CommitConfirmReturn, CommitInspect,
     CommitReportDamage, CommitNegotiation, CommitResolution, CommitRequestExtension,
     CommitApproveExtension, CommitCloseExtension, EndStatusOnly, EndOneStep, End

\* Every step keeps the histories, or begins one.
LEMMA NextHistories ==
    ASSUME TypeInv, ChargesInv, [Next]_vars
    PROVE  HistoriesKept \/ HistoryBegun
  <1>1. CASE UNCHANGED vars
    BY <1>1 DEF vars, HistoriesKept, HistoryKept, SoundHistory, Exists
  <1>4. CASE SaveProfile
    BY <1>4 DEF SaveProfile, tables, HistoriesKept, HistoryKept, SoundHistory, Exists
  <1>2. ASSUME NEW w \in Workers, Commits(w)
        PROVE  HistoriesKept
    BY <1>2, CommitsBook, CommitsRowsSound, CommitsTablesPaid, CommitsIdle, FinishCharges
  <1>3. ASSUME NEW w \in Workers, LoadCreate(w)
        PROVE  HistoryBegun
    BY <1>3, LoadCreateCharges DEF LoadCreate, HistoryBegun
  <1> QED BY <1>1, <1>2, <1>3, <1>4, LoadsCharges, SelectsCharges DEF Next

\* The charges invariant is inductive relative to the type invariant.
LEMMA ChargesKept == TypeInv /\ ChargesInv /\ [Next]_vars => ChargesInv'
  <1> SUFFICES ASSUME TypeInv, ChargesInv, [Next]_vars PROVE ChargesInv'
    OBVIOUS
  <1> QED BY NextHistories DEF HistoriesKept, HistoryBegun, HistoryKept, ChargesInv

\* Initially no booking has a history.
LEMMA ChargesInit == Init => ChargesInv
  <1> SUFFICES ASSUME Init, NEW b \in Bookings PROVE SoundHistory(b, 1)
    BY DEF ChargesInv, Lengths
  <1>1. ~Exists(b) /\ disputes[b].status = "none"
    BY DEF Init, Exists, NoRow, NoDispute
  <1>2. \A e \in Extensions : exts[e].status = "absent"
    BY DEF Init, NoExtension
  <1>3. \A w \in Workers : job[w] = Idle
    BY DEF Init
  <1> QED BY <1>1, <1>2, <1>3 DEF SoundHistory

LEMMA ChargesCorrect == Spec => []ChargesInv
  <1> QED BY ChargesInit, ChargesKept, TypeCorrect, PTL DEF Spec

\* The item leaves the provider, and a booking is reserved at all, only once
\* the ledger holds the charge of its whole current total, extensions included.
THEOREM ReservedPaid == Spec => []ReservedIsPaid
  <1>1. TypeInv /\ ChargesInv => ReservedIsPaid
    <2> SUFFICES ASSUME TypeInv, ChargesInv, NEW b \in Bookings, Exists(b),
                        StageOrder[rows[b].stage] >= StageOrder["reserved"]
                 PROVE  ledger[b].charge >= Total(rows[b])
      BY DEF ReservedIsPaid
    <2>1. rows[b].stage \in Stages
      BY RowExists DEF TypeInv, Row
    <2>2. rows[b].stage \in Late
      BY <2>1, StagesAre DEF Late, StageOrder
    <2>3. PICK base \in Lengths : Sound(ledger[b].charge, base, rows[b])
      BY DEF ChargesInv, SoundHistory
    <2>4. PICK k \in Lengths : Priced(rows[b], k) /\ ledger[b].charge >= Price(k)
      BY <2>2, <2>3 DEF Sound
    <2>5. Total(rows[b]) = Price(k)
      BY <2>4 DEF Total, Price, Priced
    <2> QED BY <2>4, <2>5
  <1> QED BY <1>1, ChargesCorrect, TypeCorrect, PTL DEF Spec

---------------------------------------------------------------------------
(* Resolutions of disputes: what a dispute records has been carried out in *)
(* the ledger.  A save of a dispute mixes the columns of the copy with     *)
(* those it finds, so a resolution may stand beside the deduction of       *)
(* another one: each column is carried out on its own, in every version a  *)
(* negotiation may still write back.                                       *)

\* What a dispute says has been carried out by these ledger entries.
Carried(entries, d) ==
    /\ entries.forfeit >= d.final
    /\ d.resolution # "none" => entries.release + entries.forfeit >= Deposit

ResolutionInv ==
    /\ \A b \in Bookings : Carried(ledger[b], disputes[b])
    /\ \A w \in Workers : job[w] # Idle /\ job[w].op \in {"propose", "reject"} =>
                             Carried(ledger[job[w].b], job[w].dmem)
    /\ \A b \in Bookings : disputes[b].resolution # "none" => Exists(b)

\* More in the ledger carries out as much.
LEMMA MoreCarried ==
    ASSUME NEW entries \in Amounts, NEW booked \in Amounts, NEW d \in Dispute,
           Carried(entries, d)
    PROVE  Carried(Plus(entries, booked), d)
  <1>1. d.final \in Nat /\ Deposit \in Nat
    BY RatesAssumption DEF Dispute
  <1> QED BY <1>1 DEF Carried, Plus, Amounts

\* A save of a dispute whose two versions are carried out is carried out.
LEMMA SaveCarried ==
    ASSUME NEW entries, NEW stored, NEW seen, NEW mem, Carried(entries, stored),
           Carried(entries, mem)
    PROVE  Carried(entries, SaveDispute(stored, seen, mem))
  BY DEF Carried, SaveDispute, Column

\* Completing a booking carries out the decision it completes it with.
LEMMA SettledCarried ==
    ASSUME NEW entries \in Amounts, NEW d \in Dispute, NEW rental \in Nat
    PROVE  Carried(Plus(entries, Settled(d.final, rental)), d)
  <1>1. d.final \in 0..Deposit /\ Deposit \in Nat
    BY RatesAssumption DEF Dispute
  <1> QED BY <1>1 DEF Carried, Plus, Amounts, Settled, Nothing

\* The step of a request leaves every dispute carried out.
LEMMA CommitsCarriedOut ==
    ASSUME TypeInv, ResolutionInv, NEW w \in Workers, Commits(w)
    PROVE  \A b \in Bookings : Carried(ledger'[b], disputes'[b])
  <1> DEFINE j == job[w]
  <1>1. ASSUME NEW b \in Bookings
        PROVE  \A d \in Dispute : Carried(ledger[b], d) => Carried(ledger'[b], d)
    <2>1. LedgerStep
      BY CommitsBook
    <2>2. ledger'[b] = ledger[b] \/ \E booked \in Amounts : ledger'[b] = Plus(ledger[b], booked)
      BY <2>1 DEF LedgerStep, Books, TypeInv, TypeOK
    <2>3. ledger[b] \in Amounts
      BY DEF TypeInv, TypeOK
    <2> QED BY <2>2, <2>3, MoreCarried
  <1>2. \A b \in Bookings : Carried(ledger'[b], disputes[b])
    BY <1>1 DEF ResolutionInv, TypeInv, TypeOK
  <1>3. CASE UNCHANGED disputes
    BY <1>2, <1>3
  <1>4. CASE CommitNegotiation(w)
    <2>1. j # Idle /\ j.op \in {"propose", "reject"}
      BY <1>4, BusyAt DEF CommitNegotiation
    <2>2. j.b \in Bookings
      BY <2>1, DisputeJobType
    <2>3. Carried(ledger[j.b], SaveDispute(disputes[j.b], j.dseen, j.dmem))
      BY <2>1, <2>2, SaveCarried DEF ResolutionInv
    <2>4. /\ ledger' = ledger
          /\ disputes' = [disputes EXCEPT ![j.b] =
                             SaveDispute(disputes[j.b], j.dseen, j.dmem)]
      BY <1>4 DEF CommitNegotiation
    <2> HIDE DEF j
    <2> QED BY <1>2, <2>2, <2>3, <2>4 DEF TypeInv, TypeOK
  <1>5. CASE CommitReportDamage(w)
    <2>1. j.b \in Bookings
      BY <1>5, BookingJobType DEF CommitReportDamage
    <2> DEFINE opened == [NoDispute EXCEPT !.status = "open"]
    <2>2. UNCHANGED disputes \/ disputes' = [disputes EXCEPT ![j.b] = opened]
      BY <1>5 DEF CommitReportDamage
    <2>3. opened \in Dispute /\ Carried(ledger[j.b], opened)
      BY <2>1, RatesAssumption DEF NoDispute, Dispute, DisputeStatuses, Resolutions, Carried,
         TypeInv, TypeOK, Amounts
    <2> HIDE DEF opened, j
    <2> QED BY <1>1, <1>2, <2>1, <2>2, <2>3 DEF TypeInv, TypeOK
  <1>6. CASE CommitResolution(w)
    <2>1. j # Idle /\ j.phase = "resolving"
      BY <1>6 DEF CommitResolution, Idle
    <2>2. j.b \in Bookings /\ j.mem \in Row /\ j.dmem \in Dispute
      BY <2>1, DisputeJobType
    <2>3. j.mem.rental \in Nat
      BY <2>2, RowFields
    <2> DEFINE resolved == SaveDispute(disputes[j.b], j.dseen, j.dmem)
    <2>4. CASE disputes' = [disputes EXCEPT ![j.b] = resolved]
               /\ ledger' = [ledger EXCEPT ![j.b] =
                                Plus(ledger[j.b], Settled(j.dmem.final, j.mem.rental))]
      <3>1. ledger'[j.b] = Plus(ledger[j.b], Settled(j.dmem.final, j.mem.rental))
        BY <2>2, <2>4 DEF TypeInv, TypeOK
      <3>2. Carried(ledger'[j.b], j.dmem)
        BY <2>2, <2>3, <3>1, SettledCarried DEF TypeInv, TypeOK
      <3>3. Carried(ledger'[j.b], resolved)
        BY <1>2, <2>2, <3>2, SaveCarried
      <3> HIDE DEF resolved, j
      <3> QED BY <1>2, <2>2, <2>4, <3>3 DEF TypeInv, TypeOK
    <2>5. UNCHANGED disputes \/
            /\ disputes' = [disputes EXCEPT ![j.b] = resolved]
            /\ ledger' = [ledger EXCEPT ![j.b] =
                             Plus(ledger[j.b], Settled(j.dmem.final, j.mem.rental))]
      BY <1>6 DEF CommitResolution, End
    <2> QED BY <1>3, <2>4, <2>5
  <1> QED BY <1>3, <1>4, <1>5, <1>6 DEF Commits, CommitCreate, CommitApprove, CommitDecline,
         CommitCancel, CommitHandover, CommitScheduleReturn, CommitConfirmReturn,
         CommitInspect, CommitRequestExtension, CommitApproveExtension,
         CommitCloseExtension, EndStatusOnly, EndOneStep

\* A request taken up, or going on, with a copy that has been carried out.
LEMMA StartCarried ==
    ASSUME TypeInv, ResolutionInv, NEW w \in Workers, NEW request,
           Start(w, request) \/ Proceed(w, request),
           request # Idle /\ request.op \in {"propose", "reject"} =>
              Carried(ledger[request.b], request.dmem)
    PROVE  ResolutionInv'
  <1>1. UNCHANGED <<rows, ledger, disputes>> /\ job' = [job EXCEPT ![w] = request]
    BY DEF Start, Proceed, tables
  <1>2. ASSUME NEW v \in Workers, job'[v] # Idle, job'[v].op \in {"propose", "reject"}
        PROVE  Carried(ledger[job'[v].b], job'[v].dmem)
    <2>1. job'[v] = request \/ job'[v] = job[v]
      BY <1>1 DEF TypeInv, TypeOK
    <2> QED BY <1>2, <2>1 DEF ResolutionInv
  <1> QED BY <1>1, <1>2 DEF ResolutionInv, Exists

\* Every read and every select of a request keeps its copy carried out.
LEMMA ReadsCarried ==
    ASSUME TypeInv, ResolutionInv, NEW w \in Workers, Loads(w) \/ Selects(w)
    PROVE  ResolutionInv'
  <1> DEFINE j == job[w]
  <1>1. ASSUME NEW request, Start(w, request) \/ Proceed(w, request),
               request = Idle \/ request.op \notin {"propose", "reject"}
        PROVE  ResolutionInv'
    BY <1>1, StartCarried
  <1>2. CASE \/ LoadApprove(w) \/ LoadDecline(w) \/ LoadCancel(w) \/ LoadHandover(w)
             \/ LoadScheduleReturn(w) \/ LoadConfirmReturn(w) \/ LoadInspect(w)
             \/ LoadReportDamage(w)
    <2>1. PICK b \in Bookings,
               op \in {"approve", "decline", "cancel", "handover", "scheduleReturn",
                       "confirmReturn", "inspect", "reportDamage"} :
            Load(w, op, b)
      BY <1>2 DEF LoadApprove, LoadDecline, LoadCancel, LoadHandover, LoadScheduleReturn,
         LoadConfirmReturn, LoadInspect, LoadReportDamage, LoadAtStage
    <2> QED BY <1>1, <2>1 DEF Load
  <1>3. CASE LoadCreate(w)
    BY <1>1, <1>3 DEF LoadCreate
  <1>4. CASE LoadRequestExtension(w) \/ FindExtension(w) \/ LoadCloseExtension(w)
    <2>1. CASE LoadRequestExtension(w) \/ LoadCloseExtension(w)
      <3>1. PICK e, ext, mem, op :
              op \in ExtensionOps /\ LoadExtension(w, op, e, ext, mem)
        BY <2>1 DEF LoadRequestExtension, LoadCloseExtension, ExtensionOps
      <3> QED BY <1>1, <3>1 DEF LoadExtension, ExtensionOps
    <2>2. CASE FindExtension(w)
      BY <1>1, <2>2 DEF FindExtension
    <2> QED BY <1>4, <2>1, <2>2
  <1>5. CASE LoadPropose(w) \/ LoadReject(w)
    <2>1. PICK b, op, statuses, dmem :
            /\ b \in Bookings
            /\ LoadDispute(w, op, b, statuses, dmem)
            /\ dmem.final = disputes[b].final /\ dmem.resolution = disputes[b].resolution
      <3>1. CASE LoadPropose(w)
        <4>1. PICK b \in Bookings, amount \in 0..Deposit :
                LoadDispute(w, "propose", b, {"open", "contested"},
                    [disputes[b] EXCEPT !.status = "proposed", !.proposed = amount])
          BY <3>1 DEF LoadPropose
        <4> DEFINE dmem == [disputes[b] EXCEPT !.status = "proposed", !.proposed = amount]
        <4>2. LoadDispute(w, "propose", b, {"open", "contested"}, dmem)
          BY <4>1
        <4>3. dmem.final = disputes[b].final /\ dmem.resolution = disputes[b].resolution
          BY DEF TypeInv, TypeOK, Dispute
        <4> HIDE DEF dmem
        <4> QED BY <4>2, <4>3
      <3>2. CASE LoadReject(w)
        <4>1. PICK b \in Bookings :
                LoadDispute(w, "reject", b, {"proposed"},
                            [disputes[b] EXCEPT !.status = "contested"])
          BY <3>2 DEF LoadReject
        <4> DEFINE dmem == [disputes[b] EXCEPT !.status = "contested"]
        <4>2. LoadDispute(w, "reject", b, {"proposed"}, dmem)
          BY <4>1
        <4>3. dmem.final = disputes[b].final /\ dmem.resolution = disputes[b].resolution
          BY DEF TypeInv, TypeOK, Dispute
        <4> HIDE DEF dmem
        <4> QED BY <4>2, <4>3
      <3> QED BY <1>5, <3>1, <3>2
    <2>3. Carried(ledger[b], dmem)
      BY <2>1 DEF ResolutionInv, Carried
    <2> DEFINE request == [op |-> op, phase |-> "loaded", b |-> b, dmem |-> dmem,
                           dseen |-> NoDispute, mem |-> NoRow]
    <2>4. Start(w, request)
      BY <2>1 DEF LoadDispute
    <2>5. request.b = b /\ request.dmem = dmem
      OBVIOUS
    <2> HIDE DEF request
    <2> QED BY <2>3, <2>4, <2>5, StartCarried
  <1>6. CASE LoadAccept(w) \/ LoadAdminResolve(w)
    <2>1. PICK b, op, statuses, dmem :
            op \in {"accept", "adminResolve"} /\ LoadDispute(w, op, b, statuses, dmem)
      <3>1. CASE LoadAccept(w)
        BY <3>1 DEF LoadAccept
      <3>2. CASE LoadAdminResolve(w)
        BY <3>2 DEF LoadAdminResolve
      <3> QED BY <1>6, <3>1, <3>2
    <2> QED BY <1>1, <2>1 DEF LoadDispute
  <1>7. CASE Selects(w)
    <2>1. j # Idle
      BY <1>7 DEF Selects, SelectRow, SelectDispute, LockDispute, LoadApproveExtension, At, Idle
    <2>2. j \in Job
      BY <2>1, JobKinds DEF TypeInv
    <2>3. CASE SelectRow(w)
      <3> DEFINE request == [j EXCEPT !.phase = "selected", !.seen = rows[j.b]]
      <3>1. Proceed(w, request)
        BY <2>3 DEF SelectRow
      <3>2. request.op = j.op /\ j.op \notin {"propose", "reject"}
        BY <2>2, <2>3 DEF SelectRow, At, Job, BookingJob, ExtensionJob, DisputeJob
      <3> HIDE DEF request
      <3> QED BY <1>1, <3>1, <3>2
    <2>4. CASE SelectDispute(w)
      <3> DEFINE request == [j EXCEPT !.phase = "selected", !.dseen = disputes[j.b]]
      <3>1. Proceed(w, request)
        BY <2>4 DEF SelectDispute
      <3>2. j \in DisputeJob
        BY <2>1, <2>4, JobKinds DEF SelectDispute, At, TypeInv
      <3>3. request.op = j.op /\ request.b = j.b /\ request.dmem = j.dmem
        BY <3>2 DEF DisputeJob
      <3> HIDE DEF request
      <3>4. j.op \in {"propose", "reject"} => Carried(ledger[j.b], j.dmem)
        BY <2>1 DEF ResolutionInv
      <3> QED BY <3>1, <3>3, <3>4, StartCarried
    <2>5. CASE LockDispute(w)
      <3> DEFINE request == [j EXCEPT !.phase = "resolving", !.mem = rows[j.b]]
      <3>1. Proceed(w, request)
        BY <2>5 DEF LockDispute
      <3>2. request.op = j.op /\ j.op \notin {"propose", "reject"}
        BY <2>2, <2>5 DEF LockDispute, At, Job, BookingJob, ExtensionJob, DisputeJob
      <3> HIDE DEF request
      <3> QED BY <1>1, <3>1, <3>2
    <2>6. CASE LoadApproveExtension(w)
      <3> DEFINE request == [j EXCEPT !.phase = "loaded", !.mem = rows[j.b]]
      <3>1. Proceed(w, request) \/ Proceed(w, Idle)
        BY <2>6 DEF LoadApproveExtension
      <3>2. j \in ExtensionJob
        BY <2>1, <2>6, JobKinds DEF LoadApproveExtension, At, TypeInv
      <3>3. request.op = j.op /\ j.op \notin {"propose", "reject"}
        BY <3>2 DEF ExtensionJob
      <3> HIDE DEF request
      <3> QED BY <1>1, <3>1, <3>3
    <2> QED BY <1>7, <2>3, <2>4, <2>5, <2>6 DEF Selects
  <1> QED BY <1>2, <1>3, <1>4, <1>5, <1>6, <1>7 DEF Loads

\* The end of a request writes the dispute of its own booking, one that exists.
LEMMA CommitsDispute ==
    ASSUME TypeInv, NEW w \in Workers, Commits(w), ~UNCHANGED disputes
    PROVE  \E b \in Bookings : /\ Exists(b)
                              /\ \E d : disputes' = [disputes EXCEPT ![b] = d]
  <1> DEFINE j == job[w]
  <1>1. CASE CommitNegotiation(w)
    <2>1. j # Idle /\ j.op \in {"propose", "reject"}
      BY <1>1, BusyAt DEF CommitNegotiation
    <2>2. j.b \in Bookings /\ Exists(j.b)
      BY <2>1, DisputeJobType DEF TypeInv, WellFormed, GoodJob
    <2> QED BY <1>1, <2>2 DEF CommitNegotiation
  <1>2. CASE CommitReportDamage(w)
    <2>1. j # Idle /\ j.op = "reportDamage"
      BY <1>2, BusyAt DEF CommitReportDamage
    <2>2. j.b \in Bookings /\ Exists(j.b)
      BY <1>2, <2>1, BookingJobType DEF CommitReportDamage, TypeInv, WellFormed, GoodJob
    <2> QED BY <1>2, <2>2 DEF CommitReportDamage
  <1>3. CASE CommitResolution(w)
    <2>1. j # Idle /\ j.phase = "resolving"
      BY <1>3 DEF CommitResolution, Idle
    <2>2. j.b \in Bookings /\ Exists(j.b)
      BY <2>1, DisputeJobType DEF TypeInv, WellFormed, GoodJob
    <2> QED BY <1>3, <2>2 DEF CommitResolution
  <1> QED BY <1>1, <1>2, <1>3 DEF Commits, CommitCreate, CommitApprove, CommitDecline,
         CommitCancel, CommitHandover, CommitScheduleReturn, CommitConfirmReturn,
         CommitInspect, CommitRequestExtension, CommitApproveExtension,
         CommitCloseExtension, EndStatusOnly, EndOneStep

\* Every end of a request keeps disputes, and the copies of others, carried out.
LEMMA CommitsCarried ==
    ASSUME TypeInv, ResolutionInv, NEW w \in Workers, Commits(w)
    PROVE  ResolutionInv'
  <1>1. \A b \in Bookings : Carried(ledger'[b], disputes'[b])
    BY CommitsCarriedOut
  <1>2. ASSUME NEW v \in Workers, job'[v] # Idle, job'[v].op \in {"propose", "reject"}
        PROVE  Carried(ledger'[job'[v].b], job'[v].dmem)
    <2>1. job'[v] = job[v]
      BY <1>2, CommitsIdle DEF TypeInv, TypeOK
    <2>2. job[v].b \in Bookings /\ job[v].dmem \in Dispute
      BY <1>2, <2>1, DisputeJobType
    <2>3. Carried(ledger[job[v].b], job[v].dmem)
      BY <1>2, <2>1 DEF ResolutionInv
    <2>4. \/ ledger'[job[v].b] = ledger[job[v].b]
          \/ \E booked \in Amounts : ledger'[job[v].b] = Plus(ledger[job[v].b], booked)
      BY <2>2, CommitsBook DEF LedgerStep, Books, TypeInv, TypeOK
    <2>5. ledger[job[v].b] \in Amounts
      BY <2>2 DEF TypeInv, TypeOK
    <2> QED BY <2>1, <2>2, <2>3, <2>4, <2>5, MoreCarried
  <1>3. ASSUME NEW b \in Bookings, disputes'[b].resolution # "none"
        PROVE  Exists(b)'
    <2>1. Exists(b) => Exists(b)'
      <3>1. rows'[b] = rows[b] \/ rows'[b] \in Row
        BY CommitsWrite DEF Written, TypeInv, TypeOK
      <3> QED BY <3>1 DEF Exists, Row, Statuses
    <2>2. disputes'[b] = disputes[b] \/ Exists(b)
      BY CommitsDispute DEF TypeInv, TypeOK
    <2> QED BY <1>3, <2>1, <2>2 DEF ResolutionInv
  <1> QED BY <1>1, <1>2, <1>3 DEF ResolutionInv

\* The resolution invariant is inductive relative to the type invariant.
LEMMA ResolutionKept == TypeInv /\ ResolutionInv /\ [Next]_vars => ResolutionInv'
  <1> SUFFICES ASSUME TypeInv, ResolutionInv, [Next]_vars PROVE ResolutionInv'
    OBVIOUS
  <1>1. CASE UNCHANGED vars
    BY <1>1 DEF vars, ResolutionInv, Exists
  <1>2. CASE SaveProfile
    BY <1>2 DEF SaveProfile, tables, ResolutionInv, Exists
  <1> QED BY <1>1, <1>2, ReadsCarried, CommitsCarried DEF Next

\* In every behaviour the recorded resolutions are carried out.
LEMMA ResolutionCorrect == Spec => []ResolutionInv
  <1>1. Init => ResolutionInv
    BY DEF Init, ResolutionInv, Carried, Nothing, NoDispute
  <1> QED BY <1>1, ResolutionKept, TypeCorrect, PTL DEF Spec

---------------------------------------------------------------------------
(* The window first booked: what has been charged covers its price and     *)
(* that of every extension approved since, and a recorded resolution has   *)
(* earned the provider its rental.  The window of a booking is the one     *)
(* whose length is the base of its charge history and whose start every    *)
(* version of the row shares.  A request on an extension has the prices of *)
(* the row it will write, and one that inserts an extension has that id to *)
(* itself.                                                                 *)

Requested == {e \in Extensions : exts[e].status # "absent"}

Approved(b) == {e \in Extensions : exts[e].status = "approved" /\ exts[e].b = b}

Prices == [e \in Extensions |-> exts[e].rental + exts[e].service]

\* Booking b is known to the system.
Begun(b) == Exists(b) \/ \E w \in Workers : job[w] # Idle /\ job[w].b = b

\* Every version of booking b starts at this slot.
StartsAt(b, from) ==
    /\ Exists(b) => rows[b].from = from
    /\ \A w \in Workers : job[w] # Idle /\ job[w].b = b /\ job[w].mem # NoRow =>
                             job[w].mem.from = from

\* So much covers a base price and the prices of these extensions, if any.
Pays(charge, base, prices, paid) ==
    paid # {} => charge >= Price(base) + SumOf(prices, paid)

Covered(b, base) == Pays(ledger[b].charge, base, Prices, Approved(b))

\* What a request on an extension relies on.
ExtensionKept(j) ==
    /\ j.op \in {"approveExtension", "declineExtension", "cancelExtension"} =>
         /\ exts[j.e].b = j.b
         /\ exts[j.e].rental = j.ext.rental
         /\ exts[j.e].service = j.ext.service
    /\ j.op = "requestExtension" =>
         j.phase = "loaded" /\ j.ext.status = "pending" /\ exts[j.e] = NoExtension

Requests(w) == job[w] # Idle /\ job[w].op = "requestExtension"

ExtensionsKept ==
    /\ \A w \in Workers : job[w] # Idle => ExtensionKept(job[w])
    /\ \A v, w \in Workers : Requests(v) /\ Requests(w) /\ v # w => job[v].e # job[w].e

\* A negotiation that may write back a resolution.
Reinstates(j) == j.op \in {"propose", "reject"} /\ j.dmem.resolution # "none"

\* Booking b's dispute has been resolved.
Resolved(b) ==
    \/ disputes[b].resolution # "none"
    \/ \E w \in Workers : job[w] # Idle /\ job[w].b = b /\ Reinstates(job[w])

Earned(b, base) == Resolved(b) => ledger[b].earning >= RentalRate * base

WindowPaid(b, win) ==
    /\ SoundHistory(b, win[2] - win[1])
    /\ StartsAt(b, win[1])
    /\ Covered(b, win[2] - win[1])
    /\ Earned(b, win[2] - win[1])

ExtensionsInv ==
    /\ IsFiniteSet(Requested)
    /\ ExtensionsKept
    /\ \A b \in Bookings : Begun(b) => \E win \in Windows : WindowPaid(b, win)

\* Adding to what is summed adds its price at most once.
LEMMA SumOfMore ==
    ASSUME NEW S, IsFiniteSet(S), NEW g, NEW x, \A y \in S \cup {x} : g[y] \in Nat
    PROVE  SumOf(g, S \cup {x}) <= g[x] + SumOf(g, S)
  <1>1. SumOf(g, S) \in Nat /\ g[x] \in Nat
    BY SumOfType
  <1>2. CASE x \in S
    <2>1. S \cup {x} = S
      BY <1>2
    <2> QED BY <1>1, <2>1
  <1>3. CASE x \notin S
    <2> DEFINE T == S \cup {x}
    <2>1. IsFiniteSet(T) /\ x \in T /\ T \ {x} = S /\ \A y \in T : g[y] \in Nat
      BY <1>3, FS_AddElement
    <2> HIDE DEF T
    <2>2. SumOf(g, T) = g[x] + SumOf(g, T \ {x})
      BY <2>1, SumOfApart
    <2> QED BY <1>1, <2>1, <2>2 DEF T
  <1> QED BY <1>2, <1>3

\* Leaving something out adds up to less.
LEMMA SumOfLess ==
    ASSUME NEW S, IsFiniteSet(S), NEW g, NEW x, \A y \in S : g[y] \in Nat
    PROVE  SumOf(g, S \ {x}) <= SumOf(g, S)
  <1>1. IsFiniteSet(S \ {x})
    BY FS_RemoveElement
  <1>2. SumOf(g, S) \in Nat /\ SumOf(g, S \ {x}) \in Nat
    <2> DEFINE T == S \ {x}
    <2>1. IsFiniteSet(T) /\ \A y \in T : g[y] \in Nat
      BY <1>1
    <2> HIDE DEF T
    <2>2. SumOf(g, T) \in Nat
      BY <2>1, SumOfType
    <2> QED BY <2>2, SumOfType DEF T
  <1>3. CASE x \in S
    <2>1. SumOf(g, S) = g[x] + SumOf(g, S \ {x}) /\ g[x] \in Nat
      BY <1>3, SumOfApart
    <2> QED BY <1>2, <2>1
  <1>4. CASE x \notin S
    <2>1. S \ {x} = S
      BY <1>4
    <2> QED BY <1>2, <2>1
  <1> QED BY <1>3, <1>4

\* The price of an extension is an amount.
LEMMA PricesType ==
    ASSUME TypeInv, NEW e \in Requested
    PROVE  e \in Extensions /\ exts[e] \in Extension /\ Prices[e] \in Nat
  <1>1. e \in Extensions /\ exts[e] \in Extension
    BY DEF Requested, TypeInv, TypeOK, NoExtension
  <1> QED BY <1>1 DEF Prices, Extension

\* The approved extensions of a booking are finitely many.
LEMMA ApprovedFinite ==
    ASSUME TypeInv, IsFiniteSet(Requested), NEW b
    PROVE  /\ Approved(b) \subseteq Requested /\ IsFiniteSet(Approved(b))
           /\ \A e \in Approved(b) : Prices[e] \in Nat
  <1>1. Approved(b) \subseteq Requested
    BY DEF Approved, Requested
  <1> QED BY <1>1, PricesType, FS_Subset

\* More money covers as much, the same prices elsewhere are the same sum.
LEMMA PaysMore ==
    ASSUME NEW charge \in Nat, NEW more \in Nat, charge <= more, NEW base \in Lengths,
           NEW S, IsFiniteSet(S), NEW g, NEW f, \A x \in S : g[x] \in Nat /\ f[x] = g[x],
           Pays(charge, base, g, S)
    PROVE  Pays(more, base, f, S)
  <1>1. Price(base) \in Nat /\ SumOf(g, S) \in Nat
    BY PriceType, SumOfType DEF Lengths
  <1>2. SumOf(f, S) = SumOf(g, S)
    BY SumOfEqual
  <1> QED BY <1>1, <1>2 DEF Pays

\* An extension left out need not be paid.
LEMMA PaysLess ==
    ASSUME NEW charge \in Nat, NEW base \in Lengths, NEW S, IsFiniteSet(S), NEW g,
           \A y \in S : g[y] \in Nat, NEW x, Pays(charge, base, g, S)
    PROVE  Pays(charge, base, g, S \ {x})
  <1>1. SumOf(g, S) \in Nat /\ SumOf(g, S \ {x}) <= SumOf(g, S)
    BY SumOfType, SumOfLess
  <1>2. SumOf(g, S \ {x}) \in Nat
    <2> DEFINE T == S \ {x}
    <2>1. IsFiniteSet(T) /\ \A y \in T : g[y] \in Nat
      BY FS_RemoveElement
    <2> HIDE DEF T
    <2> QED BY <2>1, SumOfType DEF T
  <1>3. Price(base) \in Nat
    BY PriceType DEF Lengths
  <1> QED BY <1>1, <1>2, <1>3 DEF Pays

\* One more extension is paid with its price.
LEMMA PaysOne ==
    ASSUME NEW charge \in Nat, NEW base \in Lengths, NEW S, IsFiniteSet(S), NEW g,
           NEW x, \A y \in S \cup {x} : g[y] \in Nat, Pays(charge, base, g, S),
           charge >= Price(base)
    PROVE  Pays(charge + g[x], base, g, S \cup {x})
  <1>1. SumOf(g, S \cup {x}) <= g[x] + SumOf(g, S)
    BY SumOfMore
  <1>2. SumOf(g, S) \in Nat /\ g[x] \in Nat /\ Price(base) \in Nat
    BY SumOfType, PriceType DEF Lengths
  <1>3. SumOf(g, S \cup {x}) \in Nat
    <2> DEFINE T == S \cup {x}
    <2>1. IsFiniteSet(T) /\ \A y \in T : g[y] \in Nat
      BY FS_AddElement
    <2> HIDE DEF T
    <2> QED BY <2>1, SumOfType DEF T
  <1>4. SumOf(g, {}) = 0
    BY SumOfEmpty
  <1>5. charge >= Price(base) + SumOf(g, S)
    BY <1>2, <1>4 DEF Pays
  <1> QED BY <1>1, <1>2, <1>3, <1>5 DEF Pays


\* Worker w's step writes no row, or one that starts when its copy or the row
\* it finds does.
StartWritten(w) ==
    LET j == job[w]
    IN  UNCHANGED rows \/ \E row :
            /\ rows' = [rows EXCEPT ![j.b] = row]
            /\ \/ j.mem # NoRow /\ row.from = j.mem.from
               \/ Exists(j.b) /\ row.from = rows[j.b].from

\* A save leaves the start of a row, a move to another stage that of a copy.
LEMMA StartStays ==
    ASSUME NEW row \in Row
    PROVE  /\ row # NoRow
           /\ \A seen, mem : Save(row, seen, mem).from = row.from
           /\ \A status, stage : To(row, status, stage).from = row.from
  BY DEF Row, NoRow, Statuses, Save, To

\* Every end of a request leaves the start of its booking.
LEMMA CommitsStart ==
    ASSUME TypeInv, NEW w \in Workers, Commits(w)
    PROVE  StartWritten(w)
  <1> DEFINE j == job[w]
  <1>1. ASSUME NEW b, NEW outcome, NEW moved, NEW row, NEW told, NEW booked,
               End(w, b, outcome, moved, row, told, booked)
        PROVE  UNCHANGED rows \/ rows' = [rows EXCEPT ![b] = row]
    BY <1>1 DEF End
  <1>2. CASE CommitCreate(w)
    <2>1. j # Idle /\ j.op = "create"
      BY <1>2, BusyAt DEF CommitCreate
    <2>2. j.mem \in Row
      BY <2>1, JobKinds DEF TypeInv, BookingJob
    <2>3. PICK row, outcome, moved, told, booked :
            /\ row \in {To(j.mem, "confirmed", "reserved"), j.mem}
            /\ End(w, j.b, outcome, moved, row, told, booked)
      BY <1>2 DEF CommitCreate
    <2>4. row.from = j.mem.from /\ j.mem # NoRow
      BY <2>2, <2>3, StartStays
    <2> HIDE DEF j
    <2>5. UNCHANGED rows \/ rows' = [rows EXCEPT ![j.b] = row]
      BY <1>1, <2>3
    <2> QED BY <2>4, <2>5 DEF StartWritten, j
  <1>3. CASE CommitDecline(w) \/ CommitCancel(w)
    <2>1. rows[j.b] \in Row /\ j.b \in Bookings
      BY <1>3, BookingJobType DEF CommitDecline, CommitCancel
    <2>2. PICK status, moved : EndStatusOnly(w, status, moved)
      BY <1>3 DEF CommitDecline, CommitCancel
    <2>3. PICK mem, outcome, told :
            End(w, j.b, outcome, moved, Save(rows[j.b], j.seen, mem), told, moved)
      BY <2>2 DEF EndStatusOnly
    <2>4. Save(rows[j.b], j.seen, mem).from = rows[j.b].from /\ Exists(j.b)
      BY <2>1, StartStays, RowExists DEF TypeInv
    <2> HIDE DEF j
    <2>5. UNCHANGED rows \/ rows' = [rows EXCEPT ![j.b] = Save(rows[j.b], j.seen, mem)]
      BY <1>1, <2>3
    <2> QED BY <2>4, <2>5 DEF StartWritten, j
  <1>4. CASE CommitScheduleReturn(w) \/ CommitConfirmReturn(w)
    <2>1. rows[j.b] \in Row /\ j.b \in Bookings
      BY <1>4, BookingJobType DEF CommitScheduleReturn, CommitConfirmReturn
    <2>2. PICK stage : EndOneStep(w, stage)
      BY <1>4 DEF CommitScheduleReturn, CommitConfirmReturn
    <2>3. PICK mem, outcome, told :
            End(w, j.b, outcome, Nothing, Save(rows[j.b], j.seen, mem), told, Nothing)
      BY <2>2 DEF EndOneStep
    <2>4. Save(rows[j.b], j.seen, mem).from = rows[j.b].from /\ Exists(j.b)
      BY <2>1, StartStays, RowExists DEF TypeInv
    <2> HIDE DEF j
    <2>5. UNCHANGED rows \/ rows' = [rows EXCEPT ![j.b] = Save(rows[j.b], j.seen, mem)]
      BY <1>1, <2>3
    <2> QED BY <2>4, <2>5 DEF StartWritten, j
  <1>5. CASE CommitApproveExtension(w)
    <2>1. j # Idle /\ j.op = "approveExtension"
      BY <1>5, BusyAt DEF CommitApproveExtension
    <2>2. rows[j.b] \in Row /\ j.b \in Bookings
      BY <2>1, ExtensionJobType
    <2>3. PICK mem, outcome, moved, told :
            End(w, j.b, outcome, moved, Save(rows[j.b], j.seen, mem), told, moved)
      BY <1>5 DEF CommitApproveExtension
    <2>4. Save(rows[j.b], j.seen, mem).from = rows[j.b].from /\ Exists(j.b)
      BY <2>2, StartStays, RowExists DEF TypeInv
    <2> HIDE DEF j
    <2>5. UNCHANGED rows \/ rows' = [rows EXCEPT ![j.b] = Save(rows[j.b], j.seen, mem)]
      BY <1>1, <2>3
    <2> QED BY <2>4, <2>5 DEF StartWritten, j
  <1>6. CASE \/ CommitApprove(w) \/ CommitHandover(w) \/ CommitInspect(w)
             \/ CommitReportDamage(w) \/ CommitResolution(w)
    <2>1. j.mem \in Row
      <3>1. CASE CommitResolution(w)
        <4>1. j # Idle /\ j.phase = "resolving"
          BY <3>1 DEF CommitResolution, Idle
        <4> QED BY <4>1, DisputeJobType
      <3> QED BY <1>6, <3>1, BookingJobType DEF CommitApprove, CommitHandover, CommitInspect,
                CommitReportDamage
    <2>2. PICK status, stage, outcome, moved, told, booked :
            End(w, j.b, outcome, moved, To(j.mem, status, stage), told, booked)
      BY <1>6 DEF CommitApprove, CommitHandover, CommitInspect, CommitReportDamage,
         CommitResolution
    <2>3. To(j.mem, status, stage).from = j.mem.from /\ j.mem # NoRow
      BY <2>1, StartStays
    <2> HIDE DEF j
    <2>4. UNCHANGED rows \/ rows' = [rows EXCEPT ![j.b] = To(j.mem, status, stage)]
      BY <1>1, <2>2
    <2> QED BY <2>3, <2>4 DEF StartWritten, j
  <1>7. CASE CommitNegotiation(w) \/ CommitRequestExtension(w) \/ CommitCloseExtension(w)
    BY <1>7 DEF CommitNegotiation, CommitRequestExtension, CommitCloseExtension, StartWritten
  <1> QED BY <1>2, <1>3, <1>4, <1>5, <1>6, <1>7 DEF Commits

\* What the end of worker w's request does to the extensions.
ExtensionsWritten(w) ==
    LET j == job[w]
    IN  \/ UNCHANGED exts
        \/ /\ Requests(w) /\ j.e \in Extensions /\ j.ext \in Extension
           /\ exts' = [exts EXCEPT ![j.e] = j.ext]
        \/ /\ j.op \in {"approveExtension", "declineExtension", "cancelExtension"}
           /\ j # Idle /\ j.e \in Extensions /\ exts[j.e] \in Extension
           /\ \E status \in {"approved", "declined", "cancelled"} :
                /\ exts' = [exts EXCEPT ![j.e].status = status]
                /\ status = "approved" =>
                     ledger'[j.b].charge = ledger[j.b].charge + ExtensionPrice(j.ext)

LEMMA CommitsExtensions ==
    ASSUME TypeInv, NEW w \in Workers, Commits(w)
    PROVE  ExtensionsWritten(w)
  <1> DEFINE j == job[w]
  <1>1. CASE UNCHANGED exts
    BY <1>1 DEF ExtensionsWritten
  <1>2. CASE CommitRequestExtension(w)
    <2>1. j # Idle /\ j.op = "requestExtension"
      BY <1>2, BusyAt DEF CommitRequestExtension
    <2>2. j.e \in Extensions /\ j.ext \in Extension
      BY <2>1, ExtensionJobType
    <2>3. UNCHANGED exts \/ exts' = [exts EXCEPT ![j.e] = j.ext]
      BY <1>2 DEF CommitRequestExtension
    <2> QED BY <2>1, <2>2, <2>3 DEF ExtensionsWritten, Requests
  <1>3. CASE CommitApproveExtension(w) \/ CommitCloseExtension(w)
    <2>1. j # Idle /\ j.op \in {"approveExtension", "declineExtension", "cancelExtension"}
      BY <1>3, BusyAt DEF CommitApproveExtension, CommitCloseExtension
    <2>2. j.e \in Extensions /\ exts[j.e] \in Extension
      BY <2>1, ExtensionJobType
    <2>3. CASE CommitApproveExtension(w)
      <3> DEFINE charged == [Nothing EXCEPT !.charge = ExtensionPrice(j.ext)]
      <3>1. PICK outcome, row, told :
              /\ End(w, j.b, outcome, charged, row, told, charged)
              /\ exts' = IF outcome = "commit"
                         THEN [exts EXCEPT ![j.e].status = "approved"] ELSE exts
        BY <2>3 DEF CommitApproveExtension
      <3>2. charged.charge = ExtensionPrice(j.ext)
        BY DEF Nothing
      <3>3. j.b \in Bookings /\ ledger \in [Bookings -> Amounts]
        BY <2>1, ExtensionJobType DEF TypeInv, TypeOK
      <3> HIDE DEF charged, j
      <3>4. outcome = "commit" =>
              ledger'[j.b].charge = ledger[j.b].charge + ExtensionPrice(j.ext)
        BY <3>1, <3>2, <3>3 DEF End, Plus
      <3> QED BY <2>1, <2>2, <3>1, <3>4 DEF ExtensionsWritten, j
    <2>4. CASE CommitCloseExtension(w)
      <3>1. PICK status \in {"declined", "cancelled"} :
              exts' = [exts EXCEPT ![j.e].status = status]
        BY <2>4 DEF CommitCloseExtension
      <3> QED BY <2>1, <2>2, <3>1 DEF ExtensionsWritten
    <2> QED BY <1>3, <2>3, <2>4
  <1> QED BY <1>1, <1>2, <1>3 DEF Commits, CommitCreate, CommitApprove, CommitDecline,
         CommitCancel, CommitHandover, CommitScheduleReturn, CommitConfirmReturn,
         CommitInspect, CommitReportDamage, CommitNegotiation, CommitResolution,
         EndStatusOnly, EndOneStep

\* What is charged to a booking never becomes less.
LEMMA ChargeGrows ==
    ASSUME TypeInv, LedgerStep, NEW b \in Bookings
    PROVE  /\ ledger[b].charge \in Nat /\ ledger'[b].charge \in Nat
           /\ ledger[b].charge <= ledger'[b].charge
  <1>1. ledger \in [Bookings -> Amounts]
    BY DEF TypeInv, TypeOK
  <1>2. ledger'[b] = ledger[b] \/ \E booked \in Amounts : ledger'[b] = Plus(ledger[b], booked)
    BY <1>1 DEF LedgerStep, Books
  <1>3. \A booked \in Amounts : /\ Plus(ledger[b], booked).charge \in Nat
                                /\ ledger[b].charge <= Plus(ledger[b], booked).charge
    BY <1>1 DEF Plus, Amounts
  <1>4. ledger[b].charge \in Nat
    BY <1>1 DEF Amounts
  <1> QED BY <1>2, <1>3, <1>4

\* One extension row written: the others stay as they are.
LEMMA ExtensionsAfter ==
    ASSUME TypeInv, NEW w \in Workers, ExtensionsWritten(w), ~UNCHANGED exts
    PROVE  /\ job[w].e \in Extensions
           /\ \A e \in Extensions \ {job[w].e} : exts'[e] = exts[e]
           /\ Requests(w) => exts'[job[w].e] = job[w].ext
           /\ ~Requests(w) =>
                /\ job[w] # Idle
                /\ job[w].op \in {"approveExtension", "declineExtension", "cancelExtension"}
                /\ exts[job[w].e] \in Extension
                /\ exts'[job[w].e].status \in {"approved", "declined", "cancelled"}
                /\ exts'[job[w].e].b = exts[job[w].e].b
                /\ exts'[job[w].e].rental = exts[job[w].e].rental
                /\ exts'[job[w].e].service = exts[job[w].e].service
                /\ exts'[job[w].e].status = "approved" =>
                     ledger'[job[w].b].charge =
                        ledger[job[w].b].charge + ExtensionPrice(job[w].ext)
  <1> DEFINE j == job[w]
  <1>1. exts \in [Extensions -> Extension \cup {NoExtension}]
    BY DEF TypeInv, TypeOK
  <1>2. CASE /\ Requests(w) /\ j.e \in Extensions /\ j.ext \in Extension
             /\ exts' = [exts EXCEPT ![j.e] = j.ext]
    BY <1>1, <1>2
  <1>3. CASE /\ j.op \in {"approveExtension", "declineExtension", "cancelExtension"}
             /\ j # Idle /\ j.e \in Extensions /\ exts[j.e] \in Extension
             /\ \E status \in {"approved", "declined", "cancelled"} :
                  /\ exts' = [exts EXCEPT ![j.e].status = status]
                  /\ status = "approved" =>
                       ledger'[j.b].charge = ledger[j.b].charge + ExtensionPrice(j.ext)
    <2>1. PICK status \in {"approved", "declined", "cancelled"} :
            /\ exts' = [exts EXCEPT ![j.e].status = status]
            /\ status = "approved" =>
                 ledger'[j.b].charge = ledger[j.b].charge + ExtensionPrice(j.ext)
      BY <1>3
    <2>2. ~Requests(w)
      BY <1>3 DEF Requests
    <2> HIDE DEF j
    <2>3. exts'[j.e] = [exts[j.e] EXCEPT !.status = status] /\ exts[j.e] \in Extension
      BY <1>1, <1>3, <2>1
    <2>4. /\ exts'[j.e].status = status
          /\ exts'[j.e].b = exts[j.e].b
          /\ exts'[j.e].rental = exts[j.e].rental
          /\ exts'[j.e].service = exts[j.e].service
      BY <2>3 DEF Extension
    <2>5. \A e \in Extensions \ {j.e} : exts'[e] = exts[e]
      BY <1>1, <2>1
    <2>6. j # Idle /\ j.e \in Extensions
             /\ j.op \in {"approveExtension", "declineExtension", "cancelExtension"}
      BY <1>3
    <2> QED BY <2>1, <2>2, <2>3, <2>4, <2>5, <2>6 DEF j
  <1> QED BY <1>2, <1>3 DEF ExtensionsWritten

\* Every end of a request keeps what the other requests rely on.
LEMMA CommitsKeepExtensions ==
    ASSUME TypeInv, IsFiniteSet(Requested), ExtensionsKept, NEW w \in Workers, Commits(w)
    PROVE  IsFiniteSet(Requested)' /\ ExtensionsKept'
  <1> DEFINE j == job[w]
  <1>1. job' = [job EXCEPT ![w] = Idle] /\ ExtensionsWritten(w)
    BY CommitsIdle, CommitsExtensions
  <1>2. /\ job'[w] = Idle
        /\ \A v \in Workers \ {w} : job'[v] = job[v]
    BY <1>1 DEF TypeInv, TypeOK
  <1>3. CASE UNCHANGED exts
    <2>1. IsFiniteSet(Requested)'
      BY <1>3 DEF Requested
    <2>2. \A v \in Workers : job'[v] # Idle => ExtensionKept(job[v])'
      BY <1>2, <1>3 DEF ExtensionsKept, ExtensionKept
    <2> QED BY <1>2, <2>1, <2>2 DEF ExtensionsKept, Requests
  <1>4. CASE ~UNCHANGED exts
    <2>1. /\ j.e \in Extensions
          /\ \A e \in Extensions \ {j.e} : exts'[e] = exts[e]
          /\ ~Requests(w) =>
               /\ exts[j.e] \in Extension
               /\ exts'[j.e].b = exts[j.e].b
               /\ exts'[j.e].rental = exts[j.e].rental
               /\ exts'[j.e].service = exts[j.e].service
      BY <1>1, <1>4, ExtensionsAfter
    <2>2. IsFiniteSet(Requested)'
      <3>1. Requested' \subseteq Requested \cup {j.e}
        BY <2>1 DEF Requested
      <3>2. IsFiniteSet(Requested \cup {j.e})
        BY FS_AddElement
      <3> HIDE DEF j
      <3> QED BY <3>1, <3>2, FS_Subset
    <2>3. ASSUME NEW v \in Workers \ {w}, job[v] # Idle
          PROVE  ExtensionKept(job[v])'
      <3>1. ExtensionKept(job[v]) /\ job'[v] = job[v]
        BY <1>2, <2>3 DEF ExtensionsKept
      <3>2. CASE job[v].op \in {"approveExtension", "declineExtension", "cancelExtension"}
        <4>1. exts[job[v].e] \in Extension /\ job[v].e \in Extensions
          BY <2>3, <3>2, ExtensionJobType
        <4>2. CASE job[v].e # j.e
          BY <2>1, <3>1, <3>2, <4>1, <4>2 DEF ExtensionKept
        <4>3. CASE job[v].e = j.e
          <5>1. ~Requests(w)
            <6>1. exts[j.e] # NoExtension
              BY <4>1, <4>3 DEF Extension, NoExtension, ExtensionStatuses
            <6> QED BY <6>1 DEF ExtensionsKept, ExtensionKept, Requests
          <5> QED BY <2>1, <3>1, <3>2, <4>3, <5>1 DEF ExtensionKept
        <4> QED BY <4>2, <4>3
      <3>3. CASE job[v].op = "requestExtension"
        <4>1. job[v].e \in Extensions
          BY <2>3, <3>3, ExtensionJobType
        <4>2. job[v].e # j.e
          <5>1. CASE Requests(w)
            BY <2>3, <3>3, <5>1 DEF ExtensionsKept, Requests
          <5>2. CASE ~Requests(w)
            <6>1. exts[j.e] # NoExtension
              BY <2>1, <5>2 DEF Extension, NoExtension, ExtensionStatuses
            <6> QED BY <3>1, <3>3, <6>1 DEF ExtensionKept
          <5> QED BY <5>1, <5>2
        <4> QED BY <2>1, <3>1, <3>3, <4>1, <4>2 DEF ExtensionKept
      <3>4. CASE job[v].op \notin ExtensionOps
        BY <3>1, <3>4 DEF ExtensionKept, ExtensionOps
      <3> QED BY <3>2, <3>3, <3>4 DEF ExtensionOps
    <2>4. \A v \in Workers : job'[v] # Idle => ExtensionKept(job[v])'
      BY <1>2, <2>3
    <2>5. \A u, v \in Workers : Requests(u)' /\ Requests(v)' /\ u # v => job'[u].e # job'[v].e
      BY <1>2 DEF ExtensionsKept, Requests
    <2> QED BY <2>2, <2>4, <2>5 DEF ExtensionsKept
  <1> QED BY <1>3, <1>4

\* The ends of requests keep what is charged ahead of what is approved.
LEMMA CommitsCovered ==
    ASSUME TypeInv, IsFiniteSet(Requested), ExtensionsKept, NEW w \in Workers, Commits(w),
           NEW b \in Bookings, NEW base \in Lengths, SoundHistory(b, base), Covered(b, base)
    PROVE  Covered(b, base)'
  <1> DEFINE j == job[w]
             charge == ledger[b].charge
             more == ledger'[b].charge
  <1>1. ExtensionsWritten(w) /\ charge \in Nat /\ more \in Nat /\ charge <= more
    BY CommitsExtensions, CommitsBook, ChargeGrows
  <1>2. /\ IsFiniteSet(Approved(b)) /\ \A e \in Approved(b) : Prices[e] \in Nat
        /\ Approved(b) \subseteq Requested
    BY ApprovedFinite
  <1>3. Covered(b, base)' <=> Pays(more, base, Prices', Approved(b)')
    BY DEF Covered, Pays, Price
  <1> HIDE DEF more, charge
  <1>4. Pays(charge, base, Prices, Approved(b))
    BY DEF Covered, charge
  <1>5. ASSUME Approved(b)' = Approved(b),
               \A e \in Approved(b) : Prices'[e] = Prices[e]
        PROVE  Pays(more, base, Prices', Approved(b)')
    <2> DEFINE S == Approved(b)
               g == Prices
               f == Prices'
    <2>1. IsFiniteSet(S) /\ (\A e \in S : g[e] \in Nat /\ f[e] = g[e]) /\ Pays(charge, base, g, S)
      BY <1>2, <1>4, <1>5
    <2>2. Approved(b)' = S /\ Prices' = f
      BY <1>5
    <2> HIDE DEF S, g, f
    <2>3. Pays(more, base, f, S)
      BY <1>1, <2>1, PaysMore
    <2> QED BY <2>2, <2>3
  <1>6. CASE UNCHANGED exts
    BY <1>3, <1>5, <1>6 DEF Approved, Prices
  <1>7. CASE ~UNCHANGED exts
    <2>1. /\ j.e \in Extensions
          /\ \A e \in Extensions \ {j.e} : exts'[e] = exts[e]
          /\ Requests(w) => exts'[j.e] = j.ext
          /\ ~Requests(w) =>
               /\ j # Idle
               /\ j.op \in {"approveExtension", "declineExtension", "cancelExtension"}
               /\ exts[j.e] \in Extension
               /\ exts'[j.e].status \in {"approved", "declined", "cancelled"}
               /\ exts'[j.e].b = exts[j.e].b
               /\ exts'[j.e].rental = exts[j.e].rental
               /\ exts'[j.e].service = exts[j.e].service
               /\ exts'[j.e].status = "approved" =>
                    ledger'[j.b].charge = ledger[j.b].charge + ExtensionPrice(j.ext)
      BY <1>1, <1>7, ExtensionsAfter
    <2>2. \A e \in Extensions \ {j.e} : Prices'[e] = Prices[e]
      BY <2>1 DEF Prices
    <2>3. CASE Requests(w)
      <3>1. exts[j.e] = NoExtension /\ exts'[j.e].status = "pending"
        BY <2>1, <2>3 DEF ExtensionsKept, ExtensionKept, Requests
      <3>2. j.e \notin Approved(b) /\ j.e \notin Approved(b)'
        BY <3>1 DEF Approved, NoExtension
      <3>3. Approved(b)' = Approved(b)
        BY <2>1, <3>2 DEF Approved
      <3>4. \A e \in Approved(b) : Prices'[e] = Prices[e]
        BY <2>2, <3>2 DEF Approved
      <3> QED BY <1>3, <1>5, <3>3, <3>4
    <2>4. CASE ~Requests(w)
      <3>1. /\ exts[j.e].b = j.b /\ exts[j.e].rental = j.ext.rental
            /\ exts[j.e].service = j.ext.service
        BY <2>1, <2>4 DEF ExtensionsKept, ExtensionKept
      <3>2. /\ Prices[j.e] = ExtensionPrice(j.ext) /\ Prices'[j.e] = Prices[j.e]
            /\ Prices[j.e] \in Nat
        BY <2>1, <2>4, <3>1 DEF Prices, ExtensionPrice, Extension
      <3>3. \A e \in Extensions : Prices'[e] = Prices[e]
        BY <2>2, <3>2
      <3>4. CASE exts'[j.e].status # "approved" \/ j.b # b
        <4>1. Approved(b)' = Approved(b) \ {j.e} \/ Approved(b)' = Approved(b)
          BY <2>1, <2>4, <3>1, <3>4 DEF Approved
        <4>2. CASE Approved(b)' = Approved(b)
          BY <1>3, <1>5, <3>3, <4>2 DEF Approved
        <4>3. CASE Approved(b)' = Approved(b) \ {j.e}
          <5> DEFINE S == Approved(b)
                     T == S \ {j.e}
                     g == Prices
                     f == Prices'
          <5>1. /\ IsFiniteSet(S) /\ \A e \in S : g[e] \in Nat
                /\ Pays(charge, base, g, S)
            BY <1>2, <1>4
          <5>2. \A e \in T : f[e] = g[e]
            BY <3>3 DEF Approved
          <5>3. Approved(b)' = T /\ Prices' = f
            BY <4>3
          <5> HIDE DEF S, g, f, j
          <5>4. Pays(charge, base, g, T) /\ IsFiniteSet(T)
            BY <1>1, <5>1, PaysLess, FS_RemoveElement
          <5>5. \A e \in T : g[e] \in Nat
            BY <5>1
          <5> HIDE DEF T
          <5>6. Pays(more, base, f, T)
            BY <1>1, <5>2, <5>4, <5>5, PaysMore
          <5> QED BY <1>3, <5>3, <5>6
        <4> QED BY <4>1, <4>2, <4>3
      <3>5. CASE exts'[j.e].status = "approved" /\ j.b = b
        <4>1. Approved(b)' = Approved(b) \cup {j.e}
          BY <2>1, <2>4, <3>1, <3>5 DEF Approved
        <4>2. more = charge + Prices[j.e]
          BY <2>1, <2>4, <3>2, <3>5 DEF more, charge
        <4>3. charge >= Price(base)
          <5>1. j # Idle /\ j.op \in LateOps /\ SoundJob(charge, base, j)
            BY <2>1, <2>4, <3>5, JobCharges DEF LateOps, ExtensionOps, charge
          <5> QED BY <5>1 DEF SoundJob
        <4> DEFINE S == Approved(b)
                   T == S \cup {j.e}
                   g == Prices
                   f == Prices'
        <4>4. /\ IsFiniteSet(S) /\ (\A e \in T : g[e] \in Nat)
              /\ Pays(charge, base, g, S)
          BY <1>2, <1>4, <3>2
        <4>5. \A e \in T : f[e] = g[e]
          BY <2>1, <3>3 DEF Approved
        <4>6. Approved(b)' = T /\ Prices' = f /\ more = charge + g[j.e]
          BY <4>1, <4>2
        <4> HIDE DEF S, g, f, j
        <4>7. Pays(charge + g[j.e], base, g, T) /\ IsFiniteSet(T)
          BY <1>1, <4>3, <4>4, PaysOne, FS_AddElement
        <4> HIDE DEF T
        <4>8. Pays(more, base, g, T)
          BY <4>6, <4>7
        <4>9. Pays(more, base, f, T)
          BY <1>1, <4>4, <4>5, <4>7, <4>8, PaysMore
        <4> QED BY <1>3, <4>6, <4>9
      <3> QED BY <3>4, <3>5
    <2> QED BY <2>3, <2>4
  <1> QED BY <1>6, <1>7

\* What a provider has earned never becomes less.
LEMMA EarningGrows ==
    ASSUME TypeInv, LedgerStep, NEW b \in Bookings
    PROVE  /\ ledger[b].earning \in Nat /\ ledger'[b].earning \in Nat
           /\ ledger[b].earning <= ledger'[b].earning
  <1>1. ledger \in [Bookings -> Amounts]
    BY DEF TypeInv, TypeOK
  <1>2. ledger'[b] = ledger[b] \/ \E booked \in Amounts : ledger'[b] = Plus(ledger[b], booked)
    BY <1>1 DEF LedgerStep, Books
  <1>3. \A booked \in Amounts : /\ Plus(ledger[b], booked).earning \in Nat
                                /\ ledger[b].earning <= Plus(ledger[b], booked).earning
    BY <1>1 DEF Plus, Amounts
  <1>4. ledger[b].earning \in Nat
    BY <1>1 DEF Amounts
  <1> QED BY <1>2, <1>3, <1>4

\* The rental of a longer stay is no less.
LEMMA LongerCosts ==
    ASSUME NEW k \in Lengths, NEW base \in Lengths, k >= base
    PROVE  RentalRate * k >= RentalRate * base
  <1>1. RentalRate \in Nat /\ k - base \in Nat /\ k = base + (k - base)
    BY RatesAssumption DEF Lengths
  <1>2. /\ RentalRate * (base + (k - base)) = RentalRate * base + RentalRate * (k - base)
        /\ RentalRate * (k - base) \in Nat /\ RentalRate * base \in Nat
    BY <1>1, PriceType DEF Lengths
  <1> QED BY <1>1, <1>2

\* A resolution is recorded together with the rental of the copy it settles,
\* which is as long as the window first booked or longer.
LEMMA ResolutionEarns ==
    ASSUME TypeInv, NEW w \in Workers, CommitResolution(w), ~UNCHANGED disputes,
           NEW base \in Lengths, SoundHistory(job[w].b, base)
    PROVE  ledger'[job[w].b].earning >= RentalRate * base
  <1> DEFINE j == job[w]
  <1>1. j # Idle /\ j.phase = "resolving"
    BY DEF CommitResolution, Idle
  <1>2. j.b \in Bookings /\ j.mem \in Row /\ j.dmem.final \in 0..Deposit
    BY <1>1, DisputeJobType DEF Dispute
  <1>3. PICK k \in Lengths : Priced(j.mem, k) /\ k >= base
    <2>1. j.mem # NoRow
      BY <1>2 DEF Row, NoRow, Statuses
    <2> QED BY <1>1, <2>1, JobCharges DEF SoundJob, Sound
  <1>4. RentalRate * k >= RentalRate * base /\ RentalRate * k \in Nat /\ RentalRate * base \in Nat
    BY <1>3, LongerCosts, PriceType DEF Lengths
  <1>5. j.mem.rental = RentalRate * k
    BY <1>3 DEF Priced
  <1>6. ledger' = [ledger EXCEPT ![j.b] =
                      Plus(ledger[j.b], Settled(j.dmem.final, j.mem.rental))]
    BY DEF CommitResolution, End
  <1>7. ledger'[j.b].earning = ledger[j.b].earning + j.mem.rental /\ ledger[j.b].earning \in Nat
    BY <1>2, <1>6 DEF TypeInv, TypeOK, Plus, Settled, Nothing, Amounts
  <1> HIDE DEF j
  <1>8. ledger'[j.b].earning >= RentalRate * base
    BY <1>4, <1>5, <1>7
  <1> QED BY <1>8 DEF j

\* The ends of requests record no resolution that has not earned its rental.
LEMMA CommitsEarned ==
    ASSUME TypeInv, NEW w \in Workers, Commits(w), NEW b \in Bookings, NEW base \in Lengths,
           SoundHistory(b, base), Earned(b, base)
    PROVE  Earned(b, base)'
  <1> DEFINE j == job[w]
  <1> SUFFICES ASSUME Resolved(b)' PROVE ledger'[b].earning >= RentalRate * base
    BY DEF Earned
  <1>1. /\ ledger[b].earning \in Nat /\ ledger'[b].earning \in Nat
        /\ ledger[b].earning <= ledger'[b].earning
    BY CommitsBook, EarningGrows
  <1>2. RentalRate * base \in Nat
    BY PriceType DEF Lengths
  <1>3. CASE Resolved(b)
    BY <1>1, <1>2, <1>3 DEF Earned
  <1>4. CASE ~Resolved(b)
    <2>1. disputes[b].resolution = "none" /\ disputes'[b].resolution # "none"
      <3>1. \A v \in Workers : job'[v] = Idle \/ job'[v] = job[v]
        BY CommitsIdle DEF TypeInv, TypeOK
      <3> QED BY <1>4, <3>1 DEF Resolved, Reinstates
    <2>2. CASE CommitNegotiation(w)
      <3>1. j # Idle /\ j.op \in {"propose", "reject"}
        BY <2>2, BusyAt DEF CommitNegotiation
      <3>2. disputes' = [disputes EXCEPT ![j.b] = SaveDispute(disputes[j.b], j.dseen, j.dmem)]
        BY <2>2 DEF CommitNegotiation
      <3> HIDE DEF j
      <3>3. j.b = b /\ disputes'[b] = SaveDispute(disputes[b], j.dseen, j.dmem)
        BY <2>1, <3>2 DEF TypeInv, TypeOK
      <3>4. j.dmem.resolution # "none"
        BY <2>1, <3>3 DEF SaveDispute, Column
      <3> QED BY <1>4, <3>1, <3>3, <3>4 DEF Resolved, Reinstates, j
    <2>3. CASE CommitReportDamage(w)
      <3> DEFINE opened == [NoDispute EXCEPT !.status = "open"]
      <3>1. UNCHANGED disputes \/ disputes' = [disputes EXCEPT ![j.b] = opened]
        BY <2>3 DEF CommitReportDamage
      <3>2. opened.resolution = "none"
        BY DEF NoDispute
      <3> HIDE DEF j, opened
      <3> QED BY <2>1, <3>1, <3>2 DEF TypeInv, TypeOK
    <2>4. CASE CommitResolution(w)
      <3>1. PICK d : disputes' = [disputes EXCEPT ![j.b] = d]
        BY <2>1, <2>4 DEF CommitResolution
      <3> HIDE DEF j
      <3>2. j.b = b
        BY <2>1, <3>1 DEF TypeInv, TypeOK
      <3> QED BY <2>1, <2>4, <3>2, ResolutionEarns DEF j
    <2> QED BY <2>1, <2>2, <2>3, <2>4 DEF Commits, CommitCreate, CommitApprove, CommitDecline,
           CommitCancel, CommitHandover, CommitScheduleReturn, CommitConfirmReturn,
           CommitInspect, CommitRequestExtension, CommitApproveExtension,
           CommitCloseExtension, EndStatusOnly, EndOneStep
  <1> QED BY <1>3, <1>4

\* The ends of requests keep the start of every booking, and begin none.
LEMMA CommitsKeepStart ==
    ASSUME TypeInv, NEW w \in Workers, Commits(w), NEW b \in Bookings
    PROVE  /\ Begun(b)' => Begun(b)
           /\ \A from : StartsAt(b, from) => StartsAt(b, from)'
  <1> DEFINE j == job[w]
  <1>1. job' = [job EXCEPT ![w] = Idle] /\ StartWritten(w)
    BY CommitsIdle, CommitsStart
  <1>2. /\ job'[w] = Idle
        /\ \A v \in Workers \ {w} : job'[v] = job[v]
    BY <1>1 DEF TypeInv, TypeOK
  <1>3. j # Idle
    BY CommitsBusy
  <1>4. rows'[b] = rows[b] \/
          /\ j.b = b
          /\ \/ j.mem # NoRow /\ rows'[b].from = j.mem.from
             \/ Exists(b) /\ rows'[b].from = rows[b].from
    <2>1. CASE UNCHANGED rows
      BY <2>1
    <2>2. CASE ~UNCHANGED rows
      <3>1. PICK row :
              /\ rows' = [rows EXCEPT ![j.b] = row]
              /\ \/ j.mem # NoRow /\ row.from = j.mem.from
                 \/ Exists(j.b) /\ row.from = rows[j.b].from
        BY <1>1, <2>2 DEF StartWritten
      <3> HIDE DEF j
      <3>2. b # j.b => rows'[b] = rows[b]
        BY <3>1 DEF TypeInv, TypeOK
      <3>3. b = j.b => rows'[b] = row
        BY <3>1 DEF TypeInv, TypeOK
      <3> QED BY <3>1, <3>2, <3>3
    <2> QED BY <2>1, <2>2
  <1>5. Begun(b)' => Begun(b)
    BY <1>2, <1>3, <1>4 DEF Begun, Exists
  <1>6. ASSUME NEW from, StartsAt(b, from)
        PROVE  StartsAt(b, from)'
    <2>1. Exists(b)' => rows'[b].from = from
      BY <1>3, <1>4, <1>6 DEF StartsAt, Exists
    <2>2. \A v \in Workers : job'[v] # Idle /\ job'[v].b = b /\ job'[v].mem # NoRow =>
                                job'[v].mem.from = from
      BY <1>2, <1>6 DEF StartsAt
    <2> QED BY <2>1, <2>2 DEF StartsAt
  <1> QED BY <1>5, <1>6

\* A request taken up, going on or given up, on a booking that exists.
LEMMA StartPaid ==
    ASSUME TypeInv, ExtensionsInv, HistoriesKept, NEW w \in Workers, NEW request,
           Start(w, request) \/ Proceed(w, request),
           request # Idle =>
              /\ Begun(request.b)
              /\ \A from : StartsAt(request.b, from) /\ request.mem # NoRow =>
                             request.mem.from = from
              /\ ExtensionKept(request)
              /\ Reinstates(request) => Resolved(request.b)
              /\ request.op = "requestExtension" =>
                    \A v \in Workers : Requests(v) => job[v].e # request.e
    PROVE  ExtensionsInv'
  <1>1. UNCHANGED <<rows, disputes, exts, ledger>> /\ job' = [job EXCEPT ![w] = request]
    BY DEF Start, Proceed, tables
  <1>2. /\ job'[w] = request
        /\ \A v \in Workers \ {w} : job'[v] = job[v]
    BY <1>1 DEF TypeInv, TypeOK
  <1>3. IsFiniteSet(Requested)'
    BY <1>1 DEF ExtensionsInv, Requested
  <1>4. \A v \in Workers : job'[v] # Idle => ExtensionKept(job[v])'
    BY <1>1, <1>2 DEF ExtensionsInv, ExtensionsKept, ExtensionKept
  <1>5. \A u, v \in Workers : Requests(u)' /\ Requests(v)' /\ u # v => job'[u].e # job'[v].e
    BY <1>2 DEF ExtensionsInv, ExtensionsKept, Requests
  <1>6. ASSUME NEW b \in Bookings, Begun(b)'
        PROVE  \E win \in Windows : WindowPaid(b, win)'
    <2>1. Begun(b)
      BY <1>1, <1>2, <1>6 DEF Begun, Exists
    <2>2. PICK win \in Windows : WindowPaid(b, win)
      BY <2>1 DEF ExtensionsInv
    <2>3. win[2] - win[1] \in Lengths
      BY LifecycleAssumption DEF Lengths
    <2>4. SoundHistory(b, win[2] - win[1])'
      BY <2>2, <2>3 DEF WindowPaid, HistoriesKept, HistoryKept
    <2>5. StartsAt(b, win[1])'
      BY <1>1, <1>2, <2>2 DEF WindowPaid, StartsAt, Exists
    <2>6. Covered(b, win[2] - win[1])'
      BY <1>1, <2>2 DEF WindowPaid, Covered, Prices, Approved
    <2>7. Resolved(b)' => Resolved(b)
      BY <1>1, <1>2 DEF Resolved, Reinstates
    <2>8. Earned(b, win[2] - win[1])'
      BY <1>1, <2>2, <2>7 DEF WindowPaid, Earned
    <2> QED BY <2>4, <2>5, <2>6, <2>8 DEF WindowPaid
  <1> QED BY <1>3, <1>4, <1>5, <1>6 DEF ExtensionsInv, ExtensionsKept

\* Every read of a request but create's keeps the invariant.
LEMMA LoadsPaid ==
    ASSUME TypeInv, ExtensionsInv, HistoriesKept, NEW w \in Workers, Loads(w), ~LoadCreate(w)
    PROVE  ExtensionsInv'
  <1>1. ASSUME NEW op \in {"approve", "decline", "cancel", "handover", "scheduleReturn",
                          "confirmReturn", "inspect", "reportDamage"},
               NEW b \in Bookings, Load(w, op, b)
        PROVE  ExtensionsInv'
    <2> DEFINE request == [op |-> op, phase |-> "loaded", b |-> b, mem |-> rows[b],
                           seen |-> NoRow]
    <2>1. Exists(b) /\ Start(w, request)
      BY <1>1 DEF Load
    <2>2. /\ request # Idle /\ request.b = b /\ request.mem = rows[b]
          /\ request.op \notin ExtensionOps /\ request.op \notin {"propose", "reject"}
      BY DEF Idle, ExtensionOps
    <2> HIDE DEF request
    <2>3. \A from : StartsAt(b, from) => rows[b].from = from
      BY <2>1 DEF StartsAt
    <2>4. ExtensionKept(request) /\ request.op # "requestExtension"
      BY <2>2 DEF ExtensionKept, ExtensionOps
    <2>5. ~Reinstates(request)
      BY <2>2 DEF Reinstates
    <2> QED BY <2>1, <2>2, <2>3, <2>4, <2>5, StartPaid DEF Begun
  <1>2. CASE LoadApprove(w) \/ LoadDecline(w) \/ LoadCancel(w) \/ LoadHandover(w)
             \/ LoadScheduleReturn(w) \/ LoadConfirmReturn(w) \/ LoadReportDamage(w)
             \/ LoadInspect(w)
    BY <1>1, <1>2 DEF LoadApprove, LoadDecline, LoadCancel, LoadHandover, LoadScheduleReturn,
       LoadConfirmReturn, LoadReportDamage, LoadInspect, LoadAtStage
  <1>3. CASE LoadPropose(w) \/ LoadReject(w) \/ LoadAccept(w) \/ LoadAdminResolve(w)
    <2>1. PICK b, op, statuses, dmem :
            /\ b \in Bookings /\ op \in {"propose", "reject", "accept", "adminResolve"}
            /\ "none" \notin statuses
            /\ LoadDispute(w, op, b, statuses, dmem)
            /\ op \in {"propose", "reject"} => dmem.resolution = disputes[b].resolution
      <3>1. \A b \in Bookings : disputes[b] \in Dispute
        BY DEF TypeInv, TypeOK
      <3>2. \A d \in Dispute : \A status, amount :
              /\ [d EXCEPT !.status = status, !.proposed = amount].resolution = d.resolution
              /\ [d EXCEPT !.status = status].resolution = d.resolution
        BY DEF Dispute
      <3>3. CASE LoadPropose(w)
        <4>1. PICK b \in Bookings, amount \in 0..Deposit :
                LoadDispute(w, "propose", b, {"open", "contested"},
                    [disputes[b] EXCEPT !.status = "proposed", !.proposed = amount])
          BY <3>3 DEF LoadPropose
        <4>2. [disputes[b] EXCEPT !.status = "proposed", !.proposed = amount].resolution
                = disputes[b].resolution
          BY <3>1, <3>2
        <4> QED BY <4>1, <4>2
      <3>4. CASE LoadReject(w)
        <4>1. PICK b \in Bookings :
                LoadDispute(w, "reject", b, {"proposed"},
                            [disputes[b] EXCEPT !.status = "contested"])
          BY <3>4 DEF LoadReject
        <4>2. [disputes[b] EXCEPT !.status = "contested"].resolution = disputes[b].resolution
          BY <3>1, <3>2
        <4> QED BY <4>1, <4>2
      <3>5. CASE LoadAccept(w) \/ LoadAdminResolve(w)
        <4>1. PICK b, op, statuses, dmem :
                /\ b \in Bookings /\ op \in {"accept", "adminResolve"}
                /\ "none" \notin statuses
                /\ LoadDispute(w, op, b, statuses, dmem)
          BY <3>5 DEF LoadAccept, LoadAdminResolve
        <4> QED BY <4>1
      <3> QED BY <1>3, <3>3, <3>4, <3>5
    <2> DEFINE request == [op |-> op, phase |-> "loaded", b |-> b, dmem |-> dmem,
                           dseen |-> NoDispute, mem |-> NoRow]
    <2>2. disputes[b].status # "none" /\ Start(w, request)
      BY <2>1 DEF LoadDispute
    <2>3. Exists(b)
      BY <2>1, <2>2 DEF TypeInv, WellFormed
    <2>4. /\ request # Idle /\ request.b = b /\ request.mem = NoRow
          /\ request.op \notin ExtensionOps /\ request.op = op /\ request.dmem = dmem
      BY <2>1 DEF Idle, ExtensionOps
    <2> HIDE DEF request
    <2>5. ExtensionKept(request) /\ request.op # "requestExtension"
      BY <2>4 DEF ExtensionKept, ExtensionOps
    <2>6. Reinstates(request) => Resolved(b)
      BY <2>1, <2>4 DEF Reinstates, Resolved
    <2> QED BY <2>2, <2>3, <2>4, <2>5, <2>6, StartPaid DEF Begun
  <1>4. ASSUME NEW e \in Extensions, NEW op \in ExtensionOps, NEW ext,
               NEW phase \in {"found", "loaded"}, NEW mem \in {NoRow, rows[ext.b]},
               Start(w, [op |-> op, phase |-> phase, b |-> ext.b, e |-> e, ext |-> ext,
                         mem |-> mem, seen |-> NoRow]),
               ext.b \in Bookings, Exists(ext.b),
               op = "requestExtension" =>
                  /\ phase = "loaded" /\ ext.status = "pending" /\ exts[e] = NoExtension
                  /\ \A v \in Workers : At(v, "requestExtension", "loaded") => job[v].e # e,
               op # "requestExtension" => ext = exts[e]
        PROVE  ExtensionsInv'
    <2> DEFINE request == [op |-> op, phase |-> phase, b |-> ext.b, e |-> e,
                           ext |-> ext, mem |-> mem, seen |-> NoRow]
    <2>1. Start(w, request)
      BY <1>4
    <2>2. /\ request # Idle /\ request.b = ext.b /\ request.mem = mem /\ request.op = op
          /\ request.e = e /\ request.ext = ext /\ request.phase = phase
      BY DEF Idle
    <2> HIDE DEF request
    <2>3. \A from : StartsAt(ext.b, from) /\ mem # NoRow => mem.from = from
      BY <1>4 DEF StartsAt
    <2>4. ExtensionKept(request) /\ ~Reinstates(request)
      BY <1>4, <2>2 DEF ExtensionKept, Reinstates, ExtensionOps
    <2>5. op = "requestExtension" => \A v \in Workers : Requests(v) => job[v].e # e
      BY <1>4 DEF ExtensionsInv, ExtensionsKept, ExtensionKept, Requests, At
    <2>6. Begun(ext.b)
      BY <1>4 DEF Begun
    <2> QED BY <2>1, <2>2, <2>3, <2>4, <2>5, <2>6, StartPaid
  <1>5. CASE LoadRequestExtension(w)
    <2>1. PICK b \in Bookings, e \in Extensions, newEnd \in 1..MaxTime :
            /\ exts[e] = NoExtension
            /\ \A v \in Workers : At(v, "requestExtension", "loaded") => job[v].e # e
            /\ Exists(b)
            /\ LoadExtension(w, "requestExtension", e,
                   [status |-> "pending", b |-> b, newEnd |-> newEnd,
                    rental |-> RentalFor(rows[b].to, newEnd),
                    service |-> ServiceFor(rows[b].to, newEnd)], rows[b])
      BY <1>5 DEF LoadRequestExtension
    <2> DEFINE ext == [status |-> "pending", b |-> b, newEnd |-> newEnd,
                       rental |-> RentalFor(rows[b].to, newEnd),
                       service |-> ServiceFor(rows[b].to, newEnd)]
    <2>2. /\ ext.b = b /\ ext.status = "pending" /\ "requestExtension" \in ExtensionOps
          /\ Start(w, [op |-> "requestExtension", phase |-> "loaded", b |-> ext.b, e |-> e,
                       ext |-> ext, mem |-> rows[b], seen |-> NoRow])
      BY <2>1 DEF ExtensionOps, LoadExtension
    <2> HIDE DEF ext
    <2> QED BY <1>4, <2>1, <2>2
  <1>6. CASE FindExtension(w) \/ LoadCloseExtension(w)
    <2>1. PICK e, op, phase :
            /\ e \in Extensions /\ op \in ExtensionOps /\ op # "requestExtension"
            /\ phase \in {"found", "loaded"}
            /\ exts[e].status = "pending"
            /\ Start(w, [op |-> op, phase |-> phase, b |-> exts[e].b, e |-> e,
                         ext |-> exts[e], mem |-> NoRow, seen |-> NoRow])
      BY <1>6 DEF FindExtension, LoadCloseExtension, LoadExtension, ExtensionOps
    <2>2. exts[e] \in Extension /\ exts[e].b \in Bookings /\ Exists(exts[e].b)
      BY <2>1 DEF TypeInv, TypeOK, WellFormed, NoExtension, Extension
    <2> QED BY <1>4, <2>1, <2>2
  <1> QED BY <1>2, <1>3, <1>5, <1>6 DEF Loads

\* Every select of a save keeps the invariant.
LEMMA SelectsPaid ==
    ASSUME TypeInv, ExtensionsInv, HistoriesKept, NEW w \in Workers, Selects(w)
    PROVE  ExtensionsInv'
  <1> DEFINE j == job[w]
  <1>1. j # Idle
    BY DEF Selects, SelectRow, SelectDispute, LockDispute, LoadApproveExtension, At, Idle
  <1>2. /\ j \in Job /\ GoodJob(j) /\ j.b \in Bookings /\ ExtensionKept(j)
        /\ \A from : StartsAt(j.b, from) /\ j.mem # NoRow => j.mem.from = from
        /\ Begun(j.b)
    BY <1>1, JobKinds DEF TypeInv, WellFormed, ExtensionsInv, ExtensionsKept, StartsAt, Begun
  <1>3. CASE SelectRow(w)
    <2> DEFINE request == [j EXCEPT !.phase = "selected", !.seen = rows[j.b]]
    <2>1. PICK op \in {"decline", "cancel", "scheduleReturn", "confirmReturn",
                       "reportDamage", "approveExtension"} : At(w, op, "loaded")
      BY <1>3 DEF SelectRow
    <2>2. j.op = op
      BY <2>1, BusyAt
    <2>3. j \in BookingJob \cup ExtensionJob
      BY <1>1, <1>2, <2>2, JobKinds DEF TypeInv
    <2>4. /\ request.b = j.b /\ request.op = j.op /\ request.mem = j.mem
          /\ request.phase = "selected"
          /\ request.op \in ExtensionOps => request.ext = j.ext /\ request.e = j.e
      BY <2>3 DEF BookingJob, ExtensionJob, ExtensionOps
    <2>5. Proceed(w, request)
      BY <1>3 DEF SelectRow
    <2> HIDE DEF request, j
    <2>6. request # Idle /\ request.op # "requestExtension" /\ ~Reinstates(request)
      BY <2>2, <2>4 DEF Idle, Reinstates
    <2>7. ExtensionKept(request)
      BY <1>2, <2>4, <2>6 DEF ExtensionKept, ExtensionOps
    <2> QED BY <1>2, <2>4, <2>5, <2>6, <2>7, StartPaid
  <1>4. CASE SelectDispute(w) \/ LockDispute(w)
    <2>1. j.op \in {"propose", "reject", "accept", "adminResolve"}
      BY <1>4 DEF SelectDispute, LockDispute, At
    <2>2. j \in DisputeJob /\ Exists(j.b)
      BY <1>1, <1>2, <2>1, JobKinds DEF TypeInv, GoodJob
    <2>3. PICK request : /\ Proceed(w, request)
                         /\ request.b = j.b /\ request.op = j.op
                         /\ request.mem \in {j.mem, rows[j.b]}
                         /\ request.phase # "idle" /\ request.dmem = j.dmem
      <3>1. CASE SelectDispute(w)
        <4> DEFINE request == [j EXCEPT !.phase = "selected", !.dseen = disputes[j.b]]
        <4>1. Proceed(w, request)
          BY <3>1 DEF SelectDispute
        <4>2. request.b = j.b /\ request.op = j.op /\ request.mem = j.mem
              /\ request.phase = "selected" /\ request.dmem = j.dmem
          BY <2>2 DEF DisputeJob
        <4> HIDE DEF request
        <4> QED BY <4>1, <4>2
      <3>2. CASE LockDispute(w)
        <4> DEFINE request == [j EXCEPT !.phase = "resolving", !.mem = rows[j.b]]
        <4>1. Proceed(w, request)
          BY <3>2 DEF LockDispute
        <4>2. request.b = j.b /\ request.op = j.op /\ request.mem = rows[j.b]
              /\ request.phase = "resolving" /\ request.dmem = j.dmem
          BY <2>2 DEF DisputeJob
        <4> HIDE DEF request
        <4> QED BY <4>1, <4>2
      <3> QED BY <1>4, <3>1, <3>2
    <2>4. request # Idle /\ request.op # "requestExtension" /\ ExtensionKept(request)
      BY <2>1, <2>3 DEF Idle, ExtensionKept
    <2>5. \A from : StartsAt(j.b, from) /\ request.mem # NoRow => request.mem.from = from
      BY <1>2, <2>2, <2>3 DEF StartsAt
    <2>6. Reinstates(request) => Resolved(j.b)
      BY <1>1, <2>3 DEF Reinstates, Resolved
    <2> HIDE DEF j
    <2> QED BY <1>2, <2>3, <2>4, <2>5, <2>6, StartPaid
  <1>5. CASE LoadApproveExtension(w)
    <2> DEFINE request == [j EXCEPT !.phase = "loaded", !.mem = rows[j.b]]
    <2>1. j.op = "approveExtension"
      BY <1>5 DEF LoadApproveExtension, At
    <2>2. j \in ExtensionJob /\ Exists(j.b)
      BY <1>1, <1>2, <2>1, JobKinds DEF TypeInv, GoodJob
    <2>3. Proceed(w, Idle) \/ Proceed(w, request)
      BY <1>5 DEF LoadApproveExtension
    <2>4. /\ request.b = j.b /\ request.op = j.op /\ request.mem = rows[j.b]
          /\ request.ext = j.ext /\ request.e = j.e
      BY <2>2 DEF ExtensionJob
    <2> HIDE DEF request
    <2>5. ExtensionKept(request) /\ ~Reinstates(request) /\ request.op # "requestExtension"
      BY <1>2, <2>1, <2>4 DEF ExtensionKept, Reinstates
    <2>6. \A from : StartsAt(j.b, from) /\ request.mem # NoRow => request.mem.from = from
      BY <2>2, <2>4 DEF StartsAt
    <2> HIDE DEF j
    <2> QED BY <1>2, <2>3, <2>4, <2>5, <2>6, StartPaid
  <1> QED BY <1>3, <1>4, <1>5 DEF Selects

\* create begins a booking: its window is the one that was asked for.
LEMMA LoadCreatePaid ==
    ASSUME TypeInv, ResolutionInv, ExtensionsInv, NEW w \in Workers, LoadCreate(w)
    PROVE  ExtensionsInv'
  <1>1. PICK b \in Bookings, unit \in Units, win \in Windows, mode \in Modes :
          /\ Fresh(b)
          /\ Start(w, [op |-> "create", phase |-> "loaded", b |-> b, seen |-> NoRow,
                       mem |-> [status |-> "pending", stage |-> "requested",
                                unit |-> unit, from |-> win[1], to |-> win[2],
                                mode |-> mode, rental |-> RentalFor(win[1], win[2]),
                                service |-> ServiceFor(win[1], win[2])]])
    BY DEF LoadCreate
  <1>2. /\ SoundHistory(b, win[2] - win[1])'
        /\ \A c \in Bookings \ {b} : HistoryKept(c)
    BY <1>1, LoadCreateCharges
  <1> DEFINE mem == [status |-> "pending", stage |-> "requested",
                     unit |-> unit, from |-> win[1], to |-> win[2],
                     mode |-> mode, rental |-> RentalFor(win[1], win[2]),
                     service |-> ServiceFor(win[1], win[2])]
             request == [op |-> "create", phase |-> "loaded", b |-> b, seen |-> NoRow,
                         mem |-> mem]
  <1>3. UNCHANGED <<rows, disputes, exts, ledger>> /\ job' = [job EXCEPT ![w] = request]
    BY <1>1 DEF Start, tables
  <1>4. request.op = "create" /\ request.b = b /\ request.mem.from = win[1]
    OBVIOUS
  <1> HIDE DEF request, mem
  <1>5. job'[w] = request /\ \A v \in Workers \ {w} : job'[v] = job[v]
    BY <1>3 DEF TypeInv, TypeOK
  <1>6. IsFiniteSet(Requested)'
    BY <1>3 DEF ExtensionsInv, Requested
  <1>7. \A v \in Workers : job'[v] # Idle => ExtensionKept(job[v])'
    BY <1>3, <1>4, <1>5 DEF ExtensionsInv, ExtensionsKept, ExtensionKept
  <1>8. \A u, v \in Workers : Requests(u)' /\ Requests(v)' /\ u # v => job'[u].e # job'[v].e
    BY <1>4, <1>5 DEF ExtensionsInv, ExtensionsKept, Requests
  <1>9. WindowPaid(b, win)'
    <2>1. StartsAt(b, win[1])'
      BY <1>1, <1>3, <1>4, <1>5 DEF StartsAt, Fresh, Exists
    <2>2. Approved(b)' = {}
      BY <1>1, <1>3 DEF Approved, Fresh, TypeInv, WellFormed
    <2>3. Covered(b, win[2] - win[1])'
      BY <2>2 DEF Covered, Pays
    <2>4. ~Resolved(b)'
      BY <1>1, <1>3, <1>4, <1>5 DEF Resolved, Reinstates, Fresh, ResolutionInv
    <2> QED BY <1>2, <2>1, <2>3, <2>4 DEF WindowPaid, Earned
  <1>10. ASSUME NEW c \in Bookings \ {b}, Begun(c)'
         PROVE  \E later \in Windows : WindowPaid(c, later)'
    <2>1. Begun(c)
      BY <1>3, <1>4, <1>5, <1>10 DEF Begun, Exists
    <2>2. PICK later \in Windows : WindowPaid(c, later)
      BY <2>1 DEF ExtensionsInv
    <2>3. later[2] - later[1] \in Lengths
      BY LifecycleAssumption DEF Lengths
    <2>4. SoundHistory(c, later[2] - later[1])'
      BY <1>2, <2>2, <2>3 DEF WindowPaid, HistoryKept
    <2>5. StartsAt(c, later[1])'
      BY <1>3, <1>4, <1>5, <2>2 DEF WindowPaid, StartsAt, Exists
    <2>6. Covered(c, later[2] - later[1])'
      BY <1>3, <2>2 DEF WindowPaid, Covered, Prices, Approved
    <2>7. Resolved(c)' => Resolved(c)
      BY <1>3, <1>4, <1>5 DEF Resolved, Reinstates
    <2>8. Earned(c, later[2] - later[1])'
      BY <1>3, <2>2, <2>7 DEF WindowPaid, Earned
    <2> QED BY <2>4, <2>5, <2>6, <2>8 DEF WindowPaid
  <1>11. \A c \in Bookings : Begun(c)' => \E later \in Windows : WindowPaid(c, later)'
    BY <1>9, <1>10
  <1> QED BY <1>6, <1>7, <1>8, <1>11 DEF ExtensionsInv, ExtensionsKept

\* Every end of a request keeps the invariant.
LEMMA CommitsPaid ==
    ASSUME TypeInv, ExtensionsInv, HistoriesKept, NEW w \in Workers, Commits(w)
    PROVE  ExtensionsInv'
  <1>1. IsFiniteSet(Requested)' /\ ExtensionsKept'
    BY CommitsKeepExtensions DEF ExtensionsInv
  <1>2. ASSUME NEW b \in Bookings, Begun(b)'
        PROVE  \E win \in Windows : WindowPaid(b, win)'
    <2>1. PICK win \in Windows : WindowPaid(b, win)
      BY <1>2, CommitsKeepStart DEF ExtensionsInv
    <2> DEFINE base == win[2] - win[1]
               from == win[1]
    <2>2. base \in Lengths
      BY LifecycleAssumption DEF Lengths
    <2>3. SoundHistory(b, base) /\ StartsAt(b, from) /\ Covered(b, base) /\ Earned(b, base)
      BY <2>1 DEF WindowPaid
    <2>4. SoundHistory(b, base)'
      BY <2>2, <2>3 DEF HistoriesKept, HistoryKept
    <2> HIDE DEF base, from
    <2>5. StartsAt(b, from)'
      BY <2>3, CommitsKeepStart
    <2>6. Covered(b, base)'
      BY <2>2, <2>3, CommitsCovered DEF ExtensionsInv
    <2>7. Earned(b, base)'
      BY <2>2, <2>3, CommitsEarned
    <2> QED BY <2>4, <2>5, <2>6, <2>7 DEF WindowPaid, base, from
  <1> QED BY <1>1, <1>2 DEF ExtensionsInv

\* Every step keeps the invariant.
LEMMA ExtensionsNext ==
    TypeInv /\ ChargesInv /\ ResolutionInv /\ ExtensionsInv /\ [Next]_vars => ExtensionsInv'
  <1> SUFFICES ASSUME TypeInv, ChargesInv, ResolutionInv, ExtensionsInv, [Next]_vars
               PROVE  ExtensionsInv'
    OBVIOUS
  <1>1. CASE UNCHANGED vars \/ SaveProfile
    <2>1. /\ rows' = rows /\ disputes' = disputes /\ exts' = exts
          /\ ledger' = ledger /\ job' = job
      BY <1>1 DEF vars, SaveProfile, tables
    <2>2. Requested' = Requested /\ (ExtensionsKept <=> ExtensionsKept')
      BY <2>1 DEF Requested, ExtensionsKept, ExtensionKept, Requests
    <2>3. ASSUME NEW b \in Bookings
          PROVE  /\ Begun(b) <=> Begun(b)'
                 /\ \A win \in Windows : WindowPaid(b, win) => WindowPaid(b, win)'
      BY <2>1 DEF Begun, Exists, WindowPaid, SoundHistory, StartsAt, Covered, Prices, Approved,
         Earned, Resolved
    <2> QED BY <2>2, <2>3 DEF ExtensionsInv
  <1>2. ASSUME NEW w \in Workers, Commits(w)
        PROVE  HistoriesKept
    BY <1>2, CommitsBook, CommitsRowsSound, CommitsTablesPaid, CommitsIdle, FinishCharges
  <1> QED BY <1>1, <1>2, LoadsCharges, LoadsPaid, SelectsCharges, SelectsPaid, LoadCreatePaid,
             CommitsPaid DEF Next

\* Initially nothing is begun.
LEMMA ExtensionsInit == Init => ExtensionsInv
  <1> SUFFICES ASSUME Init PROVE ExtensionsInv
    OBVIOUS
  <1>1. Requested = {}
    BY DEF Init, Requested, NoExtension
  <1>2. \A w \in Workers : job[w] = Idle
    BY DEF Init
  <1>3. \A b \in Bookings : ~Begun(b)
    BY <1>2 DEF Init, Begun, Exists, NoRow
  <1>4. ExtensionsKept
    BY <1>2 DEF ExtensionsKept, Requests
  <1> QED BY <1>1, <1>3, <1>4, FS_EmptySet DEF ExtensionsInv

\* In every behaviour the windows first booked are paid for.
LEMMA ExtensionsCorrect == Spec => []ExtensionsInv
  <1> QED BY ExtensionsInit, ExtensionsNext, ResolutionCorrect, ChargesCorrect, TypeCorrect,
             PTL DEF Spec

\* The sum in the property is the sum of the prices.
LEMMA ApprovedSum ==
    ASSUME NEW A, IsFiniteSet(A), A \subseteq Extensions
    PROVE  MapThenSumSet(LAMBDA e : exts[e].rental + exts[e].service, A) = SumOf(Prices, A)
  <1> DEFINE Folded(k) == [s \in SUBSET A |->
                           IF s = {} THEN 0
                           ELSE exts[Picked(s)].rental + exts[Picked(s)].service
                                + k[s \ {Picked(s)}]]
  <1>1. PICK h : Sums(h, Prices, A) /\ SumOf(Prices, A) = h[A]
    BY SumOfIs
  <1>2. ASSUME NEW s \in SUBSET A, s # {}
        PROVE  Prices[Picked(s)] = exts[Picked(s)].rental + exts[Picked(s)].service
    BY <1>2 DEF Picked, Prices
  <1>3. \A k : Sums(k, Prices, A) <=> k = Folded(k)
    BY <1>2 DEF Sums
  <1>4. MapThenSumSet(LAMBDA e : exts[e].rental + exts[e].service, A)
          = (CHOOSE k : k = Folded(k))[A]
    BY DEF MapThenSumSet, MapThenFoldSet, Picked
  <1> HIDE DEF Folded
  <1>5. PICK k : k = CHOOSE x : x = Folded(x)
    OBVIOUS
  <1>6. k = Folded(k)
    BY <1>1, <1>3, <1>5
  <1>7. Sums(k, Prices, A)
    BY <1>3, <1>6
  <1>8. h[A] = k[A]
    BY <1>1, <1>7, SumsUnique
  <1> QED BY <1>1, <1>4, <1>5, <1>8

\* Every approved extension is paid for, on top of the window first booked,
\* whatever requests and approvals race and are lost.
THEOREM ExtensionsPaid == Spec => []ExtensionsArePaid
  <1>1. TypeInv /\ ExtensionsInv => ExtensionsArePaid
    <2> SUFFICES ASSUME TypeInv, ExtensionsInv, NEW b \in Bookings, Approved(b) # {}
                 PROVE  \E win \in Windows :
                          /\ win[1] = rows[b].from
                          /\ ledger[b].charge >=
                               RentalFor(win[1], win[2]) + ServiceFor(win[1], win[2]) + Deposit
                               + MapThenSumSet(LAMBDA e : exts[e].rental + exts[e].service,
                                               Approved(b))
      BY DEF ExtensionsArePaid, Approved
    <2>1. Exists(b)
      BY DEF Approved, TypeInv, WellFormed
    <2>2. PICK win \in Windows : WindowPaid(b, win)
      BY <2>1 DEF ExtensionsInv, Begun
    <2>3. win[1] = rows[b].from
      BY <2>1, <2>2 DEF WindowPaid, StartsAt
    <2>4. ledger[b].charge >= Price(win[2] - win[1]) + SumOf(Prices, Approved(b))
      BY <2>2 DEF WindowPaid, Covered, Pays
    <2>5. Price(win[2] - win[1]) = RentalFor(win[1], win[2]) + ServiceFor(win[1], win[2]) + Deposit
      BY DEF Price, RentalFor, ServiceFor
    <2>6. MapThenSumSet(LAMBDA e : exts[e].rental + exts[e].service, Approved(b))
            = SumOf(Prices, Approved(b))
      <3>1. IsFiniteSet(Approved(b)) /\ Approved(b) \subseteq Extensions
        BY ApprovedFinite DEF ExtensionsInv, Approved
      <3> QED BY <3>1, ApprovedSum
    <2> QED BY <2>3, <2>4, <2>5, <2>6
  <1> QED BY <1>1, ExtensionsCorrect, TypeCorrect, PTL

\* A recorded resolution has been carried out in the ledger, whatever stale
\* negotiation is saved over it: the deposit is accounted for, the provider has
\* the deduction and the rental of the window first booked (finalizeDispute).
THEOREM ResolutionsCarriedOut == Spec => []ResolutionCarriedOut
  <1>1. TypeInv /\ ResolutionInv /\ ExtensionsInv => ResolutionCarriedOut
    <2> SUFFICES ASSUME TypeInv, ResolutionInv, ExtensionsInv, NEW b \in Bookings,
                        disputes[b].resolution # "none"
                 PROVE  /\ ledger[b].forfeit >= disputes[b].final
                        /\ ledger[b].release + ledger[b].forfeit >= Deposit
                        /\ \E win \in Windows :
                              /\ win[1] = rows[b].from
                              /\ ledger[b].earning >= RentalFor(win[1], win[2])
      BY DEF ResolutionCarriedOut
    <2>1. Carried(ledger[b], disputes[b]) /\ Exists(b)
      BY DEF ResolutionInv
    <2>2. PICK win \in Windows : WindowPaid(b, win)
      BY <2>1 DEF ExtensionsInv, Begun
    <2>3. win[1] = rows[b].from
      BY <2>1, <2>2 DEF WindowPaid, StartsAt
    <2>4. ledger[b].earning >= RentalFor(win[1], win[2])
      BY <2>2 DEF WindowPaid, Earned, Resolved, RentalFor
    <2> QED BY <2>1, <2>3, <2>4 DEF Carried
  <1> QED BY <1>1, ResolutionCorrect, ExtensionsCorrect, TypeCorrect, PTL
=============================================================================
