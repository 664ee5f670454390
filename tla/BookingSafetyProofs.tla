------------------------- MODULE BookingSafetyProofs -------------------------
(***************************************************************************)
(* Type correctness and safety of BookingLifecycle for every value of its  *)
(* constants, however many requests interleave and fail: every state is    *)
(* well formed, and there is no double booking, no ledger entry without    *)
(* its payment, no disputed booking without its dispute.  The last part is *)
(* about bookings whose requests do not interleave.                        *)
(*                                                                         *)
(* The types alone are not inductive: a resolution would save the copy of  *)
(* a booking that does not exist.  WellFormed adds that requests,          *)
(* disputes and extension requests refer to rows that are there.           *)
(***************************************************************************)
EXTENDS BookingProperties, FiniteSetTheorems, TLAPS

Job == BookingJob \cup ExtensionJob \cup DisputeJob

\* What a request in progress may rely on.
GoodJob(j) ==
    /\ j.op # "create" => Exists(j.b)
    /\ j.op = "create" => j.mem.status = "pending"
    /\ (j.op = "approveExtension" /\ j.phase # "found") \/ j.phase = "resolving" =>
         j.mem \in Row
    /\ j.op \in {"requestExtension", "approveExtension", "declineExtension",
                 "cancelExtension"} => j.ext.b = j.b
    /\ j.op \in {"approveExtension", "declineExtension", "cancelExtension"} =>
         exts[j.e].status # "absent"

WellFormed ==
    /\ \A b \in Bookings : disputes[b].status # "none" => Exists(b)
    /\ \A e \in Extensions : exts[e].status # "absent" => Exists(exts[e].b)
    /\ \A w \in Workers : job[w] # Idle => GoodJob(job[w])

TypeInv == TypeOK /\ WellFormed

---------------------------------------------------------------------------
(* Data. *)

\* Amounts add up to amounts.
LEMMA AmountsType ==
    /\ Nothing \in Amounts
    /\ \A a, b \in Amounts : Plus(a, b) \in Amounts
  BY DEF Nothing, Plus, Amounts

\* What the saves of the services write is a row again.
LEMMA SaveType ==
    ASSUME NEW stored \in Row, NEW mem \in Row, NEW seen
    PROVE  Save(stored, seen, mem) \in Row
  BY DEF Save, Column, Row

\* A row moved to another status and stage is a row.
LEMMA ToType ==
    ASSUME NEW row \in Row, NEW status \in Statuses, NEW stage \in Stages
    PROVE  /\ To(row, status, stage) \in Row
           /\ To(row, status, stage).status = status
           /\ To(row, status, stage).stage = stage
           /\ To(row, status, stage).unit = row.unit
           /\ To(row, status, stage).from = row.from
           /\ To(row, status, stage).to = row.to
           /\ To(row, status, stage).rental = row.rental
           /\ To(row, status, stage).service = row.service
  BY DEF To, Row

\* Saving a copy over a dispute gives a dispute.
LEMMA SaveDisputeType ==
    ASSUME NEW stored \in Dispute, NEW mem \in Dispute, NEW seen
    PROVE  SaveDispute(stored, seen, mem) \in Dispute
  BY DEF SaveDispute, Column, Dispute

\* What the negotiation and the resolution of a dispute write.
LEMMA DisputeChangesType ==
    ASSUME NEW d \in Dispute, NEW amount \in 0..Deposit
    PROVE  /\ d.proposed \in 0..Deposit
           /\ [d EXCEPT !.status = "proposed", !.proposed = amount] \in Dispute
           /\ [d EXCEPT !.status = "contested"] \in Dispute
           /\ [d EXCEPT !.status = "resolved", !.resolution = "agreed",
                        !.final = amount] \in Dispute
           /\ [d EXCEPT !.status = "resolved", !.resolution = "admin_decided",
                        !.final = amount] \in Dispute
  <1>1. d.proposed \in 0..Deposit
    BY DEF Dispute
  <1>2. [d EXCEPT !.status = "proposed", !.proposed = amount] \in Dispute
    BY DEF Dispute, DisputeStatuses
  <1>3. 0 \in 0..Deposit /\ [d EXCEPT !.status = "contested"] \in Dispute
    BY RatesAssumption DEF Dispute, DisputeStatuses
  <1>4. [d EXCEPT !.status = "resolved", !.resolution = "agreed",
                  !.final = amount] \in Dispute
    BY DEF Dispute, DisputeStatuses, Resolutions
  <1>5. [d EXCEPT !.status = "resolved", !.resolution = "admin_decided",
                  !.final = amount] \in Dispute
    BY DEF Dispute, DisputeStatuses, Resolutions
  <1> QED BY <1>1, <1>2, <1>3, <1>4, <1>5

\* The stages, enumerated.
LEMMA StagesAre ==
    Stages = {"requested", "accepted", "payment", "reserved", "ready", "pickedup",
              "active", "returnsched", "returned", "inspected", "depositreleased",
              "completed"}
  BY DEF Stages, StageOrder

\* The fees of a forward window are amounts.
LEMMA FeesType ==
    ASSUME NEW from \in Nat, NEW to \in Nat, from < to
    PROVE  RentalFor(from, to) \in Nat /\ ServiceFor(from, to) \in Nat
  <1>1. RentalRate \in Nat /\ ServiceRate \in Nat
    BY RatesAssumption
  <1>2. to - from \in Nat
    OBVIOUS
  <1>3. \A x, y \in Nat : x * y \in Nat
    OBVIOUS
  <1> QED BY <1>1, <1>2, <1>3 DEF RentalFor, ServiceFor

\* A refund of any percentage of the fees is an amount.
LEMMA RefundType ==
    ASSUME NEW pct \in 0..100, NEW row \in Row
    PROVE  RefundAt(pct, row) \in Nat
  <1> DEFINE fees == row.rental + row.service
  <1>1. Deposit \in Nat
    BY RatesAssumption
  <1>2. fees \in Nat
    BY DEF Row
  <1>3. \A x, y \in Nat : x * y \in Nat
    OBVIOUS
  <1>4. fees * pct \in Nat
    BY <1>2, <1>3
  <1> HIDE DEF fees
  <1>5. (fees * pct + 50) \div 100 \in Nat
    BY <1>4
  <1> QED BY <1>1, <1>5 DEF RefundAt, fees

---------------------------------------------------------------------------
(* Rows and jobs. *)

\* A booking that exists has a row.
LEMMA RowExists ==
    ASSUME TypeOK, NEW b \in Bookings
    PROVE  Exists(b) <=> rows[b] \in Row
  BY DEF TypeOK, Exists, Row, NoRow, Statuses

\* The operation of a request tells its kind.
LEMMA JobKinds ==
    ASSUME TypeOK, NEW w \in Workers, job[w] # Idle
    PROVE  /\ job[w] \in Job
           /\ job[w].op \in {"create", "approve", "decline", "cancel", "handover",
                             "scheduleReturn", "confirmReturn", "inspect", "reportDamage"}
                => job[w] \in BookingJob
           /\ job[w].op \in {"requestExtension", "approveExtension", "declineExtension",
                             "cancelExtension"}
                => job[w] \in ExtensionJob
           /\ job[w].op \in {"propose", "reject", "accept", "adminResolve"}
                => job[w] \in DisputeJob
           /\ job[w].phase = "resolving" => job[w] \in DisputeJob
           /\ job[w].b \in Bookings
  BY DEF TypeOK, Job, BookingJob, ExtensionJob, DisputeJob

\* A worker that is at a phase of an operation has a request of that operation.
LEMMA BusyAt ==
    ASSUME NEW w \in Workers, NEW op, NEW phase, phase # "idle", At(w, op, phase)
    PROVE  job[w] # Idle /\ job[w].op = op /\ job[w].phase = phase
  BY DEF At, Idle

---------------------------------------------------------------------------
(* The steps of a request. *)

\* Taking up a request, or going on with one, that is well formed.
LEMMA StartType ==
    ASSUME TypeInv, NEW w \in Workers, NEW request \in Job, Start(w, request),
           GoodJob(request)
    PROVE  TypeInv'
  <1> USE DEF TypeInv, Start, tables
  <1>1. TypeOK'
    BY DEF TypeOK, Job
  <1>2. ASSUME NEW v \in Workers, job'[v] # Idle
        PROVE  GoodJob(job[v])'
    <2>1. job'[v] = request \/ job'[v] = job[v]
      BY DEF TypeOK
    <2>2. GoodJob(job'[v])
      BY <1>2, <2>1 DEF WellFormed
    <2> QED BY <2>2 DEF GoodJob, Exists
  <1>3. WellFormed'
    BY <1>2 DEF WellFormed, Exists
  <1> QED BY <1>1, <1>3

\* A step that only advances a well-typed job, or gives it up, preserves the
\* invariant.
LEMMA ProceedType ==
    ASSUME TypeInv, NEW w \in Workers, NEW request \in Job \cup {Idle},
           Proceed(w, request), request # Idle => GoodJob(request)
    PROVE  TypeInv'
  <1> USE DEF TypeInv, Proceed, tables
  <1>1. TypeOK'
    BY DEF TypeOK, Job
  <1>2. ASSUME NEW v \in Workers, job'[v] # Idle
        PROVE  GoodJob(job[v])'
    <2>1. job'[v] = request \/ job'[v] = job[v]
      BY DEF TypeOK
    <2>2. GoodJob(job'[v])
      BY <1>2, <2>1 DEF WellFormed
    <2> QED BY <2>2 DEF GoodJob, Exists
  <1>3. WellFormed'
    BY <1>2 DEF WellFormed, Exists
  <1> QED BY <1>1, <1>3

\* Ending one: rows appear and never disappear.
LEMMA EndType ==
    ASSUME TypeInv, NEW w \in Workers, NEW b \in Bookings, NEW outcome,
           NEW moved \in Amounts, NEW row \in Row, NEW told \in Statuses \X Stages,
           NEW booked \in Amounts, End(w, b, outcome, moved, row, told, booked),
           disputes' \in [Bookings -> Dispute],
           exts' \in [Extensions -> Extension \cup {NoExtension}],
           completed' \in Nat,
           \A c \in Bookings : disputes'[c].status # "none" => Exists(c),
           \A e \in Extensions : exts'[e].status # "absent" => Exists(exts'[e].b),
           \A e \in Extensions : exts[e].status # "absent" => exts'[e].status # "absent"
    PROVE  TypeInv'
  <1>1. rows' \in [Bookings -> Row \cup {NoRow}]
    BY DEF TypeInv, TypeOK, End
  <1>2. trail' \in [Bookings -> Statuses \X Stages]
    BY DEF TypeInv, TypeOK, End
  <1>3. ledger' \in [Bookings -> Amounts] /\ port' \in [Bookings -> Amounts]
    BY AmountsType DEF TypeInv, TypeOK, End
  <1>4. job' = [job EXCEPT ![w] = Idle] /\ failures' \in Nat /\ overlaps' \in Nat
    BY DEF TypeInv, TypeOK, End
  <1>5. TypeOK'
    BY <1>1, <1>2, <1>3, <1>4 DEF TypeInv, TypeOK
  <1>6. \A c \in Bookings : Exists(c) => Exists(c)'
    BY DEF TypeInv, TypeOK, End, Exists, Row, Statuses
  <1>7. ASSUME NEW v \in Workers, job'[v] # Idle
        PROVE  GoodJob(job[v])'
    <2>1. job'[v] = job[v] /\ job[v] # Idle
      BY <1>4, <1>7 DEF TypeInv, TypeOK
    <2>2. /\ GoodJob(job[v]) /\ job[v].b \in Bookings
          /\ job[v].op \in {"approveExtension", "declineExtension", "cancelExtension"}
               => job[v].e \in Extensions
      BY <2>1, JobKinds DEF TypeInv, WellFormed, ExtensionJob
    <2> QED BY <1>6, <2>1, <2>2 DEF GoodJob
  <1>8. WellFormed'
    <2>1. \A c \in Bookings : disputes'[c].status # "none" => Exists(c)'
      BY <1>6
    <2>2. ASSUME NEW e \in Extensions, exts'[e].status # "absent"
          PROVE  Exists(exts[e].b)'
      <3>1. exts'[e].b \in Bookings
        BY <2>2 DEF Extension, NoExtension
      <3> QED BY <1>6, <2>2, <3>1
    <2> QED BY <1>7, <2>1, <2>2 DEF WellFormed
  <1> QED BY <1>5, <1>8 DEF TypeInv

\* Reading the row of a booking that is there.
LEMMA LoadType ==
    ASSUME TypeInv, NEW w \in Workers, NEW b \in Bookings,
           NEW op \in {"approve", "decline", "cancel", "handover", "scheduleReturn",
                      "confirmReturn", "inspect", "reportDamage"},
           Load(w, op, b)
    PROVE  TypeInv'
  <1> DEFINE request == [op |-> op, phase |-> "loaded", b |-> b, mem |-> rows[b],
                         seen |-> NoRow]
  <1>1. Exists(b) /\ rows[b] \in Row /\ Start(w, request)
    BY RowExists DEF Load, TypeInv
  <1>2. request \in Job
    BY <1>1 DEF Job, BookingJob
  <1>3. GoodJob(request)
    BY <1>1 DEF GoodJob
  <1> HIDE DEF request
  <1> QED BY <1>1, <1>2, <1>3, StartType

\* The check that starts a request on a dispute preserves the invariant.
LEMMA LoadDisputeType ==
    ASSUME TypeInv, NEW w \in Workers, NEW b \in Bookings,
           NEW op \in {"propose", "reject", "accept", "adminResolve"},
           NEW statuses, "none" \notin statuses, NEW dmem \in Dispute,
           LoadDispute(w, op, b, statuses, dmem)
    PROVE  TypeInv'
  <1> DEFINE request == [op |-> op, phase |-> "loaded", b |-> b, dmem |-> dmem,
                         dseen |-> NoDispute, mem |-> NoRow]
  <1>1. Exists(b) /\ Start(w, request)
    BY DEF LoadDispute, TypeInv, WellFormed
  <1>2. NoDispute \in Dispute
    BY RatesAssumption DEF NoDispute, Dispute, DisputeStatuses, Resolutions
  <1>3. request \in Job
    BY <1>2 DEF Job, DisputeJob
  <1>4. GoodJob(request)
    BY <1>1 DEF GoodJob
  <1> HIDE DEF request
  <1> QED BY <1>1, <1>3, <1>4, StartType

\* The check that starts a request on an extension preserves the invariant.
LEMMA LoadExtensionType ==
    ASSUME TypeInv, NEW w \in Workers, NEW e \in Extensions, NEW ext \in Extension,
           NEW op \in {"requestExtension", "declineExtension", "cancelExtension"},
           NEW mem \in Row \cup {NoRow}, Exists(ext.b), op = "requestExtension" \/ exts[e].status # "absent",
           LoadExtension(w, op, e, ext, mem)
    PROVE  TypeInv'
  <1> DEFINE request == [op |-> op, phase |-> "loaded", b |-> ext.b, e |-> e,
                         ext |-> ext, mem |-> mem, seen |-> NoRow]
  <1>1. Start(w, request)
    BY DEF LoadExtension
  <1>2. request \in Job
    BY DEF Job, ExtensionJob, Extension
  <1>3. GoodJob(request)
    BY DEF GoodJob
  <1> HIDE DEF request
  <1> QED BY <1>1, <1>2, <1>3, StartType

\* Every read of a request preserves the invariant.
LEMMA LoadsType ==
    ASSUME TypeInv, NEW w \in Workers, Loads(w)
    PROVE  TypeInv'
  <1> USE DEF TypeInv
  <1>1. CASE LoadCreate(w)
    <2>1. PICK b \in Bookings, unit \in Units, win \in Windows, mode \in Modes :
            Start(w, [op |-> "create", phase |-> "loaded", b |-> b, seen |-> NoRow,
                      mem |-> [status |-> "pending", stage |-> "requested",
                               unit |-> unit, from |-> win[1], to |-> win[2],
                               mode |-> mode, rental |-> RentalFor(win[1], win[2]),
                               service |-> ServiceFor(win[1], win[2])]])
      BY <1>1 DEF LoadCreate
    <2> DEFINE mem == [status |-> "pending", stage |-> "requested",
                       unit |-> unit, from |-> win[1], to |-> win[2],
                       mode |-> mode, rental |-> RentalFor(win[1], win[2]),
                       service |-> ServiceFor(win[1], win[2])]
               request == [op |-> "create", phase |-> "loaded", b |-> b,
                           seen |-> NoRow, mem |-> mem]
    <2>2. win[1] \in Nat /\ win[2] \in Nat /\ win[1] < win[2] /\ mode \in {"instant", "request"}
      BY LifecycleAssumption
    <2>3. mem \in Row
      BY <2>2, FeesType, StagesAre DEF Row, Statuses
    <2>4. request \in Job
      BY <2>3 DEF Job, BookingJob
    <2>5. GoodJob(request)
      BY DEF GoodJob
    <2>6. Start(w, request)
      BY <2>1
    <2> HIDE DEF request
    <2> QED BY <2>4, <2>5, <2>6, StartType
  <1>2. CASE \/ LoadApprove(w) \/ LoadDecline(w) \/ LoadCancel(w) \/ LoadHandover(w)
             \/ LoadScheduleReturn(w) \/ LoadConfirmReturn(w) \/ LoadInspect(w)
             \/ LoadReportDamage(w)
    BY <1>2, LoadType DEF LoadApprove, LoadDecline, LoadCancel, LoadHandover,
         LoadScheduleReturn, LoadConfirmReturn, LoadInspect, LoadReportDamage, LoadAtStage
  <1>3. CASE LoadPropose(w)
    <2>1. PICK b \in Bookings, amount \in 0..Deposit :
            LoadDispute(w, "propose", b, {"open", "contested"},
                [disputes[b] EXCEPT !.status = "proposed", !.proposed = amount])
      BY <1>3 DEF LoadPropose
    <2>2. [disputes[b] EXCEPT !.status = "proposed", !.proposed = amount] \in Dispute
      BY DisputeChangesType DEF TypeOK
    <2> QED BY <2>1, <2>2, LoadDisputeType
  <1>4. CASE LoadReject(w)
    <2>1. PICK b \in Bookings :
            LoadDispute(w, "reject", b, {"proposed"},
                [disputes[b] EXCEPT !.status = "contested"])
      BY <1>4 DEF LoadReject
    <2>2. disputes[b] \in Dispute /\ 0 \in 0..Deposit
      BY RatesAssumption DEF TypeOK
    <2>3. [disputes[b] EXCEPT !.status = "contested"] \in Dispute
      BY <2>2, DisputeChangesType
    <2> QED BY <2>1, <2>3, LoadDisputeType
  <1>5. CASE LoadAccept(w)
    <2>1. PICK b \in Bookings :
            LoadDispute(w, "accept", b, {"proposed"},
                [disputes[b] EXCEPT !.status = "resolved", !.resolution = "agreed",
                                    !.final = disputes[b].proposed])
      BY <1>5 DEF LoadAccept
    <2>2. disputes[b] \in Dispute /\ 0 \in 0..Deposit
      BY RatesAssumption DEF TypeOK
    <2>3. disputes[b].proposed \in 0..Deposit
      BY <2>2, DisputeChangesType
    <2>4. [disputes[b] EXCEPT !.status = "resolved", !.resolution = "agreed",
                              !.final = disputes[b].proposed] \in Dispute
      BY <2>2, <2>3, DisputeChangesType
    <2> QED BY <2>1, <2>4, LoadDisputeType
  <1>6. CASE LoadAdminResolve(w)
    <2>1. PICK b \in Bookings, amount \in 0..Deposit :
            LoadDispute(w, "adminResolve", b, {"open", "proposed", "contested"},
                [disputes[b] EXCEPT !.status = "resolved",
                                    !.resolution = "admin_decided", !.final = amount])
      BY <1>6 DEF LoadAdminResolve
    <2>2. [disputes[b] EXCEPT !.status = "resolved", !.resolution = "admin_decided",
                              !.final = amount] \in Dispute
      BY DisputeChangesType DEF TypeOK
    <2> QED BY <2>1, <2>2, LoadDisputeType
  <1>7. CASE LoadRequestExtension(w)
    <2>1. PICK b \in Bookings, e \in Extensions, newEnd \in 1..MaxTime :
            /\ Exists(b)
            /\ newEnd > rows[b].to
            /\ LoadExtension(w, "requestExtension", e,
                   [status |-> "pending", b |-> b, newEnd |-> newEnd,
                    rental |-> RentalFor(rows[b].to, newEnd),
                    service |-> ServiceFor(rows[b].to, newEnd)], rows[b])
      BY <1>7 DEF LoadRequestExtension
    <2>2. rows[b] \in Row /\ rows[b].to \in Nat /\ newEnd \in Nat
      BY <2>1, RowExists, RatesAssumption DEF Row
    <2> DEFINE ext == [status |-> "pending", b |-> b, newEnd |-> newEnd,
                       rental |-> RentalFor(rows[b].to, newEnd),
                       service |-> ServiceFor(rows[b].to, newEnd)]
    <2>3. ext \in Extension
      BY <2>1, <2>2, FeesType DEF Extension, ExtensionStatuses
    <2>4. Exists(ext.b) /\ LoadExtension(w, "requestExtension", e, ext, rows[b])
      BY <2>1
    <2> HIDE DEF ext
    <2> QED BY <2>2, <2>3, <2>4, LoadExtensionType
  <1>8. CASE FindExtension(w)
    <2>1. PICK e \in Extensions :
            /\ exts[e].status = "pending"
            /\ Start(w, [op |-> "approveExtension", phase |-> "found", b |-> exts[e].b,
                         e |-> e, ext |-> exts[e], mem |-> NoRow, seen |-> NoRow])
      BY <1>8 DEF FindExtension
    <2> DEFINE request == [op |-> "approveExtension", phase |-> "found", b |-> exts[e].b,
                           e |-> e, ext |-> exts[e], mem |-> NoRow, seen |-> NoRow]
    <2>2. exts[e] \in Extension /\ exts[e].b \in Bookings /\ Exists(exts[e].b)
      BY <2>1 DEF TypeOK, NoExtension, Extension, WellFormed
    <2>3. request \in Job
      BY <2>2 DEF Job, ExtensionJob
    <2>4. GoodJob(request)
      BY <2>1, <2>2 DEF GoodJob
    <2>5. Start(w, request)
      BY <2>1
    <2> HIDE DEF request
    <2> QED BY <2>3, <2>4, <2>5, StartType
  <1>9. CASE LoadCloseExtension(w)
    <2>1. PICK e \in Extensions, op \in {"declineExtension", "cancelExtension"} :
            exts[e].status = "pending" /\ LoadExtension(w, op, e, exts[e], NoRow)
      BY <1>9 DEF LoadCloseExtension
    <2>2. exts[e] \in Extension /\ Exists(exts[e].b)
      BY <2>1 DEF TypeOK, NoExtension, WellFormed
    <2> QED BY <2>1, <2>2, LoadExtensionType
  <1> QED BY <1>1, <1>2, <1>3, <1>4, <1>5, <1>6, <1>7, <1>8, <1>9 DEF Loads

\* Every select of a save preserves the invariant.
LEMMA SelectsType ==
    ASSUME TypeInv, NEW w \in Workers, Selects(w)
    PROVE  TypeInv'
  <1> USE DEF TypeInv
  <1> DEFINE j == job[w]
  <1>1. CASE SelectRow(w)
    <2> DEFINE request == [j EXCEPT !.phase = "selected", !.seen = rows[j.b]]
    <2>1. PICK op \in {"decline", "cancel", "scheduleReturn", "confirmReturn",
                       "reportDamage", "approveExtension"} : At(w, op, "loaded")
      BY <1>1 DEF SelectRow
    <2>2. j # Idle /\ j.op = op /\ j.phase = "loaded"
      BY <2>1, BusyAt
    <2>3. j \in BookingJob \cup ExtensionJob /\ j.b \in Bookings /\ GoodJob(j)
      BY <2>2, JobKinds DEF WellFormed
    <2>4. rows[j.b] \in Row
      BY <2>2, <2>3, RowExists DEF GoodJob
    <2>5. request \in Job
      BY <2>3, <2>4 DEF Job, BookingJob, ExtensionJob
    <2>6. GoodJob(request)
      BY <2>2, <2>3 DEF GoodJob, BookingJob, ExtensionJob
    <2>7. Proceed(w, request)
      BY <1>1 DEF SelectRow
    <2> HIDE DEF request
    <2> QED BY <2>5, <2>6, <2>7, ProceedType
  <1>2. CASE SelectDispute(w)
    <2> DEFINE request == [j EXCEPT !.phase = "selected", !.dseen = disputes[j.b]]
    <2>1. PICK op \in {"propose", "reject", "accept", "adminResolve"} : At(w, op, "loaded")
      BY <1>2 DEF SelectDispute
    <2>2. j # Idle /\ j.op = op
      BY <2>1, BusyAt
    <2>3. j \in DisputeJob /\ j.b \in Bookings /\ GoodJob(j)
      BY <2>2, JobKinds DEF WellFormed
    <2>4. request \in Job
      BY <2>3 DEF Job, DisputeJob, TypeOK
    <2>5. GoodJob(request)
      BY <2>3 DEF GoodJob, DisputeJob
    <2>6. Proceed(w, request)
      BY <1>2 DEF SelectDispute
    <2> HIDE DEF request
    <2> QED BY <2>4, <2>5, <2>6, ProceedType
  <1>3. CASE LockDispute(w)
    <2> DEFINE request == [j EXCEPT !.phase = "resolving", !.mem = rows[j.b]]
    <2>1. PICK op \in {"accept", "adminResolve"} : At(w, op, "selected")
      BY <1>3 DEF LockDispute
    <2>2. j # Idle /\ j.op = op
      BY <2>1, BusyAt
    <2>3. j \in DisputeJob /\ j.b \in Bookings /\ GoodJob(j)
      BY <2>2, JobKinds DEF WellFormed
    <2>4. rows[j.b] \in Row
      BY <2>2, <2>3, RowExists DEF GoodJob
    <2>5. request \in Job
      BY <2>3, <2>4 DEF Job, DisputeJob
    <2>6. GoodJob(request)
      BY <2>3, <2>4 DEF GoodJob, DisputeJob
    <2>7. Proceed(w, request)
      BY <1>3 DEF LockDispute
    <2> HIDE DEF request
    <2> QED BY <2>5, <2>6, <2>7, ProceedType
  <1>4. CASE LoadApproveExtension(w)
    <2> DEFINE request == [j EXCEPT !.phase = "loaded", !.mem = rows[j.b]]
    <2>1. j # Idle /\ j.op = "approveExtension" /\ j.phase = "found"
      BY <1>4, BusyAt DEF LoadApproveExtension
    <2>2. j \in ExtensionJob /\ j.b \in Bookings /\ GoodJob(j)
      BY <2>1, JobKinds DEF WellFormed
    <2>3. rows[j.b] \in Row
      BY <2>1, <2>2, RowExists DEF GoodJob
    <2>4. request \in Job
      BY <2>2, <2>3 DEF Job, ExtensionJob
    <2>5. GoodJob(request)
      BY <2>2, <2>3 DEF GoodJob, ExtensionJob
    <2>6. Proceed(w, request) \/ Proceed(w, Idle)
      BY <1>4 DEF LoadApproveExtension
    <2> HIDE DEF request
    <2> QED BY <2>4, <2>5, <2>6, ProceedType
  <1> QED BY <1>1, <1>2, <1>3, <1>4 DEF Selects

---------------------------------------------------------------------------
(* The ends of the requests. *)

\* A request on a booking that is not being created finds its row and has a
\* typed copy of it.
LEMMA BookingJobType ==
    ASSUME TypeInv, NEW w \in Workers, NEW phase, phase # "idle",
           NEW op \in {"approve", "decline", "cancel", "handover", "scheduleReturn",
                      "confirmReturn", "inspect", "reportDamage"},
           At(w, op, phase)
    PROVE  job[w].b \in Bookings /\ job[w].mem \in Row /\ rows[job[w].b] \in Row
  <1>1. job[w] # Idle /\ job[w].op = op
    BY BusyAt
  <1>2. job[w] \in BookingJob /\ GoodJob(job[w])
    BY <1>1, JobKinds DEF TypeInv, WellFormed
  <1> QED BY <1>1, <1>2, RowExists DEF TypeInv, BookingJob, GoodJob

\* An end that leaves disputes and extension requests alone.
LEMMA PlainEndType ==
    ASSUME TypeInv, NEW w \in Workers, NEW b \in Bookings, NEW outcome,
           NEW moved \in Amounts, NEW row \in Row, NEW told \in Statuses \X Stages,
           NEW booked \in Amounts, End(w, b, outcome, moved, row, told, booked),
           UNCHANGED <<disputes, exts>>, completed' \in Nat
    PROVE  TypeInv'
  BY EndType DEF TypeInv, TypeOK, WellFormed

\* The fields of a row are of their types.
LEMMA RowFields ==
    ASSUME NEW row \in Row
    PROVE  /\ row.status \in Statuses /\ row.stage \in Stages
           /\ row.rental \in Nat /\ row.service \in Nat
           /\ Total(row) \in Nat
           /\ <<row.status, row.stage>> \in Statuses \X Stages
  BY RatesAssumption DEF Row, Total

\* A charge, or a refund, on its own is a record of amounts.
LEMMA ChargeType ==
    ASSUME NEW amount \in Nat
    PROVE  /\ [Nothing EXCEPT !.charge = amount] \in Amounts
           /\ [Nothing EXCEPT !.refund = amount] \in Amounts
  BY DEF Nothing, Amounts

\* What a completion books is a record of amounts.
LEMMA SettledType ==
    ASSUME NEW deduction \in 0..Deposit, NEW rental \in Nat
    PROVE  Settled(deduction, rental) \in Amounts /\ Released(deduction) \in Amounts
  <1>1. Deposit - deduction \in Nat /\ deduction \in Nat
    BY RatesAssumption
  <1> QED BY <1>1 DEF Settled, Released, Nothing, Amounts

\* The number of completions stays a number.
LEMMA CountedType ==
    ASSUME completed \in Nat, NEW outcome \in {"commit", "lost", "rejected"},
           NEW counted \in Counted(outcome)
    PROVE  counted \in Nat
  BY DEF Counted

\* The outcomes of a transaction, enumerated.
LEMMA OutcomesAre ==
    ASSUME NEW b, NEW versions, NEW outcome \in Outcomes(b, versions)
    PROVE  outcome \in {"commit", "lost", "rejected"}
  BY DEF Outcomes

\* Saving a copy with another status preserves the invariant (setStatusOnly).
LEMMA StatusOnlyType ==
    ASSUME TypeInv, NEW w \in Workers, NEW status \in Statuses, NEW moved \in Amounts,
           job[w].b \in Bookings, job[w].mem \in Row, rows[job[w].b] \in Row,
           EndStatusOnly(w, status, moved)
    PROVE  TypeInv'
  <1> DEFINE mem == [job[w].mem EXCEPT !.status = status]
             row == Save(rows[job[w].b], job[w].seen, mem)
  <1>1. mem \in Row /\ row \in Row
    BY SaveType DEF Row
  <1>2. <<mem.status, mem.stage>> \in Statuses \X Stages
    BY <1>1, RowFields
  <1>3. PICK outcome :
          End(w, job[w].b, outcome, moved, row, <<mem.status, mem.stage>>, moved)
    BY DEF EndStatusOnly
  <1>4. UNCHANGED <<disputes, exts, completed>>
    BY DEF EndStatusOnly
  <1> HIDE DEF mem, row
  <1> QED BY <1>1, <1>2, <1>3, <1>4, PlainEndType DEF TypeInv, TypeOK

\* Saving a copy at another stage preserves the invariant (runSteps).
LEMMA OneStepType ==
    ASSUME TypeInv, NEW w \in Workers, NEW stage \in Stages,
           job[w].b \in Bookings, job[w].mem \in Row, rows[job[w].b] \in Row,
           EndOneStep(w, stage)
    PROVE  TypeInv'
  <1> DEFINE mem == To(job[w].mem, "confirmed", stage)
             row == Save(rows[job[w].b], job[w].seen, mem)
  <1>1. mem \in Row /\ row \in Row
    BY SaveType, ToType DEF Statuses
  <1>2. <<mem.status, mem.stage>> \in Statuses \X Stages
    BY <1>1, RowFields
  <1>3. PICK outcome :
          End(w, job[w].b, outcome, Nothing, row, <<mem.status, mem.stage>>, Nothing)
    BY DEF EndOneStep
  <1>4. UNCHANGED <<disputes, exts, completed>>
    BY DEF EndOneStep
  <1> HIDE DEF mem, row
  <1> QED BY <1>1, <1>2, <1>3, <1>4, PlainEndType, AmountsType DEF TypeInv, TypeOK

\* create preserves the invariant.
LEMMA CommitCreateType ==
    ASSUME TypeInv, NEW w \in Workers, CommitCreate(w)
    PROVE  TypeInv'
  <1> DEFINE j == job[w]
             row == IF j.mem.mode = "instant" THEN To(j.mem, "confirmed", "reserved")
                                              ELSE j.mem
             charged == [Nothing EXCEPT !.charge = IF j.mem.mode = "instant"
                                                   THEN Total(j.mem) ELSE 0]
  <1>1. j # Idle /\ j.op = "create"
    BY BusyAt DEF CommitCreate
  <1>2. j.b \in Bookings /\ j.mem \in Row
    BY <1>1, JobKinds DEF TypeInv, BookingJob
  <1>3. row \in Row
    BY <1>2, ToType, StagesAre DEF Statuses
  <1>4. charged \in Amounts
    BY <1>2, RowFields, ChargeType
  <1>5. <<row.status, row.stage>> \in Statuses \X Stages
    BY <1>3, RowFields
  <1>6. PICK outcome :
          End(w, j.b, outcome, IF outcome = "rejected" THEN Nothing ELSE charged,
              row, <<row.status, row.stage>>, charged)
    BY DEF CommitCreate
  <1>7. UNCHANGED <<disputes, exts, completed>>
    BY DEF CommitCreate
  <1> DEFINE moved == IF outcome = "rejected" THEN Nothing ELSE charged
  <1>8. moved \in Amounts /\ End(w, j.b, outcome, moved, row, <<row.status, row.stage>>, charged)
    BY <1>4, <1>6, AmountsType
  <1> HIDE DEF row, charged, moved, j
  <1> QED BY <1>2, <1>3, <1>4, <1>5, <1>7, <1>8, PlainEndType DEF TypeInv, TypeOK

\* approve preserves the invariant.
LEMMA CommitApproveType ==
    ASSUME TypeInv, NEW w \in Workers, CommitApprove(w)
    PROVE  TypeInv'
  <1> DEFINE j == job[w]
             row == To(j.mem, "confirmed", "reserved")
             charged == [Nothing EXCEPT !.charge = Total(j.mem)]
  <1>1. j.b \in Bookings /\ j.mem \in Row
    BY BookingJobType DEF CommitApprove
  <1>2. row \in Row
    BY <1>1, ToType, StagesAre DEF Statuses
  <1>3. charged \in Amounts
    BY <1>1, RowFields, ChargeType
  <1>4. <<row.status, row.stage>> \in Statuses \X Stages
    BY <1>2, RowFields
  <1>5. PICK outcome :
          End(w, j.b, outcome, charged, row, <<row.status, row.stage>>, charged)
    BY DEF CommitApprove
  <1>6. UNCHANGED <<disputes, exts, completed>>
    BY DEF CommitApprove
  <1> HIDE DEF row, charged, j
  <1> QED BY <1>1, <1>2, <1>3, <1>4, <1>5, <1>6, PlainEndType DEF TypeInv, TypeOK

\* cancel preserves the invariant.
LEMMA CommitCancelType ==
    ASSUME TypeInv, NEW w \in Workers, CommitCancel(w)
    PROVE  TypeInv'
  <1>1. job[w].b \in Bookings /\ job[w].mem \in Row /\ rows[job[w].b] \in Row
    BY BookingJobType DEF CommitCancel
  <1>2. PICK pct \in RefundPcts :
          EndStatusOnly(w, "cancelled",
             [Nothing EXCEPT !.refund = IF job[w].mem.status = "confirmed"
                                        THEN RefundAt(pct, job[w].mem) ELSE 0])
    BY DEF CommitCancel
  <1>3. [Nothing EXCEPT !.refund = IF job[w].mem.status = "confirmed"
                                   THEN RefundAt(pct, job[w].mem) ELSE 0] \in Amounts
    BY <1>1, RefundType, ChargeType, LifecycleAssumption
  <1>4. "cancelled" \in Statuses
    BY DEF Statuses
  <1> QED BY <1>1, <1>2, <1>3, <1>4, StatusOnlyType

\* confirmHandover preserves the invariant.
LEMMA CommitHandoverType ==
    ASSUME TypeInv, NEW w \in Workers, CommitHandover(w)
    PROVE  TypeInv'
  <1> DEFINE j == job[w]
             row == To(j.mem, "confirmed", "active")
  <1>1. j.b \in Bookings /\ j.mem \in Row
    BY BookingJobType DEF CommitHandover
  <1>2. row \in Row
    BY <1>1, ToType, StagesAre DEF Statuses
  <1>3. <<row.status, row.stage>> \in Statuses \X Stages
    BY <1>2, RowFields
  <1>4. PICK outcome :
          End(w, j.b, outcome, Nothing, row, <<row.status, row.stage>>, Nothing)
    BY DEF CommitHandover
  <1>5. UNCHANGED <<disputes, exts, completed>>
    BY DEF CommitHandover
  <1> HIDE DEF row, j
  <1> QED BY <1>1, <1>2, <1>3, <1>4, <1>5, PlainEndType, AmountsType DEF TypeInv, TypeOK

\* An inspection without damage preserves the invariant.
LEMMA CommitInspectType ==
    ASSUME TypeInv, NEW w \in Workers, CommitInspect(w)
    PROVE  TypeInv'
  <1> DEFINE j == job[w]
             row == To(j.mem, "completed", "completed")
  <1>1. j.b \in Bookings /\ j.mem \in Row
    BY BookingJobType DEF CommitInspect
  <1>2. row \in Row
    BY <1>1, ToType, StagesAre DEF Statuses
  <1>3. <<row.status, row.stage>> \in Statuses \X Stages
    BY <1>2, RowFields
  <1>4. Released(0) \in Amounts /\ Settled(0, j.mem.rental) \in Amounts
    <2>1. 0 \in 0..Deposit
      BY RatesAssumption
    <2>2. j.mem.rental \in Nat
      BY <1>1, RowFields
    <2> QED BY <2>1, <2>2, SettledType
  <1>5. PICK outcome \in Outcomes(j.b, {To(j.mem, "confirmed", "inspected"), row}) :
          /\ End(w, j.b, outcome, Released(0), row, <<row.status, row.stage>>,
                 Settled(0, j.mem.rental))
          /\ completed' \in Counted(outcome)
    BY DEF CommitInspect
  <1>6. completed' \in Nat
    BY <1>5, OutcomesAre, CountedType DEF TypeInv, TypeOK
  <1>7. UNCHANGED <<disputes, exts>>
    BY DEF CommitInspect
  <1> HIDE DEF row, j
  <1> QED BY <1>1, <1>2, <1>3, <1>4, <1>5, <1>6, <1>7, PlainEndType

\* An inspection with damage preserves the invariant.
LEMMA CommitReportDamageType ==
    ASSUME TypeInv, NEW w \in Workers, CommitReportDamage(w)
    PROVE  TypeInv'
  <1> DEFINE j == job[w]
             row == To(j.mem, "disputed", "inspected")
             opened == [NoDispute EXCEPT !.status = "open"]
  <1>1. j.b \in Bookings /\ j.mem \in Row /\ rows[j.b] \in Row
    BY BookingJobType DEF CommitReportDamage
  <1>2. row \in Row
    BY <1>1, ToType, StagesAre DEF Statuses
  <1>3. <<row.status, row.stage>> \in Statuses \X Stages
    BY <1>2, RowFields
  <1>4. PICK result :
          /\ End(w, j.b, result, Nothing, row, <<row.status, row.stage>>, Nothing)
          /\ disputes' = IF result = "commit"
                         THEN [disputes EXCEPT ![j.b] = opened] ELSE disputes
    BY DEF CommitReportDamage
  <1>5. opened \in Dispute
    BY RatesAssumption DEF NoDispute, Dispute, DisputeStatuses, Resolutions
  <1>6. UNCHANGED <<exts, completed>>
    BY DEF CommitReportDamage
  <1> HIDE DEF row, opened, j
  <1>7. disputes' \in [Bookings -> Dispute]
    BY <1>1, <1>4, <1>5 DEF TypeInv, TypeOK
  <1>8. \A c \in Bookings : disputes'[c].status # "none" => Exists(c)
    BY <1>1, <1>4, RowExists DEF TypeInv, TypeOK, WellFormed
  <1>9. /\ exts' \in [Extensions -> Extension \cup {NoExtension}]
        /\ \A e \in Extensions : exts'[e].status # "absent" => Exists(exts'[e].b)
        /\ \A e \in Extensions : exts[e].status # "absent" => exts'[e].status # "absent"
        /\ completed' \in Nat
    BY <1>6 DEF TypeInv, TypeOK, WellFormed
  <1> QED BY <1>1, <1>2, <1>3, <1>4, <1>7, <1>8, <1>9, EndType, AmountsType

\* A worker that resolves or negotiates a dispute has a dispute job.
LEMMA DisputeJobType ==
    ASSUME TypeInv, NEW w \in Workers, job[w] # Idle,
           job[w].op \in {"propose", "reject", "accept", "adminResolve"} \/
           job[w].phase = "resolving"
    PROVE  /\ job[w].b \in Bookings /\ rows[job[w].b] \in Row
           /\ job[w].dmem \in Dispute
           /\ job[w].phase = "resolving" => job[w].mem \in Row
           /\ SaveDispute(disputes[job[w].b], job[w].dseen, job[w].dmem) \in Dispute
           /\ job[w].op \in {"propose", "reject", "accept", "adminResolve"}
  <1>1. job[w] \in DisputeJob /\ GoodJob(job[w])
    BY JobKinds DEF TypeInv, WellFormed
  <1>2. disputes[job[w].b] \in Dispute
    BY <1>1 DEF DisputeJob, TypeInv, TypeOK
  <1> QED BY <1>1, <1>2, RowExists, SaveDisputeType DEF TypeInv, DisputeJob, GoodJob

\* A proposal and its rejection preserve the invariant.
LEMMA CommitNegotiationType ==
    ASSUME TypeInv, NEW w \in Workers, CommitNegotiation(w)
    PROVE  TypeInv'
  <1> DEFINE j == job[w]
  <1>1. j # Idle /\ j.op \in {"propose", "reject"}
    BY BusyAt DEF CommitNegotiation
  <1>2. /\ j.b \in Bookings /\ rows[j.b] \in Row
        /\ SaveDispute(disputes[j.b], j.dseen, j.dmem) \in Dispute
    BY <1>1, DisputeJobType
  <1>3. disputes' = [disputes EXCEPT ![j.b] =
                        SaveDispute(disputes[j.b], j.dseen, j.dmem)]
    BY DEF CommitNegotiation
  <1>4. job' = [job EXCEPT ![w] = Idle]
    BY DEF CommitNegotiation
  <1>5. UNCHANGED <<rows, trail, exts, ledger, port, completed, overlaps, failures>>
    BY DEF CommitNegotiation
  <1>6. TypeOK'
    BY <1>2, <1>3, <1>4, <1>5 DEF TypeInv, TypeOK
  <1>7. WellFormed'
    <2>1. ASSUME NEW c \in Bookings, (disputes[c].status # "none")'
          PROVE  Exists(c)'
      BY <1>2, <1>3, <1>5, <2>1, RowExists DEF TypeInv, TypeOK, WellFormed, Exists
    <2>2. ASSUME NEW e \in Extensions, (exts[e].status # "absent")'
          PROVE  Exists(exts[e].b)'
      BY <1>5, <2>2 DEF TypeInv, WellFormed, Exists
    <2>3. ASSUME NEW v \in Workers, job'[v] # Idle
          PROVE  GoodJob(job[v])'
      BY <1>4, <1>5, <2>3 DEF TypeInv, TypeOK, WellFormed, GoodJob, Exists
    <2> QED BY <2>1, <2>2, <2>3 DEF WellFormed
  <1> QED BY <1>6, <1>7 DEF TypeInv

\* finalizeDispute preserves the invariant.
LEMMA CommitResolutionType ==
    ASSUME TypeInv, NEW w \in Workers, CommitResolution(w)
    PROVE  TypeInv'
  <1> DEFINE j == job[w]
             final == j.dmem.final
             row == To(j.mem, "completed", "completed")
             resolved == SaveDispute(disputes[j.b], j.dseen, j.dmem)
  <1>1. j # Idle /\ j.phase = "resolving"
    BY DEF CommitResolution, Idle
  <1>2. j.b \in Bookings /\ rows[j.b] \in Row /\ j.mem \in Row
    BY <1>1, DisputeJobType
  <1>3. resolved \in Dispute /\ final \in 0..Deposit
    BY <1>1, DisputeJobType DEF Dispute
  <1>4. row \in Row
    BY <1>2, ToType, StagesAre DEF Statuses
  <1>5. <<row.status, row.stage>> \in Statuses \X Stages
    BY <1>4, RowFields
  <1>6. Released(final) \in Amounts /\ Settled(final, j.mem.rental) \in Amounts
    BY <1>2, <1>3, RowFields, SettledType
  <1>7. PICK outcome \in Outcomes(j.b, {To(j.mem, "confirmed", j.mem.stage), row}) :
          /\ End(w, j.b, outcome, Released(final), row, <<row.status, row.stage>>,
                 Settled(final, j.mem.rental))
          /\ disputes' = IF outcome = "commit"
                         THEN [disputes EXCEPT ![j.b] = resolved] ELSE disputes
          /\ completed' \in Counted(outcome)
    BY DEF CommitResolution
  <1>8. completed' \in Nat
    BY <1>7, OutcomesAre, CountedType DEF TypeInv, TypeOK
  <1>9. UNCHANGED exts
    BY DEF CommitResolution
  <1> HIDE DEF row, resolved, final, j
  <1>10. disputes' \in [Bookings -> Dispute]
    BY <1>2, <1>3, <1>7 DEF TypeInv, TypeOK
  <1>11. \A c \in Bookings : disputes'[c].status # "none" => Exists(c)
    BY <1>2, <1>7, RowExists DEF TypeInv, TypeOK, WellFormed
  <1>12. /\ exts' \in [Extensions -> Extension \cup {NoExtension}]
         /\ \A e \in Extensions : exts'[e].status # "absent" => Exists(exts'[e].b)
         /\ \A e \in Extensions : exts[e].status # "absent" => exts'[e].status # "absent"
    BY <1>9 DEF TypeInv, TypeOK, WellFormed
  <1> QED BY <1>2, <1>4, <1>5, <1>6, <1>7, <1>8, <1>10, <1>11, <1>12, EndType

---------------------------------------------------------------------------
(* Extension requests. *)

\* A worker that handles an extension has an extension job.
LEMMA ExtensionJobType ==
    ASSUME TypeInv, NEW w \in Workers, job[w] # Idle,
           job[w].op \in {"requestExtension", "approveExtension", "declineExtension",
                         "cancelExtension"}
    PROVE  /\ job[w].b \in Bookings /\ rows[job[w].b] \in Row
           /\ job[w].e \in Extensions /\ job[w].ext \in Extension
           /\ job[w].ext.b = job[w].b
           /\ job[w].op = "approveExtension" /\ job[w].phase # "found" =>
                job[w].mem \in Row
           /\ job[w].op # "requestExtension" =>
                /\ exts[job[w].e] \in Extension
                /\ Exists(exts[job[w].e].b)
  <1>1. job[w] \in ExtensionJob /\ GoodJob(job[w])
    BY JobKinds DEF TypeInv, WellFormed
  <1>2. job[w].op # "requestExtension" =>
          exts[job[w].e] \in Extension /\ Exists(exts[job[w].e].b)
    BY <1>1 DEF TypeInv, TypeOK, WellFormed, ExtensionJob, GoodJob, NoExtension
  <1> QED BY <1>1, <1>2, RowExists DEF TypeInv, ExtensionJob, GoodJob

\* A step that changes the extension requests only.
LEMMA ExtensionsOnlyType ==
    ASSUME TypeInv, NEW w \in Workers,
           exts' \in [Extensions -> Extension \cup {NoExtension}],
           \A e \in Extensions : exts'[e].status # "absent" => Exists(exts'[e].b),
           \A e \in Extensions : exts[e].status # "absent" => exts'[e].status # "absent",
           job' = [job EXCEPT ![w] = Idle],
           UNCHANGED <<rows, trail, disputes, ledger, port, completed, overlaps, failures>>
    PROVE  TypeInv'
  <1>1. TypeOK'
    BY DEF TypeInv, TypeOK
  <1>2. ASSUME NEW v \in Workers, job'[v] # Idle
        PROVE  GoodJob(job[v])'
    <2>1. job'[v] = job[v] /\ job[v] # Idle
      BY <1>2 DEF TypeInv, TypeOK
    <2>2. /\ GoodJob(job[v]) /\ job[v].b \in Bookings
          /\ job[v].op \in {"approveExtension", "declineExtension", "cancelExtension"}
               => job[v].e \in Extensions
      BY <2>1, JobKinds DEF TypeInv, WellFormed, ExtensionJob
    <2> QED BY <2>1, <2>2 DEF GoodJob, Exists
  <1>3. WellFormed'
    BY <1>2 DEF TypeInv, WellFormed, Exists
  <1> QED BY <1>1, <1>3 DEF TypeInv

\* requestExtension preserves the invariant.
LEMMA CommitRequestExtensionType ==
    ASSUME TypeInv, NEW w \in Workers, CommitRequestExtension(w)
    PROVE  TypeInv'
  <1> DEFINE j == job[w]
  <1>1. j # Idle /\ j.op = "requestExtension"
    BY BusyAt DEF CommitRequestExtension
  <1>2. j.e \in Extensions /\ j.ext \in Extension /\ Exists(j.ext.b)
    BY <1>1, ExtensionJobType, RowExists DEF TypeInv
  <1>3. exts' = exts \/ exts' = [exts EXCEPT ![j.e] = j.ext]
    BY DEF CommitRequestExtension
  <1>4. exts' \in [Extensions -> Extension \cup {NoExtension}]
    BY <1>2, <1>3 DEF TypeInv, TypeOK
  <1>5. \A e \in Extensions : exts'[e].status # "absent" => Exists(exts'[e].b)
    BY <1>2, <1>3 DEF TypeInv, TypeOK, WellFormed
  <1>6. \A e \in Extensions : exts[e].status # "absent" => exts'[e].status # "absent"
    BY <1>2, <1>3 DEF TypeInv, TypeOK, Extension
  <1>7. /\ job' = [job EXCEPT ![w] = Idle]
        /\ UNCHANGED <<rows, trail, disputes, ledger, port, completed, overlaps, failures>>
    BY DEF CommitRequestExtension
  <1> QED BY <1>4, <1>5, <1>6, <1>7, ExtensionsOnlyType

\* The copy of a row that an approved extension saves.
LEMMA ExtendedType ==
    ASSUME NEW row \in Row, NEW ext \in Extension
    PROVE  [row EXCEPT !.to = ext.newEnd, !.rental = @ + ext.rental,
                       !.service = @ + ext.service] \in Row
  <1>1. /\ ext.newEnd \in Nat /\ row.rental + ext.rental \in Nat
        /\ row.service + ext.service \in Nat
    BY DEF Row, Extension
  <1> QED BY <1>1 DEF Row

\* approveExtension preserves the invariant.
LEMMA CommitApproveExtensionType ==
    ASSUME TypeInv, NEW w \in Workers, CommitApproveExtension(w)
    PROVE  TypeInv'
  <1> DEFINE j == job[w]
             mem == [j.mem EXCEPT !.to = j.ext.newEnd,
                                  !.rental = @ + j.ext.rental,
                                  !.service = @ + j.ext.service]
             row == Save(rows[j.b], j.seen, mem)
             charged == [Nothing EXCEPT !.charge = ExtensionPrice(j.ext)]
  <1>1. j # Idle /\ j.op = "approveExtension" /\ j.phase = "selected"
    BY BusyAt DEF CommitApproveExtension
  <1>2. /\ j.b \in Bookings /\ rows[j.b] \in Row /\ j.mem \in Row
        /\ j.e \in Extensions /\ j.ext \in Extension
    BY <1>1, ExtensionJobType
  <1>3. mem \in Row
    BY <1>2, ExtendedType
  <1>4. row \in Row
    BY <1>2, <1>3, SaveType
  <1>5. charged \in Amounts
    <2>1. ExtensionPrice(j.ext) \in Nat
      BY <1>2 DEF ExtensionPrice, Extension
    <2> QED BY <2>1, ChargeType
  <1>6. <<mem.status, "active">> \in Statuses \X Stages
    <2>1. mem.status \in Statuses
      BY <1>3, RowFields
    <2> HIDE DEF mem
    <2> QED BY <2>1, StagesAre
  <1>7. PICK outcome :
          /\ End(w, j.b, outcome, charged, row, <<mem.status, "active">>, charged)
          /\ exts' = IF outcome = "commit"
                     THEN [exts EXCEPT ![j.e].status = "approved"] ELSE exts
    BY DEF CommitApproveExtension
  <1>8. UNCHANGED <<disputes, completed>>
    BY DEF CommitApproveExtension
  <1>9. exts[j.e] \in Extension /\ Exists(exts[j.e].b)
    BY <1>1, ExtensionJobType
  <1> HIDE DEF mem, row, charged, j
  <1>10. exts' \in [Extensions -> Extension \cup {NoExtension}]
    BY <1>2, <1>7, <1>9 DEF TypeInv, TypeOK, Extension, ExtensionStatuses
  <1>11. \A e \in Extensions : exts'[e].status # "absent" => Exists(exts'[e].b)
    BY <1>2, <1>7, <1>9 DEF TypeInv, TypeOK, WellFormed, Extension
  <1>12. \A e \in Extensions : exts[e].status # "absent" => exts'[e].status # "absent"
    BY <1>2, <1>7, <1>9 DEF TypeInv, TypeOK, Extension
  <1>13. /\ disputes' \in [Bookings -> Dispute] /\ completed' \in Nat
         /\ \A c \in Bookings : disputes'[c].status # "none" => Exists(c)
    BY <1>8 DEF TypeInv, TypeOK, WellFormed
  <1> QED BY <1>2, <1>4, <1>5, <1>6, <1>7, <1>10, <1>11, <1>12, <1>13, EndType

\* Declining and cancelling an extension preserve the invariant.
LEMMA CommitCloseExtensionType ==
    ASSUME TypeInv, NEW w \in Workers, CommitCloseExtension(w)
    PROVE  TypeInv'
  <1> DEFINE j == job[w]
  <1>1. PICK op \in {"declineExtension", "cancelExtension"} :
          /\ At(w, op, "loaded")
          /\ exts' = [exts EXCEPT ![j.e].status =
                          IF op = "declineExtension" THEN "declined" ELSE "cancelled"]
          /\ job' = [job EXCEPT ![w] = Idle]
          /\ UNCHANGED <<rows, trail, disputes, ledger, port, completed, overlaps, failures>>
    BY DEF CommitCloseExtension
  <1>2. j.e \in Extensions
    BY <1>1, BusyAt, ExtensionJobType
  <1>3. exts[j.e] \in Extension /\ Exists(exts[j.e].b)
    BY <1>1, BusyAt, ExtensionJobType
  <1> HIDE DEF j
  <1>4. exts' \in [Extensions -> Extension \cup {NoExtension}]
    BY <1>1, <1>2, <1>3 DEF TypeInv, TypeOK, Extension, ExtensionStatuses
  <1>5. \A e \in Extensions : exts'[e].status # "absent" => Exists(exts'[e].b)
    BY <1>1, <1>2, <1>3 DEF TypeInv, TypeOK, WellFormed, Extension
  <1>6. \A e \in Extensions : exts[e].status # "absent" => exts'[e].status # "absent"
    BY <1>1, <1>2, <1>3 DEF TypeInv, TypeOK, Extension
  <1> QED BY <1>1, <1>4, <1>5, <1>6, ExtensionsOnlyType

---------------------------------------------------------------------------

\* Every end of a request preserves the invariant.
LEMMA CommitsType ==
    ASSUME TypeInv, NEW w \in Workers, Commits(w)
    PROVE  TypeInv'
  <1>1. CASE CommitDecline(w)
    <2>1. "declined" \in Statuses
      BY DEF Statuses
    <2> QED BY <1>1, <2>1, BookingJobType, StatusOnlyType, AmountsType DEF CommitDecline
  <1>2. CASE CommitScheduleReturn(w)
    <2>1. "returnsched" \in Stages
      BY StagesAre
    <2> QED BY <1>2, <2>1, BookingJobType, OneStepType DEF CommitScheduleReturn
  <1>3. CASE CommitConfirmReturn(w)
    <2>1. "returned" \in Stages
      BY StagesAre
    <2> QED BY <1>3, <2>1, BookingJobType, OneStepType DEF CommitConfirmReturn
  <1> QED
    BY <1>1, <1>2, <1>3, CommitCreateType, CommitApproveType, CommitCancelType,
       CommitHandoverType, CommitInspectType, CommitReportDamageType,
       CommitNegotiationType, CommitResolutionType, CommitRequestExtensionType,
       CommitApproveExtensionType, CommitCloseExtensionType
    DEF Commits

\* The empty tables are well typed.
LEMMA InitType == Init => TypeInv
  <1> SUFFICES ASSUME Init PROVE TypeInv
    OBVIOUS
  <1>1. NoDispute \in Dispute
    BY RatesAssumption DEF NoDispute, Dispute, DisputeStatuses, Resolutions
  <1>2. <<"pending", "requested">> \in Statuses \X Stages
    BY StagesAre DEF Statuses
  <1>3. TypeOK
    BY <1>1, <1>2, AmountsType DEF Init, TypeOK
  <1>4. WellFormed
    BY DEF Init, WellFormed, NoDispute, NoExtension
  <1> QED BY <1>3, <1>4 DEF TypeInv

\* Every step preserves the invariant.
LEMMA NextType == TypeInv /\ [Next]_vars => TypeInv'
  <1> SUFFICES ASSUME TypeInv, [Next]_vars PROVE TypeInv'
    OBVIOUS
  <1>1. ASSUME NEW w \in Workers, Loads(w) \/ Selects(w) \/ Commits(w)
        PROVE  TypeInv'
    BY <1>1, LoadsType, SelectsType, CommitsType
  <1>2. CASE SaveProfile
    <2>1. overlaps + 1 \in Nat /\ 0..(completed - 1) \subseteq Nat
      BY DEF TypeInv, TypeOK
    <2>2. UNCHANGED <<tables, port, job, failures>> /\ overlaps' \in Nat /\ completed' \in Nat
      BY <1>2, <2>1 DEF SaveProfile
    <2> QED BY <2>2 DEF tables, TypeInv, TypeOK, WellFormed, GoodJob, Exists
  <1>3. CASE UNCHANGED vars
    BY <1>3 DEF vars, TypeInv, TypeOK, WellFormed, GoodJob, Exists
  <1> QED BY <1>1, <1>2, <1>3 DEF Next

\* Every reachable state is well typed, and in it every request, dispute and
\* extension request refers to a booking that exists: no amount the services
\* compute is negative, no deduction exceeds the deposit, and finalizeDispute
\* always finds the row it completes.
THEOREM TypeCorrect == Spec => []TypeInv
  BY InitType, NextType, PTL DEF Spec

\* The type invariant the racing run checks.
THEOREM TypesHold == Spec => []TypeOK
  <1>1. TypeInv => TypeOK
    BY DEF TypeInv
  <1> QED BY <1>1, TypeCorrect, PTL

\* Only a request in progress ends.
LEMMA CommitsBusy ==
    ASSUME NEW w \in Workers, Commits(w)
    PROVE  job[w] # Idle
  <1>1. ASSUME NEW op, NEW phase \in {"loaded", "selected"}, At(w, op, phase)
        PROVE  job[w] # Idle
    BY <1>1, BusyAt
  <1>2. CASE CommitResolution(w)
    BY <1>2 DEF CommitResolution, Idle
  <1>3. CASE CommitCreate(w) \/ CommitApprove(w) \/ CommitDecline(w) \/ CommitCancel(w)
             \/ CommitHandover(w) \/ CommitScheduleReturn(w) \/ CommitConfirmReturn(w)
    BY <1>1, <1>3 DEF CommitCreate, CommitApprove, CommitDecline, CommitCancel,
       CommitHandover, CommitScheduleReturn, CommitConfirmReturn
  <1>4. CASE CommitInspect(w) \/ CommitReportDamage(w) \/ CommitNegotiation(w)
             \/ CommitRequestExtension(w) \/ CommitApproveExtension(w)
             \/ CommitCloseExtension(w)
    BY <1>1, <1>4 DEF CommitInspect, CommitReportDamage, CommitNegotiation,
       CommitRequestExtension, CommitApproveExtension, CommitCloseExtension
  <1> QED BY <1>2, <1>3, <1>4 DEF Commits

---------------------------------------------------------------------------
(* Double booking.  Whatever stale copy a request saves, and whichever     *)
(* columns of it, every version of a row that is written has been accepted *)
(* by the exclusion constraint; nothing else changes the rows.             *)

\* Windows overlap each other.
LEMMA OverlapSymmetric ==
    ASSUME NEW f1, NEW t1, NEW f2, NEW t2
    PROVE  Overlap(f1, t1, f2, t2) <=> Overlap(f2, t2, f1, t1)
  BY DEF Overlap

\* A transaction commits only versions that the constraint accepts.
LEMMA CommitAccepted ==
    ASSUME NEW b, NEW versions, NEW row \in versions,
           NEW outcome \in Outcomes(b, versions), outcome = "commit"
    PROVE  Accepts(b, row)
  BY DEF Outcomes

\* A request's step writes no row, or one that the constraint accepts.
Written == UNCHANGED rows \/ \E b \in Bookings : \E row \in Row :
                                /\ rows' = [rows EXCEPT ![b] = row]
                                /\ Accepts(b, row)

\* The end of a transaction writes one row, on commit, or none.
LEMMA EndWrites ==
    ASSUME NEW w, NEW b \in Bookings, NEW row \in Row, NEW outcome, NEW moved,
           NEW told, NEW booked, End(w, b, outcome, moved, row, told, booked),
           outcome = "commit" => Accepts(b, row)
    PROVE  Written
  BY DEF End, Written

\* setStatusOnly writes one row that the constraint accepts.
LEMMA StatusOnlyWrites ==
    ASSUME TypeInv, NEW w \in Workers, NEW status \in Statuses, NEW moved,
           job[w].b \in Bookings, job[w].mem \in Row, rows[job[w].b] \in Row,
           EndStatusOnly(w, status, moved)
    PROVE  Written
  <1> DEFINE mem == [job[w].mem EXCEPT !.status = status]
             row == Save(rows[job[w].b], job[w].seen, mem)
  <1>1. row \in Row
    BY SaveType DEF Row
  <1>2. PICK outcome \in Outcomes(job[w].b, {row}) :
          End(w, job[w].b, outcome, moved, row, <<mem.status, mem.stage>>, moved)
    BY DEF EndStatusOnly
  <1> HIDE DEF row, mem
  <1>3. outcome = "commit" => Accepts(job[w].b, row)
    BY CommitAccepted
  <1> QED BY <1>1, <1>2, <1>3, EndWrites

\* runSteps writes one row that the constraint accepts.
LEMMA OneStepWrites ==
    ASSUME TypeInv, NEW w \in Workers, NEW stage \in Stages,
           job[w].b \in Bookings, job[w].mem \in Row, rows[job[w].b] \in Row,
           EndOneStep(w, stage)
    PROVE  Written
  <1> DEFINE mem == To(job[w].mem, "confirmed", stage)
             row == Save(rows[job[w].b], job[w].seen, mem)
  <1>1. row \in Row
    BY SaveType, ToType DEF Statuses
  <1>2. PICK outcome \in Outcomes(job[w].b, {row}) :
          End(w, job[w].b, outcome, Nothing, row, <<mem.status, mem.stage>>, Nothing)
    BY DEF EndOneStep
  <1> HIDE DEF row, mem
  <1>3. outcome = "commit" => Accepts(job[w].b, row)
    BY CommitAccepted
  <1> QED BY <1>1, <1>2, <1>3, EndWrites

\* create's constraint is checked on the pending row, and the reserved one of
\* an instant booking occupies the same dates.
LEMMA CreateWrites ==
    ASSUME TypeInv, NEW w \in Workers, CommitCreate(w)
    PROVE  Written
  <1> DEFINE j == job[w]
             row == IF j.mem.mode = "instant" THEN To(j.mem, "confirmed", "reserved")
                                              ELSE j.mem
             charged == [Nothing EXCEPT !.charge = IF j.mem.mode = "instant"
                                                   THEN Total(j.mem) ELSE 0]
  <1>1. j # Idle /\ j.op = "create"
    BY BusyAt DEF CommitCreate
  <1>2. j.b \in Bookings /\ j.mem \in Row /\ j.mem.status = "pending"
    BY <1>1, JobKinds DEF TypeInv, WellFormed, GoodJob, BookingJob
  <1>3. row \in Row /\ row.unit = j.mem.unit /\ row.from = j.mem.from /\ row.to = j.mem.to
    BY <1>2, ToType, StagesAre DEF Statuses
  <1>4. PICK outcome \in Outcomes(j.b, {j.mem}) :
          End(w, j.b, outcome, IF outcome = "rejected" THEN Nothing ELSE charged,
              row, <<row.status, row.stage>>, charged)
    BY DEF CommitCreate
  <1> HIDE DEF row, charged, j
  <1>5. outcome = "commit" => Accepts(j.b, j.mem)
    BY CommitAccepted
  <1>6. outcome = "commit" => Accepts(j.b, row)
    BY <1>2, <1>3, <1>5 DEF Accepts, Active
  <1> QED BY <1>2, <1>3, <1>4, <1>6, EndWrites

\* A transaction that lists the row it saves among its versions writes one that
\* the constraint accepts.
LEMMA VersionWrites ==
    ASSUME NEW w, NEW b \in Bookings, NEW row \in Row, NEW versions, row \in versions,
           NEW outcome \in Outcomes(b, versions), NEW moved, NEW told, NEW booked,
           End(w, b, outcome, moved, row, told, booked)
    PROVE  Written
  BY CommitAccepted, EndWrites

\* The requests that end by saving the whole copy as confirmed or completed.
LEMMA WholeWrites ==
    ASSUME TypeInv, NEW w \in Workers,
           CommitApprove(w) \/ CommitHandover(w) \/ CommitInspect(w)
    PROVE  Written
  <1> DEFINE j == job[w]
  <1>1. j.b \in Bookings /\ j.mem \in Row
    BY BookingJobType DEF CommitApprove, CommitHandover, CommitInspect
  <1>2. CASE CommitApprove(w)
    <2> DEFINE row == To(j.mem, "confirmed", "reserved")
               charged == [Nothing EXCEPT !.charge = Total(j.mem)]
    <2>1. row \in Row
      BY <1>1, ToType, StagesAre DEF Statuses
    <2>2. PICK outcome \in Outcomes(j.b, {row}) :
            End(w, j.b, outcome, charged, row, <<row.status, row.stage>>, charged)
      BY <1>2 DEF CommitApprove
    <2> HIDE DEF row, charged
    <2> QED BY <1>1, <2>1, <2>2, VersionWrites
  <1>3. CASE CommitHandover(w)
    <2> DEFINE row == To(j.mem, "confirmed", "active")
    <2>1. row \in Row
      BY <1>1, ToType, StagesAre DEF Statuses
    <2>2. PICK outcome \in Outcomes(j.b, {row}) :
            End(w, j.b, outcome, Nothing, row, <<row.status, row.stage>>, Nothing)
      BY <1>3 DEF CommitHandover
    <2> HIDE DEF row
    <2> QED BY <1>1, <2>1, <2>2, VersionWrites
  <1>4. CASE CommitInspect(w)
    <2> DEFINE row == To(j.mem, "completed", "completed")
               versions == {To(j.mem, "confirmed", "inspected"), row}
    <2>1. row \in Row /\ row \in versions
      BY <1>1, ToType, StagesAre DEF Statuses
    <2>2. PICK outcome \in Outcomes(j.b, versions) :
            End(w, j.b, outcome, Released(0), row, <<row.status, row.stage>>,
                Settled(0, j.mem.rental))
      BY <1>4 DEF CommitInspect
    <2> HIDE DEF row, versions
    <2> QED BY <1>1, <2>1, <2>2, VersionWrites
  <1> QED BY <1>2, <1>3, <1>4

\* finalizeDispute writes one row that the constraint accepts.
LEMMA ResolutionWrites ==
    ASSUME TypeInv, NEW w \in Workers, CommitResolution(w)
    PROVE  Written
  <1> DEFINE j == job[w]
             row == To(j.mem, "completed", "completed")
             versions == {To(j.mem, "confirmed", j.mem.stage), row}
  <1>1. j # Idle /\ j.phase = "resolving"
    BY DEF CommitResolution, Idle
  <1>2. j.b \in Bookings /\ j.mem \in Row
    BY <1>1, DisputeJobType
  <1>3. row \in Row /\ row \in versions
    BY <1>2, ToType, StagesAre DEF Statuses
  <1>4. PICK outcome \in Outcomes(j.b, versions) :
          End(w, j.b, outcome, Released(j.dmem.final), row, <<row.status, row.stage>>,
              Settled(j.dmem.final, j.mem.rental))
    BY DEF CommitResolution
  <1> HIDE DEF row, versions, j
  <1>5. outcome = "commit" => Accepts(j.b, row)
    BY <1>3, CommitAccepted
  <1> QED BY <1>2, <1>3, <1>4, <1>5, EndWrites

\* The constraint does not look at a disputed row.
LEMMA ReportDamageWrites ==
    ASSUME TypeInv, NEW w \in Workers, CommitReportDamage(w)
    PROVE  Written
  <1> DEFINE j == job[w]
             row == To(j.mem, "disputed", "inspected")
  <1>1. j.b \in Bookings /\ j.mem \in Row
    BY BookingJobType DEF CommitReportDamage
  <1>2. row \in Row /\ row.status = "disputed"
    BY <1>1, ToType, StagesAre DEF Statuses
  <1>3. PICK result :
          End(w, j.b, result, Nothing, row, <<row.status, row.stage>>, Nothing)
    BY DEF CommitReportDamage
  <1> HIDE DEF row, j
  <1>4. Accepts(j.b, row)
    BY <1>2 DEF Accepts, Active
  <1> QED BY <1>1, <1>2, <1>3, <1>4, EndWrites

\* approveExtension writes one row that the constraint accepts.
LEMMA ApproveExtensionWrites ==
    ASSUME TypeInv, NEW w \in Workers, CommitApproveExtension(w)
    PROVE  Written
  <1> DEFINE j == job[w]
             mem == [j.mem EXCEPT !.to = j.ext.newEnd,
                                  !.rental = @ + j.ext.rental,
                                  !.service = @ + j.ext.service]
             row == Save(rows[j.b], j.seen, mem)
             charged == [Nothing EXCEPT !.charge = ExtensionPrice(j.ext)]
  <1>1. j # Idle /\ j.op = "approveExtension" /\ j.phase = "selected"
    BY BusyAt DEF CommitApproveExtension
  <1>2. j.b \in Bookings /\ rows[j.b] \in Row /\ j.mem \in Row /\ j.ext \in Extension
    BY <1>1, ExtensionJobType
  <1>3. mem \in Row
    BY <1>2, ExtendedType
  <1>4. row \in Row
    BY <1>2, <1>3, SaveType
  <1>5. PICK outcome \in Outcomes(j.b, {row}) :
          End(w, j.b, outcome, charged, row, <<mem.status, "active">>, charged)
    BY DEF CommitApproveExtension
  <1> HIDE DEF row, charged, mem, j
  <1>6. outcome = "commit" => Accepts(j.b, row)
    BY CommitAccepted
  <1> QED BY <1>2, <1>4, <1>5, <1>6, EndWrites

\* No read of a request touches a row.
LEMMA LoadsKeepTables ==
    ASSUME NEW w, Loads(w) \/ Selects(w)
    PROVE  UNCHANGED <<tables, port, completed>>
  <1>1. CASE Loads(w)
    BY <1>1 DEF Loads, LoadCreate, LoadApprove, LoadDecline, LoadCancel, LoadHandover,
         LoadScheduleReturn, LoadConfirmReturn, LoadInspect, LoadReportDamage,
         LoadPropose, LoadReject, LoadAccept, LoadAdminResolve, LoadRequestExtension,
         FindExtension, LoadCloseExtension, LoadAtStage, Load, LoadDispute,
         LoadExtension, Start
  <1>2. CASE Selects(w)
    BY <1>2 DEF Selects, SelectRow, SelectDispute, LockDispute, LoadApproveExtension,
         Proceed
  <1> QED BY <1>1, <1>2

\* Every end of a request writes at most one row, one the constraint accepts.
LEMMA CommitsWrite ==
    ASSUME TypeInv, NEW w \in Workers, Commits(w)
    PROVE  Written
  <1>1. CASE CommitDecline(w)
    <2>1. "declined" \in Statuses
      BY DEF Statuses
    <2> QED BY <1>1, <2>1, BookingJobType, StatusOnlyWrites DEF CommitDecline
  <1>2. CASE CommitCancel(w)
    <2>1. PICK moved : EndStatusOnly(w, "cancelled", moved)
      BY <1>2 DEF CommitCancel
    <2>2. "cancelled" \in Statuses
      BY DEF Statuses
    <2> QED BY <1>2, <2>1, <2>2, BookingJobType, StatusOnlyWrites DEF CommitCancel
  <1>3. CASE CommitScheduleReturn(w)
    <2>1. "returnsched" \in Stages
      BY StagesAre
    <2> QED BY <1>3, <2>1, BookingJobType, OneStepWrites DEF CommitScheduleReturn
  <1>4. CASE CommitConfirmReturn(w)
    <2>1. "returned" \in Stages
      BY StagesAre
    <2> QED BY <1>4, <2>1, BookingJobType, OneStepWrites DEF CommitConfirmReturn
  <1>5. CASE CommitNegotiation(w) \/ CommitRequestExtension(w) \/ CommitCloseExtension(w)
    BY <1>5 DEF CommitNegotiation, CommitRequestExtension, CommitCloseExtension, Written
  <1> QED
    BY <1>1, <1>2, <1>3, <1>4, <1>5, CreateWrites, WholeWrites, ResolutionWrites,
       ReportDamageWrites, ApproveExtensionWrites
    DEF Commits

\* Every step writes at most one row, one the constraint accepts.
LEMMA NextWrites == TypeInv /\ [Next]_vars => Written
  BY LoadsKeepTables, CommitsWrite DEF Next, SaveProfile, vars, tables, Written

\* One accepted row written at a time never makes active bookings overlap.
LEMMA WritesKeepNoOverlap ==
    ASSUME TypeInv, NoOverlap, Written
    PROVE  NoOverlap'
  <1>1. CASE UNCHANGED rows
    BY <1>1 DEF NoOverlap, Occupied, Exists
  <1>2. CASE \E b \in Bookings : \E row \in Row :
               rows' = [rows EXCEPT ![b] = row] /\ Accepts(b, row)
    <2>1. PICK b \in Bookings, row \in Row :
            rows' = [rows EXCEPT ![b] = row] /\ Accepts(b, row)
      BY <1>2
    <2>2. /\ rows'[b] = row
          /\ \A c \in Bookings \ {b} : rows'[c] = rows[c]
      BY <2>1 DEF TypeInv, TypeOK
    <2>3. SUFFICES ASSUME NEW c \in Bookings, NEW d \in Bookings \ {c},
                          rows'[c].status # "absent", Active(rows'[c].status),
                          rows'[d].status # "absent", Active(rows'[d].status),
                          rows'[d].unit = rows'[c].unit
                   PROVE  ~Overlap(rows'[d].from, rows'[d].to, rows'[c].from, rows'[c].to)
      BY DEF NoOverlap, Occupied, Exists
    <2>4. CASE c = b
      <3>1. d # b /\ rows'[d] = rows[d] /\ rows'[c] = row
        BY <2>2, <2>4
      <3> QED BY <2>1, <2>3, <2>4, <3>1 DEF Accepts, Occupied, Exists
    <2>5. CASE d = b
      <3>1. c # b /\ rows'[c] = rows[c] /\ rows'[d] = row
        BY <2>2, <2>5
      <3>2. ~Overlap(rows'[c].from, rows'[c].to, rows'[d].from, rows'[d].to)
        BY <2>1, <2>3, <2>5, <3>1 DEF Accepts, Occupied, Exists
      <3> QED BY <3>2, OverlapSymmetric
    <2>6. CASE c # b /\ d # b
      <3>1. rows'[c] = rows[c] /\ rows'[d] = rows[d]
        BY <2>2, <2>6
      <3> QED BY <2>3, <3>1 DEF NoOverlap, Occupied, Exists
    <2> QED BY <2>4, <2>5, <2>6
  <1> QED BY <1>1, <1>2 DEF Written

\* No two pending or confirmed bookings of a unit ever overlap, whatever stale
\* copies the requests save: docs/ARCHITECTURE.md 4.1.
THEOREM NoDoubleBooking == Spec => []NoOverlap
  <1>1. Init => NoOverlap
    BY DEF Init, NoOverlap, Exists, NoRow
  <1>2. TypeInv /\ NoOverlap /\ [Next]_vars => NoOverlap'
    BY NextWrites, WritesKeepNoOverlap
  <1> QED BY <1>1, <1>2, TypeCorrect, PTL DEF Spec

---------------------------------------------------------------------------
(* The ledger.  Whatever a transaction books, the port has moved by then;  *)
(* what the port moved for a transaction that rolled back stays unbooked.  *)

Covers(moved, booked) ==
    /\ booked.charge <= moved.charge
    /\ booked.refund <= moved.refund
    /\ booked.release <= moved.release

\* A transaction whose ledger entries are among what it moved keeps the ledger
\* backed.
LEMMA EndBacked ==
    ASSUME TypeInv, LedgerBackedByPort, NEW w \in Workers, NEW b \in Bookings,
           NEW outcome, NEW moved \in Amounts, NEW row, NEW told,
           NEW booked \in Amounts, End(w, b, outcome, moved, row, told, booked),
           outcome = "commit" => Covers(moved, booked)
    PROVE  LedgerBackedByPort'
  <1>1. /\ port' = [port EXCEPT ![b] = Plus(port[b], moved)]
        /\ \/ outcome = "commit" /\ ledger' = [ledger EXCEPT ![b] = Plus(ledger[b], booked)]
           \/ ledger' = ledger
    BY DEF End
  <1>2. port \in [Bookings -> Amounts] /\ ledger \in [Bookings -> Amounts]
    BY DEF TypeInv, TypeOK
  <1>3. SUFFICES ASSUME NEW c \in Bookings
                 PROVE  /\ ledger'[c].charge <= port'[c].charge
                        /\ ledger'[c].refund <= port'[c].refund
                        /\ ledger'[c].release <= port'[c].release
    BY DEF LedgerBackedByPort
  <1>4. /\ ledger[c].charge <= port[c].charge
        /\ ledger[c].refund <= port[c].refund
        /\ ledger[c].release <= port[c].release
    BY DEF LedgerBackedByPort
  <1>5. CASE c # b
    BY <1>1, <1>2, <1>4, <1>5
  <1>6. CASE c = b
    <2>1. port'[b] = Plus(port[b], moved) /\ port[b] \in Amounts /\ ledger[b] \in Amounts
      BY <1>1, <1>2
    <2>2. CASE ledger' = ledger
      BY <1>4, <1>6, <2>1, <2>2 DEF Plus, Amounts
    <2>3. CASE outcome = "commit" /\ ledger' = [ledger EXCEPT ![b] = Plus(ledger[b], booked)]
      <3>1. ledger'[b] = Plus(ledger[b], booked) /\ Covers(moved, booked)
        BY <1>2, <2>3
      <3> QED BY <1>4, <1>6, <2>1, <3>1 DEF Plus, Amounts, Covers
    <2> QED BY <1>1, <2>2, <2>3
  <1> QED BY <1>5, <1>6

\* Of the same amount moved and booked.
LEMMA EndBackedEven ==
    ASSUME TypeInv, LedgerBackedByPort, NEW w \in Workers, NEW b \in Bookings,
           NEW outcome, NEW moved \in Amounts, NEW row, NEW told,
           End(w, b, outcome, moved, row, told, moved)
    PROVE  LedgerBackedByPort'
  <1>1. Covers(moved, moved)
    BY DEF Covers, Amounts
  <1> QED BY <1>1, EndBacked

\* The forfeit and the earning are booked, not moved: they stay in the wallet.
LEMMA SettledCovered ==
    ASSUME NEW deduction \in 0..Deposit, NEW rental \in Nat
    PROVE  Covers(Released(deduction), Settled(deduction, rental))
  BY RatesAssumption DEF Covers, Released, Settled, Nothing

\* Every end of a request keeps the ledger backed by the port.
LEMMA CommitsBacked ==
    ASSUME TypeInv, LedgerBackedByPort, NEW w \in Workers, Commits(w)
    PROVE  LedgerBackedByPort'
  <1> DEFINE j == job[w]
  <1>1. CASE CommitCreate(w)
    <2> DEFINE charged == [Nothing EXCEPT !.charge = IF j.mem.mode = "instant"
                                                     THEN Total(j.mem) ELSE 0]
    <2>1. j # Idle /\ j.op = "create"
      BY <1>1, BusyAt DEF CommitCreate
    <2>2. j.b \in Bookings /\ j.mem \in Row
      BY <2>1, JobKinds DEF TypeInv, BookingJob
    <2>3. charged \in Amounts
      BY <2>2, RowFields, ChargeType
    <2>4. PICK outcome, row, told :
            End(w, j.b, outcome, IF outcome = "rejected" THEN Nothing ELSE charged,
                row, told, charged)
      BY <1>1 DEF CommitCreate
    <2> DEFINE moved == IF outcome = "rejected" THEN Nothing ELSE charged
    <2>5. moved \in Amounts
      BY <2>3, AmountsType
    <2>6. outcome = "commit" => Covers(moved, charged)
      BY <2>3 DEF Covers, Amounts
    <2>7. End(w, j.b, outcome, moved, row, told, charged)
      BY <2>4
    <2> HIDE DEF moved, charged, j
    <2> QED BY <2>2, <2>3, <2>5, <2>6, <2>7, EndBacked
  <1>2. CASE CommitApprove(w)
    <2> DEFINE charged == [Nothing EXCEPT !.charge = Total(j.mem)]
    <2>1. j.b \in Bookings /\ j.mem \in Row
      BY <1>2, BookingJobType DEF CommitApprove
    <2>2. charged \in Amounts
      BY <2>1, RowFields, ChargeType
    <2>3. PICK outcome, row, told : End(w, j.b, outcome, charged, row, told, charged)
      BY <1>2 DEF CommitApprove
    <2> HIDE DEF charged, j
    <2> QED BY <2>1, <2>2, <2>3, EndBackedEven
  <1>3. CASE CommitDecline(w)
    <2>1. j.b \in Bookings
      BY <1>3, BookingJobType DEF CommitDecline
    <2>2. PICK outcome, row, told : End(w, j.b, outcome, Nothing, row, told, Nothing)
      BY <1>3 DEF CommitDecline, EndStatusOnly
    <2> QED BY <2>1, <2>2, EndBackedEven, AmountsType
  <1>4. CASE CommitCancel(w)
    <2>1. j.b \in Bookings /\ j.mem \in Row
      BY <1>4, BookingJobType DEF CommitCancel
    <2>2. PICK pct \in RefundPcts :
            EndStatusOnly(w, "cancelled",
               [Nothing EXCEPT !.refund = IF j.mem.status = "confirmed"
                                          THEN RefundAt(pct, j.mem) ELSE 0])
      BY <1>4 DEF CommitCancel
    <2> DEFINE refunded == [Nothing EXCEPT !.refund = IF j.mem.status = "confirmed"
                                                      THEN RefundAt(pct, j.mem) ELSE 0]
    <2>3. refunded \in Amounts
      BY <2>1, RefundType, ChargeType, LifecycleAssumption
    <2>4. PICK outcome, row, told : End(w, j.b, outcome, refunded, row, told, refunded)
      BY <2>2 DEF EndStatusOnly
    <2> HIDE DEF refunded, j
    <2> QED BY <2>1, <2>3, <2>4, EndBackedEven
  <1>5. CASE CommitHandover(w) \/ CommitScheduleReturn(w) \/ CommitConfirmReturn(w)
             \/ CommitReportDamage(w)
    <2>1. j.b \in Bookings
      BY <1>5, BookingJobType DEF CommitHandover, CommitScheduleReturn,
         CommitConfirmReturn, CommitReportDamage
    <2>2. PICK outcome, row, told : End(w, j.b, outcome, Nothing, row, told, Nothing)
      BY <1>5 DEF CommitHandover, CommitScheduleReturn, CommitConfirmReturn,
         CommitReportDamage, EndOneStep
    <2> QED BY <2>1, <2>2, EndBackedEven, AmountsType
  <1>6. CASE CommitInspect(w)
    <2>1. j.b \in Bookings /\ j.mem \in Row
      BY <1>6, BookingJobType DEF CommitInspect
    <2>2. 0 \in 0..Deposit
      BY RatesAssumption
    <2>3. j.mem.rental \in Nat
      BY <2>1, RowFields
    <2>4. PICK outcome, row, told :
            End(w, j.b, outcome, Released(0), row, told, Settled(0, j.mem.rental))
      BY <1>6 DEF CommitInspect
    <2> QED BY <2>1, <2>2, <2>3, <2>4, SettledType, SettledCovered, EndBacked
  <1>7. CASE CommitResolution(w)
    <2>1. j # Idle /\ j.phase = "resolving"
      BY <1>7 DEF CommitResolution, Idle
    <2>2. j.b \in Bookings /\ j.mem \in Row /\ j.dmem.final \in 0..Deposit
      BY <2>1, DisputeJobType DEF Dispute
    <2>3. j.mem.rental \in Nat
      BY <2>2, RowFields
    <2>4. PICK outcome, row, told :
            End(w, j.b, outcome, Released(j.dmem.final), row, told,
                Settled(j.dmem.final, j.mem.rental))
      BY <1>7 DEF CommitResolution
    <2> QED BY <2>2, <2>3, <2>4, SettledType, SettledCovered, EndBacked
  <1>8. CASE CommitApproveExtension(w)
    <2> DEFINE charged == [Nothing EXCEPT !.charge = ExtensionPrice(j.ext)]
    <2>1. j # Idle /\ j.op = "approveExtension"
      BY <1>8, BusyAt DEF CommitApproveExtension
    <2>2. j.b \in Bookings /\ j.ext \in Extension
      BY <2>1, ExtensionJobType
    <2>3. ExtensionPrice(j.ext) \in Nat
      BY <2>2 DEF ExtensionPrice, Extension
    <2>4. charged \in Amounts
      BY <2>3, ChargeType
    <2>5. PICK outcome, row, told : End(w, j.b, outcome, charged, row, told, charged)
      BY <1>8 DEF CommitApproveExtension
    <2> HIDE DEF charged, j
    <2> QED BY <2>2, <2>4, <2>5, EndBackedEven
  <1>9. CASE CommitNegotiation(w) \/ CommitRequestExtension(w) \/ CommitCloseExtension(w)
    BY <1>9 DEF CommitNegotiation, CommitRequestExtension, CommitCloseExtension,
       LedgerBackedByPort
  <1> QED BY <1>1, <1>2, <1>3, <1>4, <1>5, <1>6, <1>7, <1>8, <1>9 DEF Commits

\* The ledger never claims money the payment provider did not move.
THEOREM LedgerNeverOverstates == Spec => []LedgerBackedByPort
  <1>1. Init => LedgerBackedByPort
    BY DEF Init, LedgerBackedByPort, Nothing
  <1>2. TypeInv /\ LedgerBackedByPort /\ [Next]_vars => LedgerBackedByPort'
    <2> SUFFICES ASSUME TypeInv, LedgerBackedByPort, [Next]_vars
                 PROVE  LedgerBackedByPort'
      OBVIOUS
    <2>1. CASE UNCHANGED <<ledger, port>>
      BY <2>1 DEF LedgerBackedByPort
    <2>2. CASE \E w \in Workers : Commits(w)
      BY <2>2, CommitsBacked
    <2> QED BY <2>1, <2>2, LoadsKeepTables DEF Next, SaveProfile, vars, tables
  <1> QED BY <1>1, <1>2, TypeCorrect, PTL DEF Spec

---------------------------------------------------------------------------
(* Disputed bookings.  A request may save a copy it read while the booking *)
(* was disputed (approveExtension checks neither status nor stage), so the *)
(* invariant speaks of the copies in memory too.                           *)

DisputeCopies ==
    \A w \in Workers : job[w] # Idle =>
        /\ job[w].op = "approveExtension" /\ job[w].mem.status = "disputed" =>
             disputes[job[w].b].status # "none"
        /\ job[w].op \in {"propose", "reject", "accept", "adminResolve"} =>
             job[w].dmem.status # "none"

DisputeInv == DisputedHasDispute /\ DisputeCopies

\* No dispute disappears ...
DisputesRemain ==
    \A b \in Bookings : disputes[b].status # "none" => disputes'[b].status # "none"

\* ... and no row becomes disputed without one.
DisputedWithDispute ==
    \A b \in Bookings : rows'[b].status = "disputed" =>
        rows[b].status = "disputed" \/ disputes'[b].status # "none"

\* A transaction that writes DISPUTED only where a dispute is makes no row
\* disputed without one.
LEMMA EndCarries ==
    ASSUME TypeInv, NEW w \in Workers, NEW b \in Bookings, NEW outcome, NEW moved,
           NEW row, NEW told, NEW booked, End(w, b, outcome, moved, row, told, booked),
           outcome = "commit" /\ row.status = "disputed" =>
              rows[b].status = "disputed" \/ disputes'[b].status # "none"
    PROVE  DisputedWithDispute
  BY DEF DisputedWithDispute, End, TypeInv, TypeOK

\* No end of a request makes a dispute disappear.
LEMMA CommitsKeepDisputes ==
    ASSUME TypeInv, DisputeInv, NEW w \in Workers, Commits(w)
    PROVE  DisputesRemain
  <1> DEFINE j == job[w]
             negotiated == SaveDispute(disputes[j.b], j.dseen, j.dmem)
  <1>1. ASSUME disputes' = [disputes EXCEPT ![j.b] = negotiated],
               j # Idle, j.op \in {"propose", "reject", "accept", "adminResolve"}
        PROVE  DisputesRemain
    <2>1. j.dmem.status # "none"
      BY <1>1 DEF DisputeInv, DisputeCopies
    <2>2. disputes[j.b].status # "none" => negotiated.status # "none"
      BY <2>1 DEF SaveDispute, Column
    <2> HIDE DEF negotiated, j
    <2> QED BY <1>1, <2>2 DEF DisputesRemain, TypeInv, TypeOK
  <1>2. CASE CommitNegotiation(w)
    <2>1. j # Idle /\ j.op \in {"propose", "reject"}
      BY <1>2, BusyAt DEF CommitNegotiation
    <2>2. disputes' = [disputes EXCEPT ![j.b] = negotiated]
      BY <1>2 DEF CommitNegotiation
    <2> QED BY <1>1, <2>1, <2>2
  <1>3. CASE CommitResolution(w)
    <2>1. j # Idle /\ j.phase = "resolving"
      BY <1>3 DEF CommitResolution, Idle
    <2>2. j.op \in {"propose", "reject", "accept", "adminResolve"}
      BY <2>1, DisputeJobType
    <2>3. disputes' = [disputes EXCEPT ![j.b] = negotiated] \/ disputes' = disputes
      BY <1>3 DEF CommitResolution
    <2> QED BY <1>1, <2>1, <2>2, <2>3 DEF DisputesRemain
  <1>4. CASE CommitReportDamage(w)
    <2>1. \/ disputes' = disputes
          \/ disputes' = [disputes EXCEPT ![j.b] = [NoDispute EXCEPT !.status = "open"]]
      BY <1>4 DEF CommitReportDamage
    <2>2. [NoDispute EXCEPT !.status = "open"].status = "open"
      BY DEF NoDispute
    <2> HIDE DEF j
    <2> QED BY <2>1, <2>2 DEF DisputesRemain, TypeInv, TypeOK
  <1>5. CASE UNCHANGED disputes
    BY <1>5 DEF DisputesRemain
  <1> QED BY <1>2, <1>3, <1>4, <1>5 DEF Commits, CommitCreate, CommitApprove, CommitDecline,
         CommitCancel, CommitHandover, CommitScheduleReturn, CommitConfirmReturn,
         CommitInspect, CommitRequestExtension, CommitApproveExtension,
         CommitCloseExtension, EndStatusOnly, EndOneStep

\* No end of a request makes a row disputed without a dispute: a stale copy
\* that is saved as DISPUTED has its dispute already.
LEMMA CommitsCarry ==
    ASSUME TypeInv, DisputeInv, NEW w \in Workers, Commits(w)
    PROVE  DisputedWithDispute
  <1> DEFINE j == job[w]
  <1>1. CASE CommitCreate(w)
    <2>1. j # Idle /\ j.op = "create"
      BY <1>1, BusyAt DEF CommitCreate
    <2>2. j.b \in Bookings /\ j.mem \in Row /\ j.mem.status = "pending"
      BY <2>1, JobKinds DEF TypeInv, WellFormed, GoodJob, BookingJob
    <2>3. To(j.mem, "confirmed", "reserved").status = "confirmed"
      BY <2>2, ToType, StagesAre DEF Statuses
    <2>4. PICK row, outcome, moved, told, booked :
            /\ row \in {To(j.mem, "confirmed", "reserved"), j.mem}
            /\ End(w, j.b, outcome, moved, row, told, booked)
      BY <1>1 DEF CommitCreate
    <2>5. row.status # "disputed"
      BY <2>2, <2>3, <2>4
    <2> QED BY <2>2, <2>4, <2>5, EndCarries
  <1>2. CASE CommitApprove(w) \/ CommitHandover(w) \/ CommitInspect(w)
    <2>1. j.b \in Bookings /\ j.mem \in Row
      BY <1>2, BookingJobType DEF CommitApprove, CommitHandover, CommitInspect
    <2>2. PICK row, outcome, moved, told, booked :
            /\ row \in {To(j.mem, "confirmed", "reserved"), To(j.mem, "confirmed", "active"),
                        To(j.mem, "completed", "completed")}
            /\ End(w, j.b, outcome, moved, row, told, booked)
      BY <1>2 DEF CommitApprove, CommitHandover, CommitInspect
    <2>3. row.status # "disputed"
      BY <2>1, <2>2, ToType, StagesAre DEF Statuses
    <2> QED BY <2>1, <2>2, <2>3, EndCarries
  <1>3. CASE CommitDecline(w) \/ CommitCancel(w)
    <2>1. j.b \in Bookings /\ j.mem \in Row /\ rows[j.b] \in Row
      BY <1>3, BookingJobType DEF CommitDecline, CommitCancel
    <2>2. PICK status, moved :
            status \in {"declined", "cancelled"} /\ EndStatusOnly(w, status, moved)
      <3>1. CASE CommitDecline(w)
        <4>1. EndStatusOnly(w, "declined", Nothing)
          BY <3>1 DEF CommitDecline
        <4>2. "declined" \in {"declined", "cancelled"}
          OBVIOUS
        <4> QED BY <4>1, <4>2
      <3>2. CASE CommitCancel(w)
        <4>1. PICK moved : EndStatusOnly(w, "cancelled", moved)
          BY <3>2 DEF CommitCancel
        <4>2. "cancelled" \in {"declined", "cancelled"}
          OBVIOUS
        <4> QED BY <4>1, <4>2
      <3> QED BY <1>3, <3>1, <3>2
    <2> DEFINE mem == [j.mem EXCEPT !.status = status]
               row == Save(rows[j.b], j.seen, mem)
    <2>3. row.status \in {"declined", "cancelled", rows[j.b].status}
      <3>1. mem.status = status
        BY <2>1 DEF Row
      <3>2. row.status \in {mem.status, rows[j.b].status}
        BY <2>1 DEF Save, Column, Row
      <3> QED BY <2>2, <3>1, <3>2
    <2>4. PICK outcome, told : End(w, j.b, outcome, moved, row, told, moved)
      BY <2>2 DEF EndStatusOnly
    <2> HIDE DEF row, mem
    <2> QED BY <2>1, <2>3, <2>4, EndCarries
  <1>4. CASE CommitScheduleReturn(w) \/ CommitConfirmReturn(w)
    <2>1. j.b \in Bookings /\ j.mem \in Row /\ rows[j.b] \in Row
      BY <1>4, BookingJobType DEF CommitScheduleReturn, CommitConfirmReturn
    <2>2. PICK stage \in {"returnsched", "returned"} : EndOneStep(w, stage)
      BY <1>4 DEF CommitScheduleReturn, CommitConfirmReturn
    <2> DEFINE mem == To(j.mem, "confirmed", stage)
               row == Save(rows[j.b], j.seen, mem)
    <2>3. row.status \in {"confirmed", rows[j.b].status}
      <3>1. mem.status = "confirmed"
        BY <2>1, ToType, StagesAre DEF Statuses
      <3>2. row.status \in {mem.status, rows[j.b].status}
        BY <2>1 DEF Save, Column, Row
      <3> QED BY <3>1, <3>2
    <2>4. PICK outcome, told : End(w, j.b, outcome, Nothing, row, told, Nothing)
      BY <2>2 DEF EndOneStep
    <2> HIDE DEF row, mem
    <2> QED BY <2>1, <2>3, <2>4, EndCarries
  <1>5. CASE CommitReportDamage(w)
    <2>1. j.b \in Bookings
      BY <1>5, BookingJobType DEF CommitReportDamage
    <2>2. PICK result, row, told :
            /\ End(w, j.b, result, Nothing, row, told, Nothing)
            /\ result = "commit" => disputes' =
                  [disputes EXCEPT ![j.b] = [NoDispute EXCEPT !.status = "open"]]
      BY <1>5 DEF CommitReportDamage
    <2>3. [NoDispute EXCEPT !.status = "open"].status = "open"
      BY DEF NoDispute
    <2>4. result = "commit" => disputes'[j.b].status # "none"
      BY <2>1, <2>2, <2>3 DEF TypeInv, TypeOK
    <2> QED BY <2>1, <2>2, <2>4, EndCarries
  <1>6. CASE CommitResolution(w)
    <2>1. j # Idle /\ j.phase = "resolving"
      BY <1>6 DEF CommitResolution, Idle
    <2>2. j.b \in Bookings /\ j.mem \in Row
      BY <2>1, DisputeJobType
    <2> DEFINE row == To(j.mem, "completed", "completed")
    <2>3. row.status # "disputed"
      BY <2>2, ToType, StagesAre DEF Statuses
    <2>4. PICK outcome, moved, told, booked : End(w, j.b, outcome, moved, row, told, booked)
      BY <1>6 DEF CommitResolution
    <2> HIDE DEF row
    <2> QED BY <2>2, <2>3, <2>4, EndCarries
  <1>7. CASE CommitApproveExtension(w)
    <2> DEFINE mem == [j.mem EXCEPT !.to = j.ext.newEnd,
                                    !.rental = @ + j.ext.rental,
                                    !.service = @ + j.ext.service]
               row == Save(rows[j.b], j.seen, mem)
    <2>1. j # Idle /\ j.op = "approveExtension" /\ j.phase = "selected"
      BY <1>7, BusyAt DEF CommitApproveExtension
    <2>2. j.b \in Bookings /\ rows[j.b] \in Row /\ j.mem \in Row
      BY <2>1, ExtensionJobType
    <2>3. row.status \in {j.mem.status, rows[j.b].status}
      BY <2>2 DEF Save, Column, Row
    <2>4. PICK outcome, moved, told : End(w, j.b, outcome, moved, row, told, moved)
      BY <1>7 DEF CommitApproveExtension
    <2>5. UNCHANGED disputes
      BY <1>7 DEF CommitApproveExtension
    <2>6. j.mem.status = "disputed" => disputes'[j.b].status # "none"
      BY <2>1, <2>5 DEF DisputeInv, DisputeCopies
    <2> HIDE DEF row, mem
    <2> QED BY <2>2, <2>3, <2>4, <2>6, EndCarries
  <1>8. CASE CommitNegotiation(w) \/ CommitRequestExtension(w) \/ CommitCloseExtension(w)
    BY <1>8 DEF CommitNegotiation, CommitRequestExtension, CommitCloseExtension,
       DisputedWithDispute
  <1> QED BY <1>1, <1>2, <1>3, <1>4, <1>5, <1>6, <1>7, <1>8 DEF Commits

\* A request is taken up, goes on or is given up, with copies that keep the
\* invariant.
LEMMA StartKeepsDisputeInv ==
    ASSUME TypeInv, DisputeInv, NEW w \in Workers, NEW request,
           Start(w, request) \/ Proceed(w, request),
           request # Idle => /\ request.op = "approveExtension" /\ request.mem.status = "disputed"
                               => disputes[request.b].status # "none"
                             /\ request.op \in {"propose", "reject", "accept", "adminResolve"}
                               => request.dmem.status # "none"
    PROVE  DisputeInv'
  <1>1. UNCHANGED <<rows, disputes>> /\ job' = [job EXCEPT ![w] = request]
    BY DEF Start, Proceed, tables
  <1>2. DisputedHasDispute'
    BY <1>1 DEF DisputeInv, DisputedHasDispute
  <1>3. DisputeCopies'
    BY <1>1 DEF DisputeInv, DisputeCopies, TypeInv, TypeOK
  <1> QED BY <1>2, <1>3 DEF DisputeInv

\* Every read of a request preserves the dispute invariant.
LEMMA LoadsKeepDisputeInv ==
    ASSUME TypeInv, DisputeInv, NEW w \in Workers, Loads(w)
    PROVE  DisputeInv'
  <1>1. ASSUME NEW op \in {"approve", "decline", "cancel", "handover", "scheduleReturn",
                          "confirmReturn", "inspect", "reportDamage"},
               NEW b \in Bookings, Load(w, op, b)
        PROVE  DisputeInv'
    BY <1>1, StartKeepsDisputeInv DEF Load
  <1>2. ASSUME NEW op \in {"propose", "reject", "accept", "adminResolve"},
               NEW b \in Bookings, NEW statuses, NEW dmem, dmem.status # "none",
               LoadDispute(w, op, b, statuses, dmem)
        PROVE  DisputeInv'
    BY <1>2, StartKeepsDisputeInv DEF LoadDispute
  <1>3. ASSUME NEW op \in {"requestExtension", "declineExtension", "cancelExtension"},
               NEW e, NEW ext, NEW mem, LoadExtension(w, op, e, ext, mem)
        PROVE  DisputeInv'
    BY <1>3, StartKeepsDisputeInv DEF LoadExtension
  <1>4. CASE LoadCreate(w)
    BY <1>4, StartKeepsDisputeInv DEF LoadCreate
  <1>5. CASE \/ LoadApprove(w) \/ LoadDecline(w) \/ LoadCancel(w) \/ LoadHandover(w)
             \/ LoadScheduleReturn(w) \/ LoadConfirmReturn(w) \/ LoadInspect(w)
             \/ LoadReportDamage(w)
    BY <1>5, <1>1 DEF LoadApprove, LoadDecline, LoadCancel, LoadHandover,
         LoadScheduleReturn, LoadConfirmReturn, LoadInspect, LoadReportDamage, LoadAtStage
  <1>6. CASE LoadPropose(w) \/ LoadReject(w) \/ LoadAccept(w) \/ LoadAdminResolve(w)
    <2>1. \A b \in Bookings, amount \in 0..Deposit :
            /\ [disputes[b] EXCEPT !.status = "proposed", !.proposed = amount].status
                 = "proposed"
            /\ [disputes[b] EXCEPT !.status = "contested"].status = "contested"
            /\ [disputes[b] EXCEPT !.status = "resolved", !.resolution = "agreed",
                                   !.final = disputes[b].proposed].status = "resolved"
            /\ [disputes[b] EXCEPT !.status = "resolved", !.resolution = "admin_decided",
                                   !.final = amount].status = "resolved"
      BY DEF TypeInv, TypeOK, Dispute
    <2>2. 0 \in 0..Deposit
      BY RatesAssumption
    <2>3. CASE LoadPropose(w)
      BY <1>2, <2>1, <2>3 DEF LoadPropose
    <2>4. CASE LoadReject(w)
      BY <1>2, <2>1, <2>2, <2>4 DEF LoadReject
    <2>5. CASE LoadAccept(w)
      BY <1>2, <2>1, <2>2, <2>5 DEF LoadAccept
    <2>6. CASE LoadAdminResolve(w)
      BY <1>2, <2>1, <2>6 DEF LoadAdminResolve
    <2> QED BY <1>6, <2>3, <2>4, <2>5, <2>6
  <1>7. CASE LoadRequestExtension(w) \/ LoadCloseExtension(w)
    BY <1>7, <1>3 DEF LoadRequestExtension, LoadCloseExtension
  <1>8. CASE FindExtension(w)
    <2>1. NoRow.status # "disputed"
      BY DEF NoRow
    <2> QED BY <1>8, <2>1, StartKeepsDisputeInv DEF FindExtension
  <1> QED BY <1>4, <1>5, <1>6, <1>7, <1>8 DEF Loads

\* Every select of a save preserves the dispute invariant.
LEMMA SelectsKeepDisputeInv ==
    ASSUME TypeInv, DisputeInv, NEW w \in Workers, Selects(w)
    PROVE  DisputeInv'
  <1> DEFINE j == job[w]
  <1>1. j # Idle
    BY DEF Selects, SelectRow, SelectDispute, LockDispute, LoadApproveExtension, At, Idle
  <1>2. j \in Job
    BY <1>1, JobKinds DEF TypeInv
  <1>3. /\ j.op = "approveExtension" /\ j.mem.status = "disputed" =>
             disputes[j.b].status # "none"
        /\ j.op \in {"propose", "reject", "accept", "adminResolve"} =>
             j.dmem.status # "none"
    BY <1>1 DEF DisputeInv, DisputeCopies
  <1>4. CASE SelectRow(w)
    <2>1. Proceed(w, [j EXCEPT !.phase = "selected", !.seen = rows[j.b]])
      BY <1>4 DEF SelectRow
    <2> QED BY <1>2, <1>3, <2>1, StartKeepsDisputeInv
          DEF Job, BookingJob, ExtensionJob, DisputeJob
  <1>5. CASE SelectDispute(w)
    <2>1. Proceed(w, [j EXCEPT !.phase = "selected", !.dseen = disputes[j.b]])
      BY <1>5 DEF SelectDispute
    <2> QED BY <1>2, <1>3, <2>1, StartKeepsDisputeInv
          DEF Job, BookingJob, ExtensionJob, DisputeJob
  <1>6. CASE LockDispute(w)
    <2>1. Proceed(w, [j EXCEPT !.phase = "resolving", !.mem = rows[j.b]])
      BY <1>6 DEF LockDispute
    <2>2. j.op \in {"accept", "adminResolve"}
      BY <1>6 DEF LockDispute, At
    <2> QED BY <1>2, <1>3, <2>1, <2>2, StartKeepsDisputeInv
          DEF Job, BookingJob, ExtensionJob, DisputeJob
  <1>7. CASE LoadApproveExtension(w)
    <2> DEFINE request == [j EXCEPT !.phase = "loaded", !.mem = rows[j.b]]
    <2>1. j.op = "approveExtension" /\ j \in ExtensionJob /\ j.b \in Bookings
      BY <1>7, <1>1, JobKinds DEF LoadApproveExtension, At, TypeInv
    <2>2. request.op = "approveExtension" /\ request.b = j.b /\ request.mem = rows[j.b]
      BY <2>1 DEF ExtensionJob
    <2>3. rows[j.b].status = "disputed" => disputes[j.b].status # "none"
      BY <2>1 DEF DisputeInv, DisputedHasDispute
    <2>4. Proceed(w, request) \/ Proceed(w, Idle)
      BY <1>7 DEF LoadApproveExtension
    <2> HIDE DEF request
    <2> QED BY <2>2, <2>3, <2>4, StartKeepsDisputeInv
  <1> QED BY <1>4, <1>5, <1>6, <1>7 DEF Selects

\* Every end of a request preserves the dispute invariant.
LEMMA CommitsKeepDisputeInv ==
    ASSUME TypeInv, DisputeInv, NEW w \in Workers, Commits(w)
    PROVE  DisputeInv'
  <1>1. DisputesRemain /\ DisputedWithDispute
    BY CommitsKeepDisputes, CommitsCarry
  <1>2. job' = [job EXCEPT ![w] = Idle]
    BY DEF Commits, CommitCreate, CommitApprove, CommitDecline, CommitCancel,
       CommitHandover, CommitScheduleReturn, CommitConfirmReturn, CommitInspect,
       CommitReportDamage, CommitNegotiation, CommitResolution, CommitRequestExtension,
       CommitApproveExtension, CommitCloseExtension, EndStatusOnly, EndOneStep, End
  <1>3. DisputedHasDispute'
    BY <1>1 DEF DisputeInv, DisputedHasDispute, DisputesRemain, DisputedWithDispute
  <1>4. DisputeCopies'
    <2>1. SUFFICES ASSUME NEW v \in Workers, job'[v] # Idle
                   PROVE  /\ job'[v].op = "approveExtension" /\ job'[v].mem.status = "disputed"
                               => disputes'[job'[v].b].status # "none"
                          /\ job'[v].op \in {"propose", "reject", "accept", "adminResolve"}
                               => job'[v].dmem.status # "none"
      BY DEF DisputeCopies
    <2>2. job'[v] = job[v] /\ job[v] # Idle
      BY <1>2, <2>1 DEF TypeInv, TypeOK
    <2>3. job[v].b \in Bookings
      BY <2>2, JobKinds DEF TypeInv
    <2> QED BY <1>1, <2>2, <2>3 DEF DisputeInv, DisputeCopies, DisputesRemain
  <1> QED BY <1>3, <1>4 DEF DisputeInv

\* A booking parked as DISPUTED always has a disputes row: it can be resolved
\* through DisputeService, however stale the copy that made it disputed.
THEOREM NoStrandedDispute == Spec => []DisputedHasDispute
  <1>1. Init => DisputeInv
    BY DEF Init, DisputeInv, DisputedHasDispute, DisputeCopies, NoRow
  <1>2. TypeInv /\ DisputeInv /\ [Next]_vars => DisputeInv'
    <2> SUFFICES ASSUME TypeInv, DisputeInv, [Next]_vars PROVE DisputeInv'
      OBVIOUS
    <2>1. CASE UNCHANGED vars
      BY <2>1 DEF vars, DisputeInv, DisputedHasDispute, DisputeCopies
    <2>2. CASE SaveProfile
      BY <2>2 DEF SaveProfile, tables, DisputeInv, DisputedHasDispute, DisputeCopies
    <2> QED BY <2>1, <2>2, LoadsKeepDisputeInv, SelectsKeepDisputeInv, CommitsKeepDisputeInv
          DEF Next
  <1>3. DisputeInv => DisputedHasDispute
    BY DEF DisputeInv
  <1> QED BY <1>1, <1>2, <1>3, TypeCorrect, PTL DEF Spec

---------------------------------------------------------------------------
(* Bookings handled one request at a time, whatever requests are lost:     *)
(* until a request begins while another is in progress (overlaps = 0),     *)
(* status, stage, dispute, history and ledger of a booking tell one story. *)
(*                                                                         *)
(* The properties are not inductive.  SerialInv adds what makes them so:   *)
(* the request in progress is alone, its copies are what the tables hold,  *)
(* and what its checks found is still the case.                            *)

\* The pairs of status and stage that StatusFitsStage allows.
Fits(status, stage) ==
    \/ status = "pending" /\ stage = "requested"
    \/ status = "declined" /\ stage = "requested"
    \/ status = "cancelled" /\ stage \in {"requested", "reserved"}
    \/ status = "confirmed" /\ stage \in {"reserved", "active", "returnsched", "returned"}
    \/ status = "disputed" /\ stage = "inspected"
    \/ status = "completed" /\ stage = "completed"

Unresolved(d) == d.status \notin {"none", "resolved"}

\* A booking's row, its ledger entries and its dispute tell one story.
Coheres(row, entries, d) ==
    /\ row.status = "disputed" <=> Unresolved(d)
    /\ entries.release + entries.forfeit = IF row.status = "completed" THEN Deposit ELSE 0
    /\ row.status # "completed" => entries.earning = 0
    /\ row.status = "absent" => entries.charge = 0
    /\ row.status # "absent" =>
         /\ Fits(row.status, row.stage)
         /\ entries.charge = IF row.stage = "requested" THEN 0 ELSE Total(row)

\* The stages of a booking whose item has been handed over.
Rented == {"active", "returnsched", "returned", "inspected", "completed"}

\* What holds of the tables between two requests.
TablesCohere ==
    /\ \A b \in Bookings : Coheres(rows[b], ledger[b], disputes[b])
    /\ \A e \in Extensions : exts[e].status # "absent" => rows[exts[e].b].stage \in Rented
    /\ HistoryMatchesRow

\* The check that let a request on this row begin.
Checked(op, row) ==
    /\ op = "create" => row.status = "absent"
    /\ op \in {"approve", "decline"} => row.status = "pending"
    /\ op = "cancel" => row.stage \in BeforePickup /\ row.status # "cancelled"
    /\ op = "handover" => row.stage \in {"reserved", "ready"}
    /\ op = "scheduleReturn" => row.stage = "active"
    /\ op = "confirmReturn" => row.stage \in {"returnsched", "active"}
    /\ op \in {"inspect", "reportDamage"} => row.stage = "returned"
    /\ op = "requestExtension" => row.stage = "active"

ChangeOps == {"approve", "decline", "cancel", "handover", "scheduleReturn",
              "confirmReturn", "inspect", "reportDamage"}
Negotiations == {"propose", "reject"}
Decisions == {"accept", "adminResolve"}
OnPending == {"approveExtension", "declineExtension", "cancelExtension"}

\* A request in progress has copies of what the tables hold.
FreshJob(j) ==
    /\ Checked(j.op, rows[j.b])
    /\ j.op = "create" => j.mem.stage = "requested"
    /\ \/ j.op \in ChangeOps
       \/ j.op = "approveExtension" /\ j.phase # "found"
       \/ j.phase = "resolving"
       => j.mem = rows[j.b]
    /\ (j.op \in ChangeOps \/ j.op = "approveExtension") /\ j.phase = "selected" =>
         j.seen = rows[j.b]
    /\ j.op \in Negotiations \cup Decisions =>
         /\ Unresolved(disputes[j.b])
         /\ j.phase # "loaded" => j.dseen = disputes[j.b]
         /\ Unresolved(j.dmem) <=> j.op \in Negotiations
    /\ j.phase = "resolving" => j.op \in Decisions
    /\ j.op = "requestExtension" => exts[j.e] = NoExtension
    /\ j.op \in OnPending => exts[j.e].status = "pending" /\ exts[j.e].b = j.b

Alone == \A v, w \in Workers : job[v] # Idle /\ job[w] # Idle => v = w

SerialInv ==
    overlaps = 0 => /\ Alone
                    /\ TablesCohere
                    /\ \A w \in Workers : job[w] # Idle => FreshJob(job[w])

---------------------------------------------------------------------------
(* Data. *)

\* The positions of BOOKING_STAGE_ORDER.
LEMMA StageOrderIs ==
    /\ StageOrder["requested"] = 1 /\ StageOrder["accepted"] = 2
    /\ StageOrder["payment"] = 3 /\ StageOrder["reserved"] = 4
    /\ StageOrder["ready"] = 5 /\ StageOrder["pickedup"] = 6
    /\ StageOrder["active"] = 7 /\ StageOrder["returnsched"] = 8
    /\ StageOrder["returned"] = 9 /\ StageOrder["inspected"] = 10
    /\ StageOrder["depositreleased"] = 11 /\ StageOrder["completed"] = 12
  BY DEF StageOrder

\* A fresh copy is saved as it is.
LEMMA SaveFresh ==
    ASSUME NEW row \in Row, NEW mem \in Row,
           mem.unit = row.unit, mem.from = row.from, mem.mode = row.mode
    PROVE  Save(row, row, mem) = mem
  BY DEF Save, Column, Row

\* ... and so is a fresh copy of a dispute.
LEMMA SaveDisputeFresh ==
    ASSUME NEW d \in Dispute, NEW mem \in Dispute
    PROVE  SaveDispute(d, d, mem) = mem
  BY DEF SaveDispute, Column, Dispute

\* A booking that moves on coheres again if it is charged when it leaves the
\* first stage, and settled when it is completed.
LEMMA MoveCoheres ==
    ASSUME NEW row \in Row, NEW entries \in Amounts, NEW booked \in Amounts, NEW d, NEW e,
           NEW status \in Statuses, NEW stage \in Stages,
           Coheres(row, entries, d), row.status # "completed", Fits(status, stage),
           status = "disputed" <=> Unresolved(e),
           booked.release + booked.forfeit = IF status = "completed" THEN Deposit ELSE 0,
           status # "completed" => booked.earning = 0,
           booked.charge = IF row.stage = "requested" /\ stage # "requested"
                           THEN Total(row) ELSE 0,
           stage = "requested" => row.stage = "requested"
    PROVE  Coheres(To(row, status, stage), Plus(entries, booked), e)
  <1> DEFINE new == To(row, status, stage)
             sum == Plus(entries, booked)
  <1>1. /\ new \in Row /\ new.status = status /\ new.stage = stage
        /\ Total(new) = Total(row)
    BY ToType DEF Total
  <1>2. /\ sum.charge = entries.charge + booked.charge
        /\ sum.release = entries.release + booked.release
        /\ sum.forfeit = entries.forfeit + booked.forfeit
        /\ sum.earning = entries.earning + booked.earning
    BY DEF Plus
  <1>3. /\ \A x \in {entries, booked} : /\ x.charge \in Nat /\ x.release \in Nat
                                        /\ x.forfeit \in Nat /\ x.earning \in Nat
        /\ Total(row) \in Nat /\ Deposit \in Nat
    BY RowFields, RatesAssumption DEF Amounts
  <1>4. row.status # "absent" /\ status # "absent"
    BY DEF Row, Statuses
  <1> HIDE DEF new, sum
  <1>5. sum.release + sum.forfeit = IF status = "completed" THEN Deposit ELSE 0
    BY <1>2, <1>3 DEF Coheres
  <1>6. status # "completed" => sum.earning = 0
    BY <1>2, <1>3 DEF Coheres
  <1>7. sum.charge = IF stage = "requested" THEN 0 ELSE Total(row)
    BY <1>2, <1>3, <1>4 DEF Coheres
  <1>8. Coheres(new, sum, e)
    BY <1>1, <1>4, <1>5, <1>6, <1>7 DEF Coheres
  <1> QED BY <1>8 DEF new, sum

---------------------------------------------------------------------------
(* The end of a request. *)

\* The step that moves a booking on: its row, history, ledger and dispute.
Turn(b, row, booked, d) ==
    /\ rows' = [rows EXCEPT ![b] = row]
    /\ trail' = [trail EXCEPT ![b] = <<row.status, row.stage>>]
    /\ ledger' = [ledger EXCEPT ![b] = Plus(@, booked)]
    /\ disputes' = [disputes EXCEPT ![b] = d]
    /\ UNCHANGED exts
    /\ Coheres(row, Plus(ledger[b], booked), d)
    /\ Exists(b) => StageOrder[row.stage] >= StageOrder[rows[b].stage]
    /\ row.status = "completed" => booked.earning = row.rental

\* The step that prolongs a rental: its end, fees and charge.
Prolong(b, row, booked, e) ==
    /\ rows' = [rows EXCEPT ![b] = row]
    /\ \E told : trail' = [trail EXCEPT ![b] = told]
    /\ ledger' = [ledger EXCEPT ![b] = Plus(@, booked)]
    /\ UNCHANGED disputes
    /\ exts' = [exts EXCEPT ![e].status = "approved"]
    /\ exts[e] \in Extension /\ exts[e].b = b
    /\ Coheres(row, Plus(ledger[b], booked), disputes[b])
    /\ row.stage = rows[b].stage /\ row.status = rows[b].status

\* The step that touches a dispute, or an extension request, and no booking.
Aside ==
    /\ UNCHANGED <<rows, trail, ledger>>
    /\ \/ /\ UNCHANGED exts
          /\ \E b \in Bookings : \E d :
                /\ disputes' = [disputes EXCEPT ![b] = d]
                /\ Unresolved(disputes[b]) /\ Unresolved(d)
       \/ /\ UNCHANGED disputes
          /\ \E e \in Extensions, ext \in Extension :
                /\ exts' = [exts EXCEPT ![e] = ext]
                /\ exts[e].status # "approved"
                /\ rows[ext.b].stage \in Rented

\* How a request alone may end.
Ended ==
    \/ UNCHANGED tables
    \/ \E b \in Bookings : \E row \in Row, booked \in Amounts : \E d : Turn(b, row, booked, d)
    \/ \E b \in Bookings, e \in Extensions : \E row \in Row, booked \in Amounts :
          Prolong(b, row, booked, e)
    \/ Aside

\* A booking that moves on from a rented stage is still in one.
LEMMA RentedStays ==
    ASSUME NEW stage \in Rented, NEW status, NEW later, Fits(status, later),
           StageOrder[later] >= StageOrder[stage]
    PROVE  later \in Rented
  BY StageOrderIs DEF Fits, Rented

\* Between requests the tables cohere again.
LEMMA EndedCoheres ==
    ASSUME TypeInv, TablesCohere, Ended
    PROVE  TablesCohere'
  <1>1. CASE UNCHANGED tables
    BY <1>1 DEF tables, TablesCohere, HistoryMatchesRow, Exists
  <1>2. ASSUME NEW b \in Bookings, NEW row \in Row, NEW booked \in Amounts, NEW d,
               Turn(b, row, booked, d)
        PROVE  TablesCohere'
    <2>1. /\ rows'[b] = row /\ trail'[b] = <<row.status, row.stage>>
          /\ ledger'[b] = Plus(ledger[b], booked) /\ disputes'[b] = d /\ exts' = exts
          /\ \A c \in Bookings \ {b} : /\ rows'[c] = rows[c] /\ trail'[c] = trail[c]
                                       /\ ledger'[c] = ledger[c] /\ disputes'[c] = disputes[c]
      BY <1>2 DEF Turn, TypeInv, TypeOK
    <2>2. \A c \in Bookings : Coheres(rows'[c], ledger'[c], disputes'[c])
      BY <1>2, <2>1 DEF Turn, TablesCohere
    <2>3. ASSUME NEW e \in Extensions, exts[e].status # "absent"
          PROVE  rows'[exts[e].b].stage \in Rented
      <3>1. exts[e].b \in Bookings /\ Exists(exts[e].b)
        BY <2>3 DEF TypeInv, TypeOK, WellFormed, Extension, NoExtension
      <3>2. rows[exts[e].b].stage \in Rented
        BY <2>3 DEF TablesCohere
      <3>3. CASE exts[e].b = b
        <4>1. Fits(row.status, row.stage)
          BY <1>2 DEF Turn, Coheres, Row, Statuses
        <4>2. StageOrder[row.stage] >= StageOrder[rows[b].stage]
          BY <1>2, <3>1, <3>3 DEF Turn
        <4> QED BY <2>1, <3>2, <3>3, <4>1, <4>2, RentedStays
      <3> QED BY <2>1, <3>1, <3>2, <3>3
    <2>4. HistoryMatchesRow'
      BY <2>1 DEF TablesCohere, HistoryMatchesRow, Exists
    <2> QED BY <2>1, <2>2, <2>3, <2>4 DEF TablesCohere
  <1>3. ASSUME NEW b \in Bookings, NEW e \in Extensions, NEW row \in Row,
               NEW booked \in Amounts, Prolong(b, row, booked, e)
        PROVE  TablesCohere'
    <2>1. /\ rows'[b] = row /\ ledger'[b] = Plus(ledger[b], booked) /\ disputes' = disputes
          /\ \A c \in Bookings \ {b} : /\ rows'[c] = rows[c] /\ trail'[c] = trail[c]
                                       /\ ledger'[c] = ledger[c]
      BY <1>3 DEF Prolong, TypeInv, TypeOK
    <2>2. /\ exts'[e].status = "approved" /\ exts'[e].b = b
          /\ \A x \in Extensions \ {e} : exts'[x] = exts[x]
          /\ exts[e].status # "absent" /\ exts[e].b = b
      BY <1>3 DEF Prolong, TypeInv, TypeOK, Extension, ExtensionStatuses
    <2>3. \A c \in Bookings : Coheres(rows'[c], ledger'[c], disputes'[c])
      BY <1>3, <2>1 DEF Prolong, TablesCohere
    <2>4. \A c \in Bookings : rows'[c].stage = rows[c].stage /\ rows'[c].status = rows[c].status
      BY <1>3, <2>1 DEF Prolong
    <2>5. ASSUME NEW x \in Extensions, exts'[x].status # "absent"
          PROVE  rows'[exts'[x].b].stage \in Rented
      <3>1. exts[x].status # "absent" /\ exts'[x].b = exts[x].b
        BY <2>2, <2>5
      <3>2. exts[x].b \in Bookings
        BY <3>1 DEF TypeInv, TypeOK, Extension, NoExtension
      <3> QED BY <2>4, <3>1, <3>2 DEF TablesCohere
    <2>6. HistoryMatchesRow'
      <3> SUFFICES ASSUME NEW c \in Bookings, rows'[c].status # "absent",
                          \A x \in Extensions : exts'[x].status = "approved" =>
                                                exts'[x].b # c
                   PROVE  trail'[c] = <<rows'[c].status, rows'[c].stage>>
        BY DEF HistoryMatchesRow, Exists
      <3>1. c # b
        BY <2>2
      <3>2. \A x \in Extensions : exts[x].status = "approved" => exts[x].b # c
        BY <2>2, <3>1
      <3> QED BY <2>1, <3>1, <3>2 DEF TablesCohere, HistoryMatchesRow, Exists
    <2> QED BY <2>3, <2>5, <2>6 DEF TablesCohere
  <1>4. CASE Aside
    <2>1. rows' = rows /\ trail' = trail /\ ledger' = ledger
      BY <1>4 DEF Aside
    <2>2. CASE UNCHANGED exts /\ \E b \in Bookings : \E d :
                  /\ disputes' = [disputes EXCEPT ![b] = d]
                  /\ Unresolved(disputes[b]) /\ Unresolved(d)
      <3>1. \A c \in Bookings : Unresolved(disputes'[c]) <=> Unresolved(disputes[c])
        BY <2>2 DEF TypeInv, TypeOK
      <3>2. \A c \in Bookings : Coheres(rows'[c], ledger'[c], disputes'[c])
        BY <2>1, <3>1 DEF TablesCohere, Coheres
      <3> QED BY <2>1, <2>2, <3>2 DEF TablesCohere, HistoryMatchesRow, Exists
    <2>3. CASE UNCHANGED disputes /\ \E e \in Extensions, ext \in Extension :
                  /\ exts' = [exts EXCEPT ![e] = ext]
                  /\ exts[e].status # "approved"
                  /\ rows[ext.b].stage \in Rented
      <3>1. PICK e \in Extensions, ext \in Extension :
                  /\ exts' = [exts EXCEPT ![e] = ext]
                  /\ exts[e].status # "approved"
                  /\ rows[ext.b].stage \in Rented
        BY <2>3
      <3>2. exts'[e] = ext /\ \A x \in Extensions \ {e} : exts'[x] = exts[x]
        BY <3>1 DEF TypeInv, TypeOK
      <3>3. \A x \in Extensions : exts[x].status = "approved" => exts'[x] = exts[x]
        BY <3>1, <3>2
      <3>4. HistoryMatchesRow'
        BY <2>1, <3>3 DEF TablesCohere, HistoryMatchesRow, Exists
      <3> QED BY <2>1, <2>3, <3>1, <3>2, <3>4 DEF TablesCohere
    <2> QED BY <1>4, <2>2, <2>3 DEF Aside
  <1> QED BY <1>1, <1>2, <1>3, <1>4 DEF Ended

\* The dispute becomes d if the transaction commits.
DisputeTo(b, outcome, d) ==
    disputes' = IF outcome = "commit" THEN [disputes EXCEPT ![b] = d] ELSE disputes

\* What a row may become ...
MayMove(row, status, stage) ==
    /\ row.status # "completed"
    /\ Fits(status, stage)
    /\ StageOrder[stage] >= StageOrder[row.stage]

\* ... and what is booked for it.
PaysFor(row, status, stage, booked) ==
    /\ booked.release + booked.forfeit = IF status = "completed" THEN Deposit ELSE 0
    /\ booked.earning = IF status = "completed" THEN row.rental ELSE 0
    /\ booked.charge = IF row.stage = "requested" /\ stage # "requested"
                       THEN Total(row) ELSE 0

\* A transaction that moves one booking, or rolls back.
LEMMA EndEnds ==
    ASSUME TypeInv, NEW w \in Workers, NEW b \in Bookings, NEW outcome, NEW moved,
           NEW row \in Row, NEW booked \in Amounts, NEW d,
           End(w, b, outcome, moved, row, <<row.status, row.stage>>, booked),
           UNCHANGED exts, DisputeTo(b, outcome, d),
           Coheres(row, Plus(ledger[b], booked), d),
           Exists(b) => StageOrder[row.stage] >= StageOrder[rows[b].stage],
           row.status = "completed" => booked.earning = row.rental
    PROVE  Ended
  <1>1. CASE outcome = "commit"
    BY <1>1 DEF End, Turn, Ended, DisputeTo
  <1>2. CASE outcome # "commit"
    BY <1>2 DEF End, Ended, tables, DisputeTo
  <1> QED BY <1>1, <1>2

\* A request on an existing booking that moves it on and leaves it a dispute d.
LEMMA MoveEnds ==
    ASSUME TypeInv, TablesCohere, NEW w \in Workers, NEW b \in Bookings, rows[b] \in Row,
           NEW outcome, NEW moved, NEW booked \in Amounts, NEW d,
           NEW status \in Statuses, NEW stage \in Stages, NEW row,
           row = To(rows[b], status, stage),
           End(w, b, outcome, moved, row, <<row.status, row.stage>>, booked),
           UNCHANGED exts, DisputeTo(b, outcome, d),
           MayMove(rows[b], status, stage), PaysFor(rows[b], status, stage, booked),
           status = "disputed" <=> Unresolved(d)
    PROVE  Ended
  <1>1. /\ row \in Row /\ row.status = status /\ row.stage = stage
        /\ row.rental = rows[b].rental
    BY ToType
  <1>2. Coheres(rows[b], ledger[b], disputes[b]) /\ ledger[b] \in Amounts
    BY DEF TablesCohere, TypeInv, TypeOK
  <1>3. stage = "requested" => rows[b].stage = "requested"
    <2>1. rows[b].stage \in Stages
      BY RowFields
    <2> QED BY <2>1, StagesAre, StageOrderIs DEF MayMove
  <1>4. Coheres(row, Plus(ledger[b], booked), d)
    BY <1>2, <1>3, MoveCoheres DEF MayMove, PaysFor
  <1>5. /\ StageOrder[row.stage] >= StageOrder[rows[b].stage]
        /\ row.status = "completed" => booked.earning = row.rental
    BY <1>1 DEF MayMove, PaysFor
  <1> QED BY <1>1, <1>4, <1>5, EndEnds

\* What a request alone in progress may rely on.
Serially(w) == TypeInv /\ TablesCohere /\ job[w] # Idle /\ FreshJob(job[w])

\* Its booking coheres.
LEMMA SerialRow ==
    ASSUME NEW w \in Workers, Serially(w), job[w].op # "create"
    PROVE  /\ job[w].b \in Bookings /\ rows[job[w].b] \in Row
           /\ disputes[job[w].b] \in Dispute
           /\ Coheres(rows[job[w].b], ledger[job[w].b], disputes[job[w].b])
           /\ Fits(rows[job[w].b].status, rows[job[w].b].stage)
           /\ rows[job[w].b].status = "disputed" <=> Unresolved(disputes[job[w].b])
           /\ disputes' = disputes =>
                disputes' = [disputes EXCEPT ![job[w].b] = disputes[job[w].b]]
  <1>1. job[w].b \in Bookings /\ GoodJob(job[w])
    BY JobKinds DEF Serially, TypeInv, WellFormed
  <1>2. rows[job[w].b] \in Row
    BY <1>1, RowExists DEF Serially, TypeInv, GoodJob
  <1>3. disputes[job[w].b] \in Dispute /\ Coheres(rows[job[w].b], ledger[job[w].b], disputes[job[w].b])
    BY <1>1 DEF Serially, TypeInv, TypeOK, TablesCohere
  <1>4. rows[job[w].b].status # "absent"
    BY <1>2 DEF Row, Statuses
  <1>5. disputes' = disputes =>
          disputes' = [disputes EXCEPT ![job[w].b] = disputes[job[w].b]]
    BY DEF Serially, TypeInv, TypeOK
  <1> QED BY <1>1, <1>2, <1>3, <1>4, <1>5 DEF Coheres

\* create inserts a row that coheres, charged if it is reserved at once.
LEMMA CreateEnds ==
    ASSUME NEW w \in Workers, Serially(w), CommitCreate(w)
    PROVE  Ended
  <1> DEFINE j == job[w]
             row == IF j.mem.mode = "instant" THEN To(j.mem, "confirmed", "reserved")
                                              ELSE j.mem
             charge == IF j.mem.mode = "instant" THEN Total(j.mem) ELSE 0
             charged == [Nothing EXCEPT !.charge = charge]
  <1>1. j # Idle /\ j.op = "create"
    BY BusyAt DEF CommitCreate
  <1>2. /\ j.b \in Bookings /\ j.mem \in Row /\ j.mem.status = "pending"
        /\ j.mem.stage = "requested" /\ rows[j.b].status = "absent"
    BY <1>1, JobKinds DEF Serially, TypeInv, WellFormed, GoodJob, BookingJob, FreshJob, Checked
  <1>3. PICK outcome :
          End(w, j.b, outcome, IF outcome = "rejected" THEN Nothing ELSE charged,
              row, <<row.status, row.stage>>, charged)
    BY DEF CommitCreate
  <1>4. UNCHANGED <<disputes, exts>>
    BY DEF CommitCreate
  <1>5. /\ row \in Row /\ Total(row) = Total(j.mem)
        /\ row.status = IF j.mem.mode = "instant" THEN "confirmed" ELSE "pending"
        /\ row.stage = IF j.mem.mode = "instant" THEN "reserved" ELSE "requested"
    BY <1>2, ToType, StagesAre DEF Statuses, Total
  <1>6. Total(j.mem) \in Nat /\ charge \in Nat
    BY <1>2, RowFields
  <1> HIDE DEF row, charge, j
  <1>7. charged \in Amounts /\ charged.charge = charge
        /\ charged.release = 0 /\ charged.forfeit = 0 /\ charged.earning = 0
    BY <1>6 DEF Nothing, Amounts
  <1> HIDE DEF charged
  <1>8. /\ ~Exists(j.b)
        /\ ledger[j.b] \in Amounts
        /\ Coheres(rows[j.b], ledger[j.b], disputes[j.b])
        /\ disputes' = [disputes EXCEPT ![j.b] = disputes[j.b]]
    BY <1>2, <1>4 DEF Exists, Serially, TablesCohere, TypeInv, TypeOK
  <1>9. Coheres(row, Plus(ledger[j.b], charged), disputes[j.b])
    <2>1. row.status # "absent" /\ row.status # "disputed" /\ row.status # "completed"
          /\ Fits(row.status, row.stage)
      BY <1>5 DEF Fits
    <2>2. /\ ledger[j.b].charge = 0 /\ ledger[j.b].earning = 0
          /\ ledger[j.b].release + ledger[j.b].forfeit = 0
          /\ ~Unresolved(disputes[j.b])
      BY <1>2, <1>8 DEF Coheres
    <2>3. /\ ledger[j.b].release \in Nat /\ ledger[j.b].forfeit \in Nat
      BY <1>8 DEF Amounts
    <2>4. /\ Plus(ledger[j.b], charged).charge = charge
          /\ Plus(ledger[j.b], charged).earning = 0
          /\ Plus(ledger[j.b], charged).release + Plus(ledger[j.b], charged).forfeit = 0
      BY <1>6, <1>7, <2>2, <2>3 DEF Plus
    <2>5. charge = IF row.stage = "requested" THEN 0 ELSE Total(row)
      BY <1>5 DEF charge
    <2> QED BY <2>1, <2>2, <2>4, <2>5 DEF Coheres
  <1>10. row.status # "completed"
    BY <1>5
  <1>11. UNCHANGED exts /\ DisputeTo(j.b, outcome, disputes[j.b])
    BY <1>4, <1>8 DEF DisputeTo
  <1>12. TypeInv
    BY DEF Serially
  <1> QED BY <1>2, <1>3, <1>5, <1>7, <1>8, <1>9, <1>10, <1>11, <1>12, EndEnds

\* setStatusOnly on a fresh copy moves the booking to that status.
LEMMA StatusOnlyEnds ==
    ASSUME NEW w \in Workers, Serially(w), NEW status \in {"declined", "cancelled"},
           NEW moved \in Amounts, EndStatusOnly(w, status, moved),
           job[w].op \in ChangeOps, job[w].phase = "selected",
           moved.release = 0, moved.forfeit = 0, moved.earning = 0, moved.charge = 0,
           Fits(status, rows[job[w].b].stage), rows[job[w].b].status # "completed"
    PROVE  Ended
  <1> DEFINE j == job[w]
             mem == [j.mem EXCEPT !.status = status]
             row == Save(rows[j.b], j.seen, mem)
  <1>1. job[w].op # "create"
    BY DEF ChangeOps
  <1>2. /\ j.b \in Bookings /\ rows[j.b] \in Row
        /\ rows[j.b].status = "disputed" <=> Unresolved(disputes[j.b])
        /\ disputes' = disputes => disputes' = [disputes EXCEPT ![j.b] = disputes[j.b]]
        /\ Fits(rows[j.b].status, rows[j.b].stage)
    BY <1>1, SerialRow
  <1>3. j.mem = rows[j.b] /\ j.seen = rows[j.b]
    BY DEF Serially, FreshJob
  <1>4. mem = To(rows[j.b], status, rows[j.b].stage)
    BY <1>2, <1>3 DEF To, Row
  <1>5. /\ rows[j.b].stage \in Stages /\ status \in Statuses
        /\ mem \in Row /\ mem.unit = rows[j.b].unit
        /\ mem.from = rows[j.b].from /\ mem.mode = rows[j.b].mode
    BY <1>2, <1>3 DEF Row, Statuses
  <1>6. row = mem
    BY <1>2, <1>3, <1>5, SaveFresh
  <1>7. PICK outcome :
          End(w, j.b, outcome, moved, row, <<mem.status, mem.stage>>, moved)
    BY DEF EndStatusOnly
  <1>8. UNCHANGED <<disputes, exts>>
    BY DEF EndStatusOnly
  <1> HIDE DEF row, mem, j
  <1>9. ~Unresolved(disputes[j.b])
    BY <1>2, SMT DEF Fits, j
  <1>10. StageOrder[rows[j.b].stage] \in Int
    BY <1>5, StagesAre, StageOrderIs
  <1>11. UNCHANGED exts /\ DisputeTo(j.b, outcome, disputes[j.b])
    BY <1>2, <1>8 DEF DisputeTo
  <1>12. /\ End(w, j.b, outcome, moved, row, <<row.status, row.stage>>, moved)
         /\ row = To(rows[j.b], status, rows[j.b].stage)
    BY <1>4, <1>6, <1>7
  <1>13. /\ MayMove(rows[j.b], status, rows[j.b].stage)
         /\ PaysFor(rows[j.b], status, rows[j.b].stage, moved)
         /\ status # "disputed"
    BY <1>10 DEF MayMove, PaysFor, j
  <1>14. TypeInv /\ TablesCohere
    BY DEF Serially
  <1> QED BY <1>2, <1>5, <1>9, <1>11, <1>12, <1>13, <1>14, MoveEnds

\* decline and cancel end well.
LEMMA DeclineCancelEnds ==
    ASSUME NEW w \in Workers, Serially(w), CommitDecline(w) \/ CommitCancel(w)
    PROVE  Ended
  <1> DEFINE j == job[w]
             old == rows[j.b]
  <1>1. CASE CommitDecline(w)
    <2>1. j.op = "decline" /\ j.phase = "selected" /\ EndStatusOnly(w, "declined", Nothing)
      BY <1>1 DEF CommitDecline, At
    <2>2. old.status = "pending" /\ Fits(old.status, old.stage)
      BY <2>1, SerialRow DEF Serially, FreshJob, Checked
    <2>3. Fits("declined", old.stage) /\ old.status # "completed"
      BY <2>2 DEF Fits
    <2>4. /\ Nothing \in Amounts
          /\ Nothing.release = 0 /\ Nothing.forfeit = 0
          /\ Nothing.earning = 0 /\ Nothing.charge = 0
      BY AmountsType DEF Nothing
    <2> QED BY <2>1, <2>3, <2>4, StatusOnlyEnds DEF ChangeOps
  <1>2. CASE CommitCancel(w)
    <2>1. j.op = "cancel" /\ j.phase = "selected"
      BY <1>2 DEF CommitCancel, At
    <2>2. /\ old.stage \in BeforePickup /\ Fits(old.status, old.stage)
          /\ old \in Row /\ j.mem = old
      BY <2>1, SerialRow DEF Serially, FreshJob, Checked, ChangeOps
    <2>3. Fits("cancelled", old.stage) /\ old.status # "completed"
      BY <2>2 DEF Fits, BeforePickup
    <2> DEFINE refund(pct) == IF j.mem.status = "confirmed" THEN RefundAt(pct, j.mem) ELSE 0
    <2>4. PICK pct \in RefundPcts :
            EndStatusOnly(w, "cancelled", [Nothing EXCEPT !.refund = refund(pct)])
      BY <1>2 DEF CommitCancel
    <2>5. refund(pct) \in Nat
      BY <2>2, RefundType, LifecycleAssumption
    <2> HIDE DEF refund
    <2> DEFINE moved == [Nothing EXCEPT !.refund = refund(pct)]
    <2>6. /\ moved \in Amounts
          /\ moved.release = 0 /\ moved.forfeit = 0
          /\ moved.earning = 0 /\ moved.charge = 0
      BY <2>5, ChargeType DEF Nothing
    <2> HIDE DEF moved
    <2>7. EndStatusOnly(w, "cancelled", moved)
      BY <2>4 DEF moved
    <2> QED BY <2>1, <2>3, <2>6, <2>7, StatusOnlyEnds DEF ChangeOps
  <1> QED BY <1>1, <1>2

\* A request that books nothing and leaves the dispute as it is.
LEMMA Unbooked ==
    ASSUME NEW row \in Row, NEW status, NEW stage, status # "completed",
           row.stage = "requested" => stage = "requested"
    PROVE  Nothing \in Amounts /\ PaysFor(row, status, stage, Nothing)
  BY AmountsType DEF PaysFor, Nothing

\* scheduleReturn and confirmReturn end well.
LEMMA OneStepEnds ==
    ASSUME NEW w \in Workers, Serially(w), CommitScheduleReturn(w) \/ CommitConfirmReturn(w)
    PROVE  Ended
  <1> DEFINE j == job[w]
             old == rows[j.b]
  <1>1. /\ j.op \in {"scheduleReturn", "confirmReturn"} /\ j.phase = "selected"
        /\ EndOneStep(w, IF j.op = "scheduleReturn" THEN "returnsched" ELSE "returned")
    BY DEF CommitScheduleReturn, CommitConfirmReturn, At
  <1>2. PICK stage : /\ EndOneStep(w, stage)
                     /\ stage = IF j.op = "scheduleReturn" THEN "returnsched" ELSE "returned"
    BY <1>1
  <1> DEFINE mem == To(j.mem, "confirmed", stage)
             row == Save(old, j.seen, mem)
  <1>3. /\ j.b \in Bookings /\ old \in Row
        /\ old.status = "disputed" <=> Unresolved(disputes[j.b])
        /\ disputes' = disputes => disputes' = [disputes EXCEPT ![j.b] = disputes[j.b]]
        /\ Fits(old.status, old.stage)
    BY <1>1, SerialRow
  <1>4. /\ j.mem = old /\ j.seen = old
        /\ old.stage \in {"active", "returnsched"}
        /\ j.op = "scheduleReturn" => old.stage = "active"
    BY <1>1 DEF Serially, FreshJob, Checked, ChangeOps
  <1>5. stage \in Stages /\ "confirmed" \in Statuses
    BY <1>2, StagesAre DEF Statuses
  <1>6. row = mem
    <2>1. /\ mem \in Row /\ mem.unit = old.unit /\ mem.from = old.from
          /\ mem.mode = old.mode
      <3>1. To(old, "confirmed", stage).mode = old.mode
        BY <1>3 DEF To, Row
      <3> QED BY <1>3, <1>4, <1>5, <3>1, ToType
    <2> HIDE DEF mem
    <2> QED BY <1>3, <1>4, <2>1, SaveFresh
  <1>7. PICK outcome : End(w, j.b, outcome, Nothing, row, <<mem.status, mem.stage>>, Nothing)
    BY <1>2 DEF EndOneStep
  <1>8. UNCHANGED <<disputes, exts>>
    BY <1>2 DEF EndOneStep
  <1>9. /\ MayMove(old, "confirmed", stage) /\ ~Unresolved(disputes[j.b])
        /\ old.stage # "requested"
    BY <1>2, <1>3, <1>4, StageOrderIs DEF MayMove, Fits
  <1>10. Nothing \in Amounts /\ PaysFor(old, "confirmed", stage, Nothing)
    BY <1>3, <1>9, Unbooked
  <1>11. UNCHANGED exts /\ DisputeTo(j.b, outcome, disputes[j.b])
    BY <1>3, <1>8 DEF DisputeTo
  <1>12. /\ End(w, j.b, outcome, Nothing, row, <<row.status, row.stage>>, Nothing)
         /\ row = To(old, "confirmed", stage)
    BY <1>4, <1>6, <1>7
  <1>13. TypeInv /\ TablesCohere
    BY DEF Serially
  <1> HIDE DEF row, mem, j
  <1> QED BY <1>3, <1>5, <1>9, <1>10, <1>11, <1>12, <1>13, MoveEnds

\* approve charges and reserves.
LEMMA ApproveEnds ==
    ASSUME NEW w \in Workers, Serially(w), CommitApprove(w)
    PROVE  Ended
  <1> DEFINE j == job[w]
             old == rows[j.b]
             row == To(j.mem, "confirmed", "reserved")
             charged == [Nothing EXCEPT !.charge = Total(j.mem)]
  <1>1. j.op = "approve"
    BY DEF CommitApprove, At
  <1>2. /\ j.b \in Bookings /\ old \in Row
        /\ old.status = "disputed" <=> Unresolved(disputes[j.b])
        /\ disputes' = disputes => disputes' = [disputes EXCEPT ![j.b] = disputes[j.b]]
        /\ Fits(old.status, old.stage)
    BY <1>1, SerialRow
  <1>3. j.mem = old /\ old.status = "pending"
    BY <1>1 DEF Serially, FreshJob, Checked, ChangeOps
  <1>4. PICK outcome : End(w, j.b, outcome, charged, row, <<row.status, row.stage>>, charged)
    BY DEF CommitApprove
  <1>5. UNCHANGED <<disputes, exts>>
    BY DEF CommitApprove
  <1>6. /\ MayMove(old, "confirmed", "reserved") /\ ~Unresolved(disputes[j.b])
        /\ old.stage = "requested" /\ "confirmed" \in Statuses /\ "reserved" \in Stages
    BY <1>2, <1>3, StageOrderIs, StagesAre DEF MayMove, Fits, Statuses
  <1>7. /\ charged \in Amounts /\ charged.charge = Total(old)
        /\ charged.release = 0 /\ charged.forfeit = 0 /\ charged.earning = 0
    BY <1>2, <1>3, RowFields, ChargeType DEF Nothing
  <1>8. PaysFor(old, "confirmed", "reserved", charged)
    BY <1>6, <1>7 DEF PaysFor
  <1>9. UNCHANGED exts /\ DisputeTo(j.b, outcome, disputes[j.b])
    BY <1>2, <1>5 DEF DisputeTo
  <1>10. row = To(old, "confirmed", "reserved") /\ TypeInv /\ TablesCohere
    BY <1>3 DEF Serially
  <1> HIDE DEF row, charged, j
  <1> QED BY <1>2, <1>4, <1>6, <1>7, <1>8, <1>9, <1>10, MoveEnds

\* handover makes a reserved booking active.
LEMMA HandoverEnds ==
    ASSUME NEW w \in Workers, Serially(w), CommitHandover(w)
    PROVE  Ended
  <1> DEFINE j == job[w]
             old == rows[j.b]
             row == To(j.mem, "confirmed", "active")
  <1>1. j.op = "handover"
    BY DEF CommitHandover, At
  <1>2. /\ j.b \in Bookings /\ old \in Row
        /\ old.status = "disputed" <=> Unresolved(disputes[j.b])
        /\ disputes' = disputes => disputes' = [disputes EXCEPT ![j.b] = disputes[j.b]]
        /\ Fits(old.status, old.stage)
    BY <1>1, SerialRow
  <1>3. j.mem = old /\ old.stage \in {"reserved", "ready"}
    BY <1>1 DEF Serially, FreshJob, Checked, ChangeOps
  <1>4. PICK outcome : End(w, j.b, outcome, Nothing, row, <<row.status, row.stage>>, Nothing)
    BY DEF CommitHandover
  <1>5. UNCHANGED <<disputes, exts>>
    BY DEF CommitHandover
  <1>6. /\ MayMove(old, "confirmed", "active") /\ ~Unresolved(disputes[j.b])
        /\ old.stage # "requested" /\ "confirmed" \in Statuses /\ "active" \in Stages
    BY <1>2, <1>3, StageOrderIs, StagesAre DEF MayMove, Fits, Statuses
  <1>7. Nothing \in Amounts /\ PaysFor(old, "confirmed", "active", Nothing)
    BY <1>2, <1>6, Unbooked
  <1>8. UNCHANGED exts /\ DisputeTo(j.b, outcome, disputes[j.b])
    BY <1>2, <1>5 DEF DisputeTo
  <1>9. row = To(old, "confirmed", "active") /\ TypeInv /\ TablesCohere
    BY <1>3 DEF Serially
  <1> HIDE DEF row, j
  <1> QED BY <1>2, <1>4, <1>6, <1>7, <1>8, <1>9, MoveEnds

\* What a completion books settles the booking.
LEMMA SettledPays ==
    ASSUME NEW row \in Row, NEW deduction \in 0..Deposit, row.stage # "requested"
    PROVE  /\ Settled(deduction, row.rental) \in Amounts
           /\ PaysFor(row, "completed", "completed", Settled(deduction, row.rental))
  <1>1. deduction \in Int /\ Deposit \in Int
    BY RatesAssumption
  <1>2. Settled(deduction, row.rental) \in Amounts
    BY SettledType, RowFields
  <1> QED BY <1>1, <1>2 DEF PaysFor, Settled, Nothing

\* An inspection without damage completes a returned booking.
LEMMA InspectEnds ==
    ASSUME NEW w \in Workers, Serially(w), CommitInspect(w)
    PROVE  Ended
  <1> DEFINE j == job[w]
             old == rows[j.b]
             row == To(j.mem, "completed", "completed")
             booked == Settled(0, j.mem.rental)
  <1>1. j.op = "inspect"
    BY DEF CommitInspect, At
  <1>2. /\ j.b \in Bookings /\ old \in Row
        /\ old.status = "disputed" <=> Unresolved(disputes[j.b])
        /\ disputes' = disputes => disputes' = [disputes EXCEPT ![j.b] = disputes[j.b]]
        /\ Fits(old.status, old.stage)
    BY <1>1, SerialRow
  <1>3. j.mem = old /\ old.stage = "returned"
    BY <1>1 DEF Serially, FreshJob, Checked, ChangeOps
  <1>4. PICK outcome :
          End(w, j.b, outcome, Released(0), row, <<row.status, row.stage>>, booked)
    BY DEF CommitInspect
  <1>5. UNCHANGED <<disputes, exts>>
    BY DEF CommitInspect
  <1>6. /\ MayMove(old, "completed", "completed") /\ ~Unresolved(disputes[j.b])
        /\ "completed" \in Statuses /\ "completed" \in Stages
    BY <1>2, <1>3, StageOrderIs, StagesAre DEF MayMove, Fits, Statuses
  <1>7. booked \in Amounts /\ PaysFor(old, "completed", "completed", booked)
    <2>1. 0 \in 0..Deposit
      BY RatesAssumption
    <2> QED BY <1>2, <1>3, <2>1, SettledPays
  <1>8. UNCHANGED exts /\ DisputeTo(j.b, outcome, disputes[j.b])
    BY <1>2, <1>5 DEF DisputeTo
  <1>9. row = To(old, "completed", "completed") /\ TypeInv /\ TablesCohere
    BY <1>3 DEF Serially
  <1> HIDE DEF row, booked, j
  <1> QED BY <1>2, <1>4, <1>6, <1>7, <1>8, <1>9, MoveEnds

\* A damage report opens the dispute of the booking it parks as disputed.
LEMMA ReportDamageEnds ==
    ASSUME NEW w \in Workers, Serially(w), CommitReportDamage(w)
    PROVE  Ended
  <1> DEFINE j == job[w]
             old == rows[j.b]
             row == To(j.mem, "disputed", "inspected")
             opened == [NoDispute EXCEPT !.status = "open"]
  <1>1. j.op = "reportDamage"
    BY DEF CommitReportDamage, At
  <1>2. /\ j.b \in Bookings /\ old \in Row /\ Fits(old.status, old.stage)
    BY <1>1, SerialRow
  <1>3. j.mem = old /\ old.stage = "returned"
    BY <1>1 DEF Serially, FreshJob, Checked, ChangeOps
  <1>4. PICK result :
          /\ End(w, j.b, result, Nothing, row, <<row.status, row.stage>>, Nothing)
          /\ DisputeTo(j.b, result, opened)
    BY DEF CommitReportDamage, DisputeTo
  <1>5. UNCHANGED exts
    BY DEF CommitReportDamage
  <1>6. /\ MayMove(old, "disputed", "inspected") /\ Unresolved(opened)
        /\ "disputed" \in Statuses /\ "inspected" \in Stages
    BY <1>2, <1>3, StageOrderIs, StagesAre
    DEF MayMove, Fits, Statuses, Unresolved, NoDispute
  <1>7. Nothing \in Amounts /\ PaysFor(old, "disputed", "inspected", Nothing)
    BY <1>2, <1>3, Unbooked
  <1>8. row = To(old, "disputed", "inspected") /\ TypeInv /\ TablesCohere
    BY <1>3 DEF Serially
  <1> HIDE DEF row, opened, j
  <1> QED BY <1>2, <1>4, <1>5, <1>6, <1>7, <1>8, MoveEnds

\* A resolution completes the disputed booking and closes its dispute.
LEMMA ResolutionEnds ==
    ASSUME NEW w \in Workers, Serially(w), CommitResolution(w), job[w].op \in Decisions
    PROVE  Ended
  <1> DEFINE j == job[w]
             old == rows[j.b]
             row == To(j.mem, "completed", "completed")
             booked == Settled(j.dmem.final, j.mem.rental)
  <1>1. j # Idle /\ j.phase = "resolving" /\ j.op # "create"
    BY DEF CommitResolution, Idle, Decisions
  <1>2. /\ j.b \in Bookings /\ old \in Row /\ disputes[j.b] \in Dispute
        /\ Fits(old.status, old.stage)
        /\ old.status = "disputed" <=> Unresolved(disputes[j.b])
    BY <1>1, SerialRow
  <1>3. /\ j.mem = old /\ j.dseen = disputes[j.b]
        /\ Unresolved(disputes[j.b]) /\ ~Unresolved(j.dmem)
    BY <1>1 DEF Serially, FreshJob, Decisions, Negotiations
  <1>4. j.dmem \in Dispute /\ j.dmem.final \in 0..Deposit
    BY <1>1, DisputeJobType DEF Serially, Dispute
  <1>5. SaveDispute(disputes[j.b], j.dseen, j.dmem) = j.dmem
    BY <1>2, <1>3, <1>4, SaveDisputeFresh
  <1>6. PICK outcome :
          /\ End(w, j.b, outcome, Released(j.dmem.final), row, <<row.status, row.stage>>,
                 booked)
          /\ DisputeTo(j.b, outcome, j.dmem)
    BY <1>5 DEF CommitResolution, DisputeTo
  <1>7. UNCHANGED exts
    BY DEF CommitResolution
  <1>8. /\ MayMove(old, "completed", "completed") /\ old.stage = "inspected"
        /\ "completed" \in Statuses /\ "completed" \in Stages
    BY <1>2, <1>3, StageOrderIs, StagesAre DEF MayMove, Fits, Statuses
  <1>9. booked \in Amounts /\ PaysFor(old, "completed", "completed", booked)
    BY <1>2, <1>3, <1>4, <1>8, SettledPays
  <1>10. row = To(old, "completed", "completed") /\ TypeInv /\ TablesCohere
    BY <1>3 DEF Serially
  <1> HIDE DEF row, booked, j
  <1> QED BY <1>2, <1>3, <1>6, <1>7, <1>8, <1>9, <1>10, MoveEnds

\* A proposal and its rejection leave the dispute unresolved.
LEMMA NegotiationEnds ==
    ASSUME NEW w \in Workers, Serially(w), CommitNegotiation(w)
    PROVE  Ended
  <1> DEFINE j == job[w]
  <1>1. /\ j # Idle /\ j.phase = "selected" /\ j.op \in Negotiations /\ j.op # "create"
    BY DEF CommitNegotiation, At, Negotiations, Idle
  <1>2. j.b \in Bookings /\ disputes[j.b] \in Dispute
    BY <1>1, SerialRow
  <1>3. j.dseen = disputes[j.b] /\ Unresolved(disputes[j.b]) /\ Unresolved(j.dmem)
    BY <1>1 DEF Serially, FreshJob
  <1>4. j.dmem \in Dispute
    BY <1>1, DisputeJobType DEF Serially, Negotiations
  <1>5. SaveDispute(disputes[j.b], j.dseen, j.dmem) = j.dmem
    BY <1>2, <1>3, <1>4, SaveDisputeFresh
  <1>6. /\ disputes' = [disputes EXCEPT ![j.b] = j.dmem]
        /\ UNCHANGED <<rows, trail, exts, ledger>>
    BY <1>5 DEF CommitNegotiation
  <1> HIDE DEF j
  <1> QED BY <1>2, <1>3, <1>6 DEF Ended, Aside

\* An extension request is inserted or closed while the item is out or later.
LEMMA ExtensionsEnd ==
    ASSUME NEW w \in Workers, Serially(w),
           CommitRequestExtension(w) \/ CommitCloseExtension(w)
    PROVE  Ended
  <1> DEFINE j == job[w]
  <1>1. UNCHANGED <<rows, trail, ledger, disputes>>
    BY DEF CommitRequestExtension, CommitCloseExtension
  <1>2. CASE CommitRequestExtension(w)
    <2>1. j # Idle /\ j.op = "requestExtension"
      BY <1>2, BusyAt DEF CommitRequestExtension
    <2>2. j.e \in Extensions /\ j.ext \in Extension /\ j.ext.b = j.b
      BY <2>1, ExtensionJobType DEF Serially
    <2>3. rows[j.b].stage \in Rented /\ exts[j.e].status # "approved"
      BY <2>1 DEF Serially, FreshJob, Checked, Rented, NoExtension
    <2>4. exts' = exts \/ exts' = [exts EXCEPT ![j.e] = j.ext]
      BY <1>2 DEF CommitRequestExtension
    <2> HIDE DEF j
    <2> QED BY <1>1, <2>2, <2>3, <2>4 DEF Ended, Aside, tables
  <1>3. CASE CommitCloseExtension(w)
    <2>1. PICK op \in {"declineExtension", "cancelExtension"} :
            /\ At(w, op, "loaded")
            /\ exts' = [exts EXCEPT ![job[w].e].status =
                            IF op = "declineExtension" THEN "declined" ELSE "cancelled"]
      BY <1>3 DEF CommitCloseExtension
    <2>2. j # Idle /\ j.op = op
      BY <2>1, BusyAt
    <2>3. j.e \in Extensions /\ exts[j.e] \in Extension
      BY <2>2, ExtensionJobType DEF Serially
    <2>4. exts[j.e].status = "pending"
      BY <2>2 DEF Serially, FreshJob, OnPending
    <2> DEFINE ext == [exts[j.e] EXCEPT !.status =
                          IF op = "declineExtension" THEN "declined" ELSE "cancelled"]
    <2>5. ext \in Extension /\ ext.b = exts[j.e].b
      BY <2>3 DEF Extension, ExtensionStatuses
    <2>6. exts' = [exts EXCEPT ![j.e] = ext]
      BY <2>1, <2>3 DEF Serially, TypeInv, TypeOK
    <2>7. rows[ext.b].stage \in Rented
      BY <2>3, <2>4, <2>5 DEF Serially, TablesCohere
    <2> HIDE DEF j, ext
    <2> QED BY <1>1, <2>3, <2>4, <2>5, <2>6, <2>7 DEF Ended, Aside
  <1> QED BY <1>2, <1>3

\* An approved extension is charged what it adds to the booking's total.
LEMMA ApproveExtensionEnds ==
    ASSUME NEW w \in Workers, Serially(w), CommitApproveExtension(w)
    PROVE  Ended
  <1> DEFINE j == job[w]
             old == rows[j.b]
             mem == [j.mem EXCEPT !.to = j.ext.newEnd,
                                  !.rental = @ + j.ext.rental,
                                  !.service = @ + j.ext.service]
             row == Save(old, j.seen, mem)
             charged == [Nothing EXCEPT !.charge = ExtensionPrice(j.ext)]
  <1>1. j # Idle /\ j.op = "approveExtension" /\ j.phase = "selected"
    BY BusyAt DEF CommitApproveExtension
  <1>2. /\ j.b \in Bookings /\ j.e \in Extensions /\ j.ext \in Extension
        /\ exts[j.e] \in Extension
    BY <1>1, ExtensionJobType DEF Serially
  <1>3. /\ j.mem = old /\ j.seen = old
        /\ exts[j.e].status = "pending" /\ exts[j.e].b = j.b
    BY <1>1 DEF Serially, FreshJob, ChangeOps, OnPending
  <1>4. /\ old \in Row /\ ledger[j.b] \in Amounts
        /\ Coheres(old, ledger[j.b], disputes[j.b])
    BY <1>1, SerialRow DEF Serially, TypeInv, TypeOK
  <1>5. old.stage \in Rented
    BY <1>2, <1>3 DEF Serially, TablesCohere
  <1>6. /\ mem \in Row /\ mem.unit = old.unit /\ mem.from = old.from
        /\ mem.mode = old.mode /\ mem.status = old.status /\ mem.stage = old.stage
        /\ mem.rental = old.rental + j.ext.rental
        /\ mem.service = old.service + j.ext.service
    BY <1>2, <1>3, <1>4, ExtendedType DEF Row
  <1>7. ExtensionPrice(j.ext) \in Nat /\ ExtensionPrice(j.ext) = j.ext.rental + j.ext.service
        /\ j.ext.rental \in Nat /\ j.ext.service \in Nat
    BY <1>2 DEF ExtensionPrice, Extension
  <1> HIDE DEF mem
  <1>8. row = mem
    BY <1>3, <1>4, <1>6, SaveFresh
  <1>9. PICK outcome :
          /\ End(w, j.b, outcome, charged, row, <<mem.status, "active">>, charged)
          /\ exts' = IF outcome = "commit"
                     THEN [exts EXCEPT ![j.e].status = "approved"] ELSE exts
    BY DEF CommitApproveExtension, mem
  <1>10. UNCHANGED disputes
    BY DEF CommitApproveExtension
  <1>11. /\ charged \in Amounts /\ charged.charge = ExtensionPrice(j.ext)
         /\ charged.release = 0 /\ charged.forfeit = 0 /\ charged.earning = 0
    BY <1>7, ChargeType DEF Nothing
  <1> HIDE DEF row, charged
  <1>12. Coheres(row, Plus(ledger[j.b], charged), disputes[j.b])
    <2> DEFINE sum == Plus(ledger[j.b], charged)
    <2>1. /\ sum.charge = ledger[j.b].charge + ExtensionPrice(j.ext)
          /\ sum.release = ledger[j.b].release /\ sum.forfeit = ledger[j.b].forfeit
          /\ sum.earning = ledger[j.b].earning
      BY <1>4, <1>11 DEF Plus, Amounts
    <2>2. Total(row) = Total(old) + ExtensionPrice(j.ext)
      BY <1>4, <1>6, <1>7, <1>8, RatesAssumption DEF Total, Row
    <2>3. old.stage # "requested" /\ old.status # "absent"
      BY <1>4, <1>5 DEF Rented, Row, Statuses
    <2> HIDE DEF sum
    <2>4. Coheres(row, sum, disputes[j.b])
      BY <1>4, <1>6, <1>8, <2>1, <2>2, <2>3 DEF Coheres
    <2> QED BY <2>4 DEF sum
  <1>13. CASE outcome = "commit"
    <2>1. Prolong(j.b, row, charged, j.e)
      BY <1>2, <1>3, <1>6, <1>8, <1>9, <1>10, <1>12, <1>13 DEF End, Prolong
    <2> HIDE DEF j
    <2> QED BY <1>2, <1>6, <1>8, <1>11, <2>1 DEF Ended
  <1>14. CASE outcome # "commit"
    BY <1>9, <1>10, <1>14 DEF End, Ended, tables
  <1> QED BY <1>13, <1>14

\* Every request that ends alone leaves tables that cohere.
LEMMA CommitsEnd ==
    ASSUME NEW w \in Workers, Serially(w), Commits(w)
    PROVE  Ended
  <1>1. CASE CommitResolution(w)
    <2>1. job[w].op \in Decisions
      BY <1>1 DEF CommitResolution, Serially, FreshJob
    <2> QED BY <1>1, <2>1, ResolutionEnds
  <1> QED
    BY <1>1, CreateEnds, ApproveEnds, DeclineCancelEnds, HandoverEnds, OneStepEnds,
       InspectEnds, ReportDamageEnds, NegotiationEnds, ExtensionsEnd, ApproveExtensionEnds
    DEF Commits

---------------------------------------------------------------------------
(* The beginning of a request, and its reads. *)

\* A request begins without overlap only while no other is in progress.
LEMMA StartAlone ==
    ASSUME TypeInv, NEW w \in Workers, NEW request, Start(w, request), overlaps' = 0
    PROVE  /\ overlaps = 0
           /\ \A v \in Workers : job[v] = Idle
  BY DEF Start, TypeInv, TypeOK

\* A request that begins, or goes on, with fresh copies is alone and fresh.
LEMMA TakenUp ==
    ASSUME TypeInv, SerialInv, overlaps = 0, NEW w \in Workers, NEW request,
           UNCHANGED tables, job' = [job EXCEPT ![w] = request],
           \A v \in Workers \ {w} : job[v] = Idle, request # Idle => FreshJob(request)
    PROVE  SerialInv'
  <1>1. /\ job'[w] = request
        /\ \A v \in Workers \ {w} : job'[v] = Idle
    BY DEF TypeInv, TypeOK
  <1>2. Alone'
    BY <1>1 DEF Alone
  <1>3. TablesCohere'
    BY EndedCoheres DEF Ended, SerialInv
  <1>4. request # Idle => FreshJob(request)'
    BY DEF FreshJob, tables
  <1>5. ASSUME NEW v \in Workers, job'[v] # Idle
        PROVE  FreshJob(job[v])'
    <2>1. job'[v] = request
      BY <1>1, <1>5
    <2> QED BY <1>4, <1>5, <2>1 DEF FreshJob
  <1> QED BY <1>2, <1>3, <1>5 DEF SerialInv

\* ... as one that begins does,
LEMMA StartSerial ==
    ASSUME TypeInv, SerialInv, NEW w \in Workers, NEW request, Start(w, request),
           FreshJob(request), overlaps' = 0
    PROVE  SerialInv'
  <1>1. overlaps = 0 /\ \A v \in Workers : job[v] = Idle
    BY StartAlone
  <1>2. UNCHANGED tables /\ job' = [job EXCEPT ![w] = request]
    BY DEF Start
  <1> QED BY <1>1, <1>2, TakenUp

\* ... and one that goes on or is given up.
LEMMA ProceedSerial ==
    ASSUME TypeInv, SerialInv, overlaps = 0, NEW w \in Workers, job[w] # Idle, NEW request,
           Proceed(w, request), request # Idle => FreshJob(request)
    PROVE  SerialInv'
  <1>1. \A v \in Workers \ {w} : job[v] = Idle
    BY DEF SerialInv, Alone
  <1>2. UNCHANGED tables /\ job' = [job EXCEPT ![w] = request]
    BY DEF Proceed
  <1> QED BY <1>1, <1>2, TakenUp

\* Every read that begins a request finds what it checks.
LEMMA LoadsSerial ==
    ASSUME TypeInv, SerialInv, NEW w \in Workers, Loads(w), overlaps' = 0
    PROVE  SerialInv'
  <1>1. ASSUME NEW op \in ChangeOps, NEW b \in Bookings, Load(w, op, b), Checked(op, rows[b])
        PROVE  SerialInv'
    <2> DEFINE request == [op |-> op, phase |-> "loaded", b |-> b, mem |-> rows[b],
                           seen |-> NoRow]
    <2>1. Start(w, request)
      BY <1>1 DEF Load
    <2>2. FreshJob(request)
      BY <1>1 DEF FreshJob, ChangeOps, Negotiations, Decisions, OnPending
    <2> HIDE DEF request
    <2> QED BY <2>1, <2>2, StartSerial
  <1>2. ASSUME NEW op \in Negotiations \cup Decisions, NEW b \in Bookings, NEW statuses,
               NEW dmem, LoadDispute(w, op, b, statuses, dmem),
               Unresolved(disputes[b]), Unresolved(dmem) <=> op \in Negotiations
        PROVE  SerialInv'
    <2> DEFINE request == [op |-> op, phase |-> "loaded", b |-> b, dmem |-> dmem,
                           dseen |-> NoDispute, mem |-> NoRow]
    <2>1. Start(w, request)
      BY <1>2 DEF LoadDispute
    <2>2. FreshJob(request)
      BY <1>2 DEF FreshJob, Checked, ChangeOps, Negotiations, Decisions, OnPending
    <2> HIDE DEF request
    <2> QED BY <2>1, <2>2, StartSerial
  <1>3. CASE LoadCreate(w)
    <2>1. PICK b \in Bookings, unit \in Units, win \in Windows, mode \in Modes :
            /\ Fresh(b)
            /\ Start(w, [op |-> "create", phase |-> "loaded", b |-> b, seen |-> NoRow,
                         mem |-> [status |-> "pending", stage |-> "requested",
                                  unit |-> unit, from |-> win[1], to |-> win[2],
                                  mode |-> mode, rental |-> RentalFor(win[1], win[2]),
                                  service |-> ServiceFor(win[1], win[2])]])
      BY <1>3 DEF LoadCreate
    <2> DEFINE mem == [status |-> "pending", stage |-> "requested",
                       unit |-> unit, from |-> win[1], to |-> win[2],
                       mode |-> mode, rental |-> RentalFor(win[1], win[2]),
                       service |-> ServiceFor(win[1], win[2])]
               request == [op |-> "create", phase |-> "loaded", b |-> b, seen |-> NoRow,
                           mem |-> mem]
    <2>2. mem.stage = "requested" /\ rows[b].status = "absent"
      BY <2>1 DEF Fresh, Exists
    <2>3. Start(w, request)
      BY <2>1
    <2> HIDE DEF mem
    <2>4. FreshJob(request)
      BY <2>2 DEF FreshJob, Checked, ChangeOps, Negotiations, Decisions, OnPending
    <2> HIDE DEF request
    <2> QED BY <2>3, <2>4, StartSerial
  <1>4. CASE \/ LoadApprove(w) \/ LoadDecline(w) \/ LoadCancel(w) \/ LoadHandover(w)
             \/ LoadScheduleReturn(w) \/ LoadConfirmReturn(w) \/ LoadInspect(w)
             \/ LoadReportDamage(w)
    BY <1>4, <1>1 DEF LoadApprove, LoadDecline, LoadCancel, LoadHandover,
         LoadScheduleReturn, LoadConfirmReturn, LoadInspect, LoadReportDamage, LoadAtStage,
         Checked, ChangeOps
  <1>5. CASE LoadPropose(w) \/ LoadReject(w) \/ LoadAccept(w) \/ LoadAdminResolve(w)
    <2>1. \A b \in Bookings : \A amount :
            /\ [disputes[b] EXCEPT !.status = "proposed", !.proposed = amount].status
                 = "proposed"
            /\ [disputes[b] EXCEPT !.status = "contested"].status = "contested"
            /\ [disputes[b] EXCEPT !.status = "resolved", !.resolution = "agreed",
                                   !.final = disputes[b].proposed].status = "resolved"
            /\ [disputes[b] EXCEPT !.status = "resolved", !.resolution = "admin_decided",
                                   !.final = amount].status = "resolved"
      BY DEF TypeInv, TypeOK, Dispute
    <2>2. CASE LoadPropose(w)
      <3>1. PICK b \in Bookings, amount \in 0..Deposit :
              LoadDispute(w, "propose", b, {"open", "contested"},
                          [disputes[b] EXCEPT !.status = "proposed", !.proposed = amount])
        BY <2>2 DEF LoadPropose
      <3>2. Unresolved(disputes[b])
        BY <3>1 DEF LoadDispute, Unresolved
      <3>3. Unresolved([disputes[b] EXCEPT !.status = "proposed", !.proposed = amount])
        BY <2>1 DEF Unresolved
      <3>4. "propose" \in Negotiations
        BY DEF Negotiations
      <3> QED BY <1>2, <3>1, <3>2, <3>3, <3>4
    <2>3. CASE LoadReject(w)
      <3>1. PICK b \in Bookings :
              LoadDispute(w, "reject", b, {"proposed"},
                          [disputes[b] EXCEPT !.status = "contested"])
        BY <2>3 DEF LoadReject
      <3>2. Unresolved(disputes[b])
        BY <3>1 DEF LoadDispute, Unresolved
      <3>3. Unresolved([disputes[b] EXCEPT !.status = "contested"])
        BY <2>1 DEF Unresolved
      <3>4. "reject" \in Negotiations
        BY DEF Negotiations
      <3> QED BY <1>2, <3>1, <3>2, <3>3, <3>4
    <2>4. CASE LoadAccept(w)
      <3>1. PICK b \in Bookings :
              LoadDispute(w, "accept", b, {"proposed"},
                          [disputes[b] EXCEPT !.status = "resolved", !.resolution = "agreed",
                                              !.final = disputes[b].proposed])
        BY <2>4 DEF LoadAccept
      <3>2. Unresolved(disputes[b])
        BY <3>1 DEF LoadDispute, Unresolved
      <3>3. ~Unresolved([disputes[b] EXCEPT !.status = "resolved", !.resolution = "agreed",
                                            !.final = disputes[b].proposed])
        BY <2>1 DEF Unresolved
      <3>4. "accept" \in Decisions /\ "accept" \notin Negotiations
        BY DEF Decisions, Negotiations
      <3> QED BY <1>2, <3>1, <3>2, <3>3, <3>4
    <2>5. CASE LoadAdminResolve(w)
      <3>1. PICK b \in Bookings, amount \in 0..Deposit :
              LoadDispute(w, "adminResolve", b, {"open", "proposed", "contested"},
                          [disputes[b] EXCEPT !.status = "resolved",
                                              !.resolution = "admin_decided",
                                              !.final = amount])
        BY <2>5 DEF LoadAdminResolve
      <3>2. Unresolved(disputes[b])
        BY <3>1 DEF LoadDispute, Unresolved
      <3>3. ~Unresolved([disputes[b] EXCEPT !.status = "resolved",
                                            !.resolution = "admin_decided",
                                            !.final = amount])
        BY <2>1 DEF Unresolved
      <3>4. "adminResolve" \in Decisions /\ "adminResolve" \notin Negotiations
        BY DEF Decisions, Negotiations
      <3> QED BY <1>2, <3>1, <3>2, <3>3, <3>4
    <2> QED BY <1>5, <2>2, <2>3, <2>4, <2>5
  <1>6. ASSUME NEW op \in OnPending, NEW e \in Extensions, NEW phase \in {"found", "loaded"},
               op = "approveExtension" => phase = "found", exts[e].status = "pending",
               Start(w, [op |-> op, phase |-> phase, b |-> exts[e].b, e |-> e,
                         ext |-> exts[e], mem |-> NoRow, seen |-> NoRow])
        PROVE  SerialInv'
    <2> DEFINE request == [op |-> op, phase |-> phase, b |-> exts[e].b, e |-> e,
                           ext |-> exts[e], mem |-> NoRow, seen |-> NoRow]
    <2>1. Start(w, request)
      BY <1>6
    <2>2. FreshJob(request)
      BY <1>6 DEF FreshJob, Checked, ChangeOps, Negotiations, Decisions, OnPending
    <2> HIDE DEF request
    <2> QED BY <2>1, <2>2, StartSerial
  <1>7. CASE FindExtension(w) \/ LoadCloseExtension(w)
    BY <1>6, <1>7 DEF FindExtension, LoadCloseExtension, LoadExtension, OnPending
  <1>8. CASE LoadRequestExtension(w)
    <2>1. PICK b \in Bookings, e \in Extensions, newEnd \in 1..MaxTime :
            /\ exts[e] = NoExtension
            /\ rows[b].stage = "active"
            /\ LoadExtension(w, "requestExtension", e,
                   [status |-> "pending", b |-> b, newEnd |-> newEnd,
                    rental |-> RentalFor(rows[b].to, newEnd),
                    service |-> ServiceFor(rows[b].to, newEnd)], rows[b])
      BY <1>8 DEF LoadRequestExtension
    <2> DEFINE ext == [status |-> "pending", b |-> b, newEnd |-> newEnd,
                       rental |-> RentalFor(rows[b].to, newEnd),
                       service |-> ServiceFor(rows[b].to, newEnd)]
               request == [op |-> "requestExtension", phase |-> "loaded", b |-> ext.b,
                           e |-> e, ext |-> ext, mem |-> rows[b], seen |-> NoRow]
    <2>2. Start(w, request) /\ ext.b = b
      BY <2>1 DEF LoadExtension
    <2> HIDE DEF ext
    <2>3. FreshJob(request)
      BY <2>1, <2>2 DEF FreshJob, Checked, ChangeOps, Negotiations, Decisions, OnPending
    <2> HIDE DEF request
    <2> QED BY <2>2, <2>3, StartSerial
  <1> QED BY <1>3, <1>4, <1>5, <1>7, <1>8 DEF Loads

\* Every select of a save finds what the request read.
LEMMA SelectsSerial ==
    ASSUME TypeInv, SerialInv, overlaps = 0, NEW w \in Workers, Selects(w)
    PROVE  SerialInv'
  <1> DEFINE j == job[w]
  <1>1. j # Idle /\ j \in Job
    <2>1. j # Idle
      BY DEF Selects, SelectRow, SelectDispute, LockDispute, LoadApproveExtension, At, Idle
    <2> QED BY <2>1, JobKinds DEF TypeInv
  <1>2. FreshJob(j)
    BY <1>1 DEF SerialInv
  <1>3. CASE SelectRow(w)
    <2> DEFINE request == [j EXCEPT !.phase = "selected", !.seen = rows[j.b]]
    <2>1. /\ Proceed(w, request) /\ j.phase = "loaded"
          /\ j.op \in ChangeOps \/ j.op = "approveExtension"
          /\ j.op # "create" /\ j.op # "requestExtension"
      BY <1>3 DEF SelectRow, At, ChangeOps
    <2>2. j \in BookingJob \cup ExtensionJob
      BY <1>1, <2>1 DEF Job, DisputeJob, ChangeOps
    <2>3. /\ request.op = j.op /\ request.phase = "selected" /\ request.b = j.b
          /\ request.mem = j.mem /\ request.seen = rows[j.b]
          /\ j.op = "approveExtension" => request.e = j.e
      BY <2>1, <2>2 DEF BookingJob, ExtensionJob, ChangeOps
    <2> HIDE DEF request
    <2>4. FreshJob(request)
      BY <1>2, <2>1, <2>3 DEF FreshJob, ChangeOps, Negotiations, Decisions, OnPending
    <2> QED BY <1>1, <2>1, <2>4, ProceedSerial
  <1>4. CASE SelectDispute(w)
    <2> DEFINE request == [j EXCEPT !.phase = "selected", !.dseen = disputes[j.b]]
    <2>1. /\ Proceed(w, request)
          /\ j.op \in Negotiations \cup Decisions
      BY <1>4 DEF SelectDispute, At, Negotiations, Decisions
    <2>2. j \in DisputeJob
      BY <1>1, <2>1 DEF Job, BookingJob, ExtensionJob, Negotiations, Decisions
    <2>3. /\ request.op = j.op /\ request.phase = "selected" /\ request.b = j.b
          /\ request.dmem = j.dmem /\ request.dseen = disputes[j.b]
      BY <2>2 DEF DisputeJob
    <2> HIDE DEF request
    <2>4. FreshJob(request)
      BY <1>2, <2>1, <2>3 DEF FreshJob, Checked, ChangeOps, Negotiations, Decisions, OnPending
    <2> QED BY <1>1, <2>1, <2>4, ProceedSerial
  <1>5. CASE LockDispute(w)
    <2> DEFINE request == [j EXCEPT !.phase = "resolving", !.mem = rows[j.b]]
    <2>1. /\ Proceed(w, request)
          /\ j.op \in Decisions /\ j.phase = "selected"
      BY <1>5 DEF LockDispute, At, Decisions
    <2>2. j \in DisputeJob
      BY <1>1, <2>1 DEF Job, BookingJob, ExtensionJob, Decisions
    <2>3. /\ request.op = j.op /\ request.phase = "resolving" /\ request.b = j.b
          /\ request.dmem = j.dmem /\ request.dseen = j.dseen /\ request.mem = rows[j.b]
      BY <2>2 DEF DisputeJob
    <2> HIDE DEF request
    <2>4. FreshJob(request)
      BY <1>2, <2>1, <2>3 DEF FreshJob, Checked, ChangeOps, Negotiations, Decisions, OnPending
    <2> QED BY <1>1, <2>1, <2>4, ProceedSerial
  <1>6. CASE LoadApproveExtension(w)
    <2> DEFINE request == [j EXCEPT !.phase = "loaded", !.mem = rows[j.b]]
    <2>1. j.op = "approveExtension" /\ (Proceed(w, request) \/ Proceed(w, Idle))
      BY <1>6 DEF LoadApproveExtension, At
    <2>2. j \in ExtensionJob
      BY <1>1, <2>1 DEF Job, BookingJob, DisputeJob
    <2>3. /\ request.op = j.op /\ request.phase = "loaded" /\ request.b = j.b
          /\ request.e = j.e /\ request.mem = rows[j.b]
      BY <2>2 DEF ExtensionJob
    <2> HIDE DEF request
    <2>4. FreshJob(request)
      BY <1>2, <2>1, <2>3 DEF FreshJob, Checked, ChangeOps, Negotiations, Decisions, OnPending
    <2> QED BY <1>1, <2>1, <2>4, ProceedSerial
  <1> QED BY <1>3, <1>4, <1>5, <1>6 DEF Selects

---------------------------------------------------------------------------
(* The invariant, and the theorems. *)

\* A request that ends alone ends the way Ended says.
LEMMA SerialEnd ==
    ASSUME TypeInv, SerialInv, overlaps = 0, NEW w \in Workers, Commits(w)
    PROVE  Ended
  BY CommitsBusy, CommitsEnd DEF Serially, SerialInv

\* A commit frees its worker and starts nothing.
LEMMA CommitsFree ==
    ASSUME NEW w \in Workers, Commits(w)
    PROVE  job' = [job EXCEPT ![w] = Idle] /\ overlaps' = overlaps
  BY DEF Commits, CommitCreate, CommitApprove, CommitDecline, CommitCancel,
     CommitHandover, CommitScheduleReturn, CommitConfirmReturn, CommitInspect,
     CommitReportDamage, CommitNegotiation, CommitResolution, CommitRequestExtension,
     CommitApproveExtension, CommitCloseExtension, EndStatusOnly, EndOneStep, End

\* Every step preserves the invariant.
LEMMA SerialNext == TypeInv /\ SerialInv /\ [Next]_vars => SerialInv'
  <1> SUFFICES ASSUME TypeInv, SerialInv, [Next]_vars, overlaps' = 0
               PROVE  SerialInv'
    BY DEF SerialInv
  <1>1. CASE UNCHANGED vars
    BY <1>1 DEF vars, SerialInv, Alone, TablesCohere, HistoryMatchesRow, Exists, FreshJob
  <1>2. ASSUME NEW w \in Workers, Loads(w)
        PROVE  SerialInv'
    BY <1>2, LoadsSerial
  <1>3. ASSUME NEW w \in Workers, Selects(w)
        PROVE  SerialInv'
    <2>1. overlaps = 0
      BY <1>3 DEF Selects, SelectRow, SelectDispute, LockDispute, LoadApproveExtension,
         Proceed
    <2> QED BY <1>3, <2>1, SelectsSerial
  <1>4. ASSUME NEW w \in Workers, Commits(w)
        PROVE  SerialInv'
    <2>1. /\ job' = [job EXCEPT ![w] = Idle] /\ overlaps' = overlaps
      BY <1>4, CommitsFree
    <2>2. TablesCohere'
      BY <1>4, <2>1, SerialEnd, EndedCoheres DEF SerialInv
    <2>3. \A v \in Workers : job'[v] = Idle
      BY <1>4, <2>1, CommitsBusy DEF SerialInv, Alone, TypeInv, TypeOK
    <2> QED BY <2>2, <2>3 DEF SerialInv, Alone
  <1>5. CASE SaveProfile
    BY <1>5 DEF SaveProfile, TypeInv, TypeOK
  <1> QED BY <1>1, <1>2, <1>3, <1>4, <1>5 DEF Next

\* What is set up coheres: there is no booking.
LEMMA SerialInit == Init => SerialInv
  <1> SUFFICES ASSUME Init PROVE SerialInv
    OBVIOUS
  <1>1. \A b \in Bookings : Coheres(rows[b], ledger[b], disputes[b])
    BY RatesAssumption DEF Init, Coheres, Unresolved, NoRow, NoDispute, Nothing
  <1>2. TablesCohere
    BY <1>1 DEF Init, TablesCohere, HistoryMatchesRow, Exists, NoRow, NoExtension
  <1> QED BY <1>2 DEF Init, SerialInv, Alone

\* The invariant of one request at a time.
LEMMA SerialCorrect == Spec => []SerialInv
  BY SerialInit, SerialNext, TypeCorrect, PTL DEF Spec

\* What the invariant says of a booking that exists.
LEMMA SerialBooking ==
    ASSUME TypeInv, SerialInv, overlaps = 0, NEW b \in Bookings
    PROVE  /\ Coheres(rows[b], ledger[b], disputes[b])
           /\ ledger[b] \in Amounts
           /\ Exists(b) => rows[b] \in Row /\ Fits(rows[b].status, rows[b].stage)
  BY RowExists DEF SerialInv, TablesCohere, Coheres, Exists, TypeInv, TypeOK

\* As long as no request began while another was in progress, the status and the
\* stage of every booking fit: ADR-0003's table.
THEOREM SerialStatusFits == Spec => [](overlaps = 0 => StatusFitsStage)
  <1>1. TypeInv /\ SerialInv /\ overlaps = 0 => StatusFitsStage
    BY SerialBooking, Zenon DEF StatusFitsStage, Fits
  <1> QED BY <1>1, TypeCorrect, SerialCorrect, PTL

\* ... a booking is parked as DISPUTED exactly while its dispute is unresolved,
THEOREM SerialDisputes == Spec => [](overlaps = 0 => DisputedWhileUnresolved)
  <1>1. TypeInv /\ SerialInv /\ overlaps = 0 => DisputedWhileUnresolved
    BY SerialBooking DEF DisputedWhileUnresolved, Coheres, Unresolved
  <1> QED BY <1>1, TypeCorrect, SerialCorrect, PTL

\* ... its deposit leaves escrow once and in full, at completion,
THEOREM SerialDeposits == Spec => [](overlaps = 0 => DepositSettledOnce)
  <1>1. TypeInv /\ SerialInv /\ overlaps = 0 => DepositSettledOnce
    BY SerialBooking DEF DepositSettledOnce, Coheres
  <1> QED BY <1>1, TypeCorrect, SerialCorrect, PTL

\* ... the last row of its history says what its row says,
THEOREM SerialHistory == Spec => [](overlaps = 0 => HistoryMatchesRow)
  <1>1. SerialInv /\ overlaps = 0 => HistoryMatchesRow
    BY DEF SerialInv, TablesCohere
  <1> QED BY <1>1, SerialCorrect, PTL

\* ... and an item is in the hands of one renter: a booking whose item is out is
\* confirmed, and confirmed bookings do not overlap.
THEOREM SerialHandovers == Spec => [](overlaps = 0 => OneRenterHoldsTheItem)
  <1>1. ASSUME TypeInv, SerialInv, overlaps = 0, NoOverlap
        PROVE  OneRenterHoldsTheItem
    <2>1. \A b \in Bookings : Exists(b) /\ rows[b].stage \in InHand => Active(rows[b].status)
      BY <1>1, SerialBooking DEF Fits, InHand, Active
    <2> QED BY <1>1, <2>1 DEF OneRenterHoldsTheItem, NoOverlap, Occupied
  <1> QED BY <1>1, TypeCorrect, SerialCorrect, NoDoubleBooking, PTL

\* A step of a request alone moves no booking back, and settles what it completes.
LEMMA SerialSteps ==
    ASSUME TypeInv, SerialInv, overlaps' = 0, Next
    PROVE  \/ UNCHANGED <<rows, ledger>>
           \/ Ended
  <1>1. ASSUME NEW w \in Workers, Loads(w) \/ Selects(w)
        PROVE  UNCHANGED <<rows, ledger>>
    BY <1>1, LoadsKeepTables DEF tables
  <1>2. ASSUME NEW w \in Workers, Commits(w)
        PROVE  Ended
    BY <1>2, CommitsFree, SerialEnd
  <1> QED BY <1>1, <1>2 DEF Next, SaveProfile, tables

\* Of the ends of the requests only an inspection and a resolution complete a
\* booking.
LEMMA CommitsComplete ==
    ASSUME NEW w \in Workers, Serially(w), Commits(w), NEW b \in Bookings,
           rows'[b].status = "completed", rows[b].status # "completed"
    PROVE  CommitInspect(w) \/ CommitResolution(w)
  <1> DEFINE j == job[w]
             old == rows[j.b]
  <1> USE DEF Serially
  <1>1. ASSUME NEW outcome, NEW moved, NEW row, NEW told, NEW booked,
               End(w, j.b, outcome, moved, row, told, booked),
               row.status # "completed" \/ row.status = old.status
        PROVE  FALSE
    BY <1>1 DEF End, TypeInv, TypeOK
  <1>2. ASSUME NEW status \in Statuses, NEW stage \in Stages, j.mem \in Row
        PROVE  To(j.mem, status, stage).status = status
    BY <1>2, ToType
  <1>3. CASE CommitCreate(w)
    <2>1. j # Idle /\ j.op = "create"
      BY <1>3, BusyAt DEF CommitCreate
    <2>2. j.mem \in Row /\ j.mem.status = "pending"
      BY <2>1, JobKinds DEF TypeInv, WellFormed, GoodJob, BookingJob
    <2>3. PICK row, outcome, moved, told, booked :
            /\ row \in {To(j.mem, "confirmed", "reserved"), j.mem}
            /\ End(w, j.b, outcome, moved, row, told, booked)
      BY <1>3 DEF CommitCreate
    <2> QED BY <1>1, <1>2, <2>2, <2>3, StagesAre DEF Statuses
  <1>4. CASE CommitApprove(w) \/ CommitHandover(w) \/ CommitReportDamage(w)
    <2>1. j.mem \in Row
      BY <1>4, BookingJobType DEF CommitApprove, CommitHandover, CommitReportDamage
    <2>2. PICK row, outcome, moved, told, booked :
            /\ row \in {To(j.mem, "confirmed", "reserved"), To(j.mem, "confirmed", "active"),
                        To(j.mem, "disputed", "inspected")}
            /\ End(w, j.b, outcome, moved, row, told, booked)
      BY <1>4 DEF CommitApprove, CommitHandover, CommitReportDamage
    <2> QED BY <1>1, <1>2, <2>1, <2>2, StagesAre DEF Statuses
  <1>5. CASE CommitDecline(w) \/ CommitCancel(w)
    <2>1. j.mem \in Row /\ old \in Row
      BY <1>5, BookingJobType DEF CommitDecline, CommitCancel
    <2>2. PICK status, moved :
            status \in {"declined", "cancelled"} /\ EndStatusOnly(w, status, moved)
      <3>1. CASE CommitDecline(w)
        <4>1. EndStatusOnly(w, "declined", Nothing) /\ "declined" \in {"declined", "cancelled"}
          BY <3>1 DEF CommitDecline
        <4> QED BY <4>1
      <3>2. CASE CommitCancel(w)
        <4>1. PICK moved : EndStatusOnly(w, "cancelled", moved)
          BY <3>2 DEF CommitCancel
        <4>2. "cancelled" \in {"declined", "cancelled"}
          OBVIOUS
        <4> QED BY <4>1, <4>2
      <3> QED BY <1>5, <3>1, <3>2
    <2> DEFINE mem == [j.mem EXCEPT !.status = status]
               row == Save(old, j.seen, mem)
    <2>3. row.status \in {"declined", "cancelled", old.status}
      <3>1. mem.status = status
        BY <2>1 DEF Row
      <3>2. row.status \in {mem.status, old.status}
        BY <2>1 DEF Save, Column, Row
      <3> QED BY <2>2, <3>1, <3>2
    <2>4. PICK outcome, told : End(w, j.b, outcome, moved, row, told, moved)
      BY <2>2 DEF EndStatusOnly
    <2> HIDE DEF row, mem
    <2> QED BY <1>1, <2>3, <2>4
  <1>6. CASE CommitScheduleReturn(w) \/ CommitConfirmReturn(w)
    <2>1. j.mem \in Row /\ old \in Row
      BY <1>6, BookingJobType DEF CommitScheduleReturn, CommitConfirmReturn
    <2>2. PICK stage \in {"returnsched", "returned"} : EndOneStep(w, stage)
      BY <1>6 DEF CommitScheduleReturn, CommitConfirmReturn
    <2> DEFINE mem == To(j.mem, "confirmed", stage)
               row == Save(old, j.seen, mem)
    <2>3. row.status \in {"confirmed", old.status}
      <3>1. mem.status = "confirmed"
        BY <2>1, ToType, StagesAre DEF Statuses
      <3>2. row.status \in {mem.status, old.status}
        BY <2>1 DEF Save, Column, Row
      <3> QED BY <3>1, <3>2
    <2>4. PICK outcome, told : End(w, j.b, outcome, Nothing, row, told, Nothing)
      BY <2>2 DEF EndOneStep
    <2> HIDE DEF row, mem
    <2> QED BY <1>1, <2>3, <2>4
  <1>7. CASE CommitApproveExtension(w)
    <2> DEFINE mem == [j.mem EXCEPT !.to = j.ext.newEnd,
                                    !.rental = @ + j.ext.rental,
                                    !.service = @ + j.ext.service]
               row == Save(old, j.seen, mem)
    <2>1. j # Idle /\ j.op = "approveExtension" /\ j.phase = "selected"
      BY <1>7, BusyAt DEF CommitApproveExtension
    <2>2. old \in Row /\ j.mem = old
      BY <2>1, ExtensionJobType DEF FreshJob
    <2>3. row.status = old.status
      BY <2>2 DEF Save, Column, Row
    <2>4. PICK outcome, moved, told : End(w, j.b, outcome, moved, row, told, moved)
      BY <1>7 DEF CommitApproveExtension
    <2> HIDE DEF row, mem
    <2> QED BY <1>1, <2>3, <2>4
  <1>8. CASE CommitNegotiation(w) \/ CommitRequestExtension(w) \/ CommitCloseExtension(w)
    BY <1>8 DEF CommitNegotiation, CommitRequestExtension, CommitCloseExtension
  <1> QED BY <1>3, <1>4, <1>5, <1>6, <1>7, <1>8 DEF Commits

\* No end of a request takes a booking back from completed.
LEMMA CompletedStays ==
    ASSUME TypeInv, TablesCohere, Ended, NEW b \in Bookings, rows[b].status = "completed"
    PROVE  rows'[b].status = "completed"
  <1>1. rows[b] \in Row /\ rows[b].stage = "completed" /\ Exists(b)
    <2>1. Exists(b) /\ rows[b] \in Row
      BY RowExists DEF TypeInv, Exists
    <2>2. Fits(rows[b].status, rows[b].stage)
      BY <2>1 DEF TablesCohere, Coheres, Exists
    <2> QED BY <2>1, <2>2 DEF Fits
  <1>2. ASSUME NEW c \in Bookings, NEW row \in Row, NEW booked \in Amounts, NEW d,
               Turn(c, row, booked, d)
        PROVE  rows'[b].status = "completed"
    <2>1. c # b => rows'[b] = rows[b]
      BY <1>2 DEF Turn, TypeInv, TypeOK
    <2>2. c = b => rows'[b] = row
      BY <1>2 DEF Turn, TypeInv, TypeOK
    <2>3. Fits(row.status, row.stage)
      BY <1>2 DEF Turn, Coheres, Row, Statuses
    <2>4. c = b => StageOrder[row.stage] >= StageOrder["completed"]
      BY <1>1, <1>2 DEF Turn
    <2>5. c = b => row.status = "completed"
      BY <2>3, <2>4, StageOrderIs DEF Fits
    <2> QED BY <2>1, <2>2, <2>5
  <1>3. ASSUME NEW c \in Bookings, NEW e \in Extensions, NEW row \in Row,
               NEW booked \in Amounts, Prolong(c, row, booked, e)
        PROVE  rows'[b].status = "completed"
    BY <1>3 DEF Prolong, TypeInv, TypeOK
  <1> QED BY <1>2, <1>3 DEF Ended, Aside, tables

Done == {b \in Bookings : rows[b].status = "completed"}

\* What makes CompletionsCounted inductive: the completed bookings are finitely many.
CountInv == overlaps = 0 => IsFiniteSet(Done) /\ CompletionsCounted

\* The count of a settlement that ends alone: its booking was not completed yet.
LEMMA SettlementCounts ==
    ASSUME NEW w \in Workers, Serially(w), Ended, IsFiniteSet(Done), CompletionsCounted,
           CommitInspect(w) \/ CommitResolution(w)
    PROVE  IsFiniteSet(Done') /\ CompletionsCounted'
  <1> DEFINE j == job[w]
             row == To(j.mem, "completed", "completed")
  <1> USE DEF Serially
  <1>1. /\ j # Idle /\ j.b \in Bookings /\ j.mem \in Row
        /\ Exists(j.b) /\ rows[j.b].status # "completed"
    <2>1. CASE CommitInspect(w)
      <3>1. j # Idle /\ j.op = "inspect"
        BY <2>1, BusyAt DEF CommitInspect
      <3>2. j.b \in Bookings /\ j.mem \in Row /\ rows[j.b] \in Row
        BY <2>1, BookingJobType DEF CommitInspect
      <3>3. rows[j.b].stage = "returned"
        BY <3>1 DEF FreshJob, Checked
      <3>4. Exists(j.b) /\ Fits(rows[j.b].status, rows[j.b].stage)
        BY <3>2, RowExists DEF TypeInv, TablesCohere, Coheres, Exists
      <3> QED BY <3>1, <3>2, <3>3, <3>4 DEF Fits
    <2>2. CASE CommitResolution(w)
      <3>1. j # Idle /\ j.phase = "resolving"
        BY <2>2 DEF CommitResolution, Idle
      <3>2. j.b \in Bookings /\ j.mem \in Row
        BY <3>1, DisputeJobType
      <3>3. Unresolved(disputes[j.b])
        BY <3>1 DEF FreshJob
      <3>4. rows[j.b].status = "disputed"
        BY <3>2, <3>3 DEF TablesCohere, Coheres
      <3> QED BY <3>1, <3>2, <3>4 DEF Exists
    <2> QED BY <2>1, <2>2
  <1>2. PICK outcome, moved, told, booked :
          /\ End(w, j.b, outcome, moved, row, told, booked)
          /\ completed' \in Counted(outcome)
          /\ outcome \in {"commit", "lost", "rejected"}
    <2>1. CASE CommitInspect(w)
      BY <2>1 DEF CommitInspect, Outcomes
    <2>2. CASE CommitResolution(w)
      BY <2>2 DEF CommitResolution, Outcomes
    <2> QED BY <2>1, <2>2
  <1>3. row.status = "completed"
    BY <1>1, ToType, StagesAre DEF Statuses
  <1> HIDE DEF row
  <1>4. completed \in Nat /\ failures \in Nat /\ Cardinality(Done) \in Nat
    BY FS_CardinalityType DEF TypeInv, TypeOK
  <1>5. Cardinality(Done) <= completed /\ completed <= Cardinality(Done) + failures
    BY DEF CompletionsCounted, Done
  <1>6. CASE outcome = "commit"
    <2>1. rows' = [rows EXCEPT ![j.b] = row] /\ failures' = failures /\ completed' = completed + 1
      BY <1>2, <1>6 DEF End, Counted
    <2>2. Done' = Done \cup {j.b} /\ j.b \notin Done
      BY <1>1, <1>3, <2>1 DEF Done, TypeInv, TypeOK
    <2>3. IsFiniteSet(Done') /\ Cardinality(Done') = Cardinality(Done) + 1
      BY <2>2, FS_AddElement
    <2>4. Cardinality(Done') <= completed' /\ completed' <= Cardinality(Done') + failures'
      BY <1>4, <1>5, <2>1, <2>3
    <2> QED BY <2>3, <2>4 DEF CompletionsCounted, Done
  <1>7. CASE outcome # "commit"
    <2>1. rows' = rows
      BY <1>2, <1>7 DEF End
    <2>2. /\ completed' \in {completed, completed + 1}
          /\ failures' = (IF outcome = "lost" THEN failures + 1 ELSE failures)
          /\ completed' # completed => outcome = "lost"
      BY <1>2, <1>7 DEF End, Counted
    <2>3. Done' = Done
      BY <2>1 DEF Done
    <2>4. Cardinality(Done') <= completed' /\ completed' <= Cardinality(Done') + failures'
      BY <1>4, <1>5, <2>2, <2>3
    <2> QED BY <2>3, <2>4 DEF CompletionsCounted, Done
  <1> QED BY <1>6, <1>7

\* A step without overlap follows a state without overlap, and no request but a
\* settlement changes the count.
LEMMA CountKept ==
    ASSUME TypeInv, NEW w \in Workers, Loads(w) \/ Selects(w) \/ Commits(w)
    PROVE  /\ overlaps' = 0 => overlaps = 0
           /\ ~(CommitInspect(w) \/ CommitResolution(w)) => completed' = completed
           /\ failures' \in Nat /\ failures <= failures'
  <1>1. ASSUME NEW request, Start(w, request)
        PROVE  /\ overlaps' = 0 => overlaps = 0
               /\ failures' = failures
    BY <1>1 DEF Start, TypeInv, TypeOK
  <1>2. CASE Loads(w)
    <2>1. (overlaps' = 0 => overlaps = 0) /\ failures' = failures
      BY <1>1, <1>2 DEF Loads, LoadCreate, LoadApprove, LoadDecline, LoadCancel,
         LoadHandover, LoadScheduleReturn, LoadConfirmReturn, LoadInspect,
         LoadReportDamage, LoadPropose, LoadReject, LoadAccept, LoadAdminResolve,
         LoadRequestExtension, FindExtension, LoadCloseExtension, LoadAtStage,
         Load, LoadDispute, LoadExtension
    <2> QED BY <1>2, <2>1, LoadsKeepTables DEF TypeInv, TypeOK
  <1>3. CASE Selects(w)
    <2>1. overlaps' = overlaps /\ failures' = failures
      BY <1>3 DEF Selects, SelectRow, SelectDispute, LockDispute, LoadApproveExtension,
         Proceed
    <2> QED BY <1>3, <2>1, LoadsKeepTables DEF TypeInv, TypeOK
  <1>4. CASE Commits(w)
    <2>1. overlaps' = overlaps
      BY <1>4, CommitsFree
    <2>2. ~(CommitInspect(w) \/ CommitResolution(w)) => completed' = completed
      BY <1>4 DEF Commits, CommitCreate, CommitApprove, CommitDecline, CommitCancel,
         CommitHandover, CommitScheduleReturn, CommitConfirmReturn, CommitReportDamage,
         CommitNegotiation, CommitRequestExtension, CommitApproveExtension,
         CommitCloseExtension, EndStatusOnly, EndOneStep
    <2>3. failures' \in {failures, failures + 1}
      BY <1>4 DEF Commits, CommitCreate, CommitApprove, CommitDecline, CommitCancel,
         CommitHandover, CommitScheduleReturn, CommitConfirmReturn, CommitInspect,
         CommitReportDamage, CommitNegotiation, CommitResolution, CommitRequestExtension,
         CommitApproveExtension, CommitCloseExtension, EndStatusOnly, EndOneStep, End
    <2> QED BY <2>1, <2>2, <2>3 DEF TypeInv, TypeOK
  <1> QED BY <1>2, <1>3, <1>4

\* Every step preserves the count of the completed bookings.
LEMMA CountNext ==
    ASSUME TypeInv, SerialInv, CountInv, [Next]_vars
    PROVE  CountInv'
  <1> SUFFICES ASSUME overlaps' = 0
               PROVE  IsFiniteSet(Done') /\ CompletionsCounted'
    BY DEF CountInv
  <1>1. ASSUME rows' = rows, completed' = completed, failures' = failures, overlaps = 0
        PROVE  IsFiniteSet(Done') /\ CompletionsCounted'
    BY <1>1 DEF CountInv, Done, CompletionsCounted
  <1>2. CASE UNCHANGED vars
    BY <1>1, <1>2 DEF vars
  <1>3. CASE SaveProfile
    BY <1>3 DEF SaveProfile, TypeInv, TypeOK
  <1>4. ASSUME NEW w \in Workers, Loads(w) \/ Selects(w)
        PROVE  IsFiniteSet(Done') /\ CompletionsCounted'
    <2>1. overlaps = 0 /\ rows' = rows /\ completed' = completed
      BY <1>4, CountKept, LoadsKeepTables DEF tables
    <2>2. failures' \in Nat /\ failures <= failures'
      BY <1>4, CountKept
    <2>3. IsFiniteSet(Done) /\ Cardinality(Done) \in Nat /\ Done' = Done
      BY <2>1, FS_CardinalityType DEF CountInv, Done
    <2>4. completed <= Cardinality(Done) + failures /\ Cardinality(Done) <= completed
      BY <2>1 DEF CountInv, CompletionsCounted, Done
    <2>5. completed' <= Cardinality(Done') + failures' /\ Cardinality(Done') <= completed'
      BY <2>1, <2>2, <2>3, <2>4 DEF TypeInv, TypeOK
    <2> QED BY <2>3, <2>5 DEF CompletionsCounted, Done
  <1>5. ASSUME NEW w \in Workers, Commits(w)
        PROVE  IsFiniteSet(Done') /\ CompletionsCounted'
    <2>1. overlaps = 0 /\ failures' \in Nat /\ failures <= failures'
      BY <1>5, CountKept
    <2>2. Serially(w) /\ Ended
      BY <1>5, <2>1, CommitsBusy, SerialEnd DEF Serially, SerialInv
    <2>3. IsFiniteSet(Done) /\ CompletionsCounted
      BY <2>1 DEF CountInv
    <2>4. CASE CommitInspect(w) \/ CommitResolution(w)
      BY <2>2, <2>3, <2>4, SettlementCounts
    <2>5. CASE ~(CommitInspect(w) \/ CommitResolution(w))
      <3>1. completed' = completed
        BY <1>5, <2>5, CountKept
      <3>2. \A b \in Bookings : rows'[b].status = "completed" <=> rows[b].status = "completed"
        BY <1>5, <2>2, <2>5, CommitsComplete, CompletedStays DEF Serially
      <3>3. Done' = Done
        BY <3>2 DEF Done
      <3>4. Cardinality(Done) \in Nat
        BY <2>3, FS_CardinalityType
      <3>5. completed <= Cardinality(Done) + failures /\ Cardinality(Done) <= completed
        BY <2>3 DEF CompletionsCounted, Done
      <3>6. completed' <= Cardinality(Done') + failures' /\ Cardinality(Done') <= completed'
        BY <2>1, <3>1, <3>3, <3>4, <3>5 DEF TypeInv, TypeOK
      <3> QED BY <2>3, <3>3, <3>6 DEF CompletionsCounted, Done
    <2> QED BY <2>4, <2>5
  <1> QED BY <1>2, <1>3, <1>4, <1>5 DEF Next

\* ... and the provider's profile counts every completed booking, and beyond
\* them at most the requests that were lost.
THEOREM SerialCounts == Spec => [](overlaps = 0 => CompletionsCounted)
  <1>1. Init => CountInv
    <2> SUFFICES ASSUME Init PROVE IsFiniteSet(Done) /\ CompletionsCounted
      BY DEF CountInv
    <2>1. Done = {}
      BY DEF Init, Done, NoRow
    <2>2. IsFiniteSet(Done) /\ Cardinality(Done) = 0
      BY <2>1, FS_EmptySet
    <2> QED BY <2>2 DEF Init, CompletionsCounted, Done
  <1>2. TypeInv /\ SerialInv /\ CountInv /\ [Next]_vars => CountInv'
    BY CountNext
  <1>3. CountInv => (overlaps = 0 => CompletionsCounted)
    BY DEF CountInv
  <1> QED BY <1>1, <1>2, <1>3, TypeCorrect, SerialCorrect, PTL DEF Spec

\* The stage of a booking never goes back along BOOKING_STAGE_ORDER while the
\* requests on the bookings do not overlap.
THEOREM SerialStages == Spec /\ [](overlaps = 0) => StagesMoveForward
  <1> DEFINE Forward == \A b \in Bookings : Exists(b) =>
                           StageOrder[rows'[b].stage] >= StageOrder[rows[b].stage]
  <1>1. ASSUME TypeInv, SerialInv, overlaps' = 0, Next
        PROVE  Forward
    <2>1. \A b \in Bookings : Exists(b) => StageOrder[rows[b].stage] \in Int
      <3>1. \A b \in Bookings : Exists(b) => rows[b].stage \in Stages
        BY <1>1, RowExists, RowFields DEF TypeInv
      <3>2. \A stage \in Stages : StageOrder[stage] \in Int
        BY StagesAre, StageOrderIs
      <3> QED BY <3>1, <3>2
    <2>2. CASE UNCHANGED rows
      BY <2>1, <2>2
    <2>3. ASSUME NEW b \in Bookings, NEW row \in Row, NEW booked, NEW d,
                 Turn(b, row, booked, d)
          PROVE  Forward
      <3>1. rows'[b] = row /\ \A c \in Bookings \ {b} : rows'[c] = rows[c]
        BY <1>1, <2>3 DEF Turn, TypeInv, TypeOK
      <3>2. Exists(b) => StageOrder[row.stage] >= StageOrder[rows[b].stage]
        BY <2>3 DEF Turn
      <3> QED BY <2>1, <3>1, <3>2
    <2>4. ASSUME NEW b \in Bookings, NEW e \in Extensions, NEW row, NEW booked,
                 Prolong(b, row, booked, e)
          PROVE  Forward
      <3>1. \A c \in Bookings : rows'[c].stage = rows[c].stage
        BY <1>1, <2>4 DEF Prolong, TypeInv, TypeOK
      <3> QED BY <2>1, <3>1
    <2> QED BY <1>1, <2>2, <2>3, <2>4, SerialSteps DEF Ended, Aside, tables
  <1>2. TypeInv /\ SerialInv /\ (overlaps = 0)' /\ [Next]_vars =>
          [\A b \in Bookings : Exists(b) =>
             StageOrder[rows'[b].stage] >= StageOrder[rows[b].stage]]_vars
    BY <1>1
  <1> QED BY <1>2, TypeCorrect, SerialCorrect, PTL DEF Spec, StagesMoveForward

\* A completion settles the rental while the requests do not overlap: of what
\* was charged the renter has the deposit back, less the deduction, and the
\* provider the rental; the service fee stays with the platform.
THEOREM SerialCompletions == Spec /\ [](overlaps = 0) => CompletionSettles
  <1> DEFINE Settling ==
        \A b \in Bookings :
          rows'[b].status = "completed" /\ rows[b].status # "completed"
             /\ ledger[b].refund = 0
          => ledger'[b].charge = ledger'[b].release + ledger'[b].forfeit
                                   + ledger'[b].earning + rows'[b].service
  <1>1. ASSUME TypeInv, SerialInv, overlaps = 0, overlaps' = 0, Next
        PROVE  Settling
    <2>1. CASE UNCHANGED rows
      BY <2>1
    <2>2. ASSUME NEW b \in Bookings, NEW row \in Row, NEW booked \in Amounts, NEW d,
                 Turn(b, row, booked, d)
          PROVE  Settling
      <3>1. /\ rows'[b] = row /\ ledger'[b] = Plus(ledger[b], booked)
            /\ \A c \in Bookings \ {b} : rows'[c] = rows[c]
        BY <1>1, <2>2 DEF Turn, TypeInv, TypeOK
      <3> SUFFICES ASSUME row.status = "completed", rows[b].status # "completed"
                   PROVE  ledger'[b].charge = ledger'[b].release + ledger'[b].forfeit
                                                + ledger'[b].earning + rows'[b].service
        BY <3>1
      <3>2. ledger[b].earning = 0 /\ ledger[b] \in Amounts
        <4>1. Coheres(rows[b], ledger[b], disputes[b])
          BY <1>1 DEF SerialInv, TablesCohere
        <4> QED BY <1>1, <4>1 DEF Coheres, TypeInv, TypeOK
      <3>3. /\ ledger'[b].charge = Total(row)
            /\ ledger'[b].release + ledger'[b].forfeit = Deposit
        BY <2>2, <3>1 DEF Turn, Coheres, Fits
      <3>4. ledger'[b].earning = row.rental
        BY <2>2, <3>1, <3>2 DEF Turn, Plus, Amounts, Row
      <3>5. /\ ledger'[b].release \in Nat /\ ledger'[b].forfeit \in Nat
            /\ row.rental \in Nat /\ row.service \in Nat /\ Deposit \in Nat
        BY <3>1, <3>2, AmountsType, RatesAssumption DEF Amounts, Row
      <3> QED BY <3>1, <3>3, <3>4, <3>5 DEF Total
    <2>3. ASSUME NEW b \in Bookings, NEW e \in Extensions, NEW row, NEW booked,
                 Prolong(b, row, booked, e)
          PROVE  Settling
      <3>1. \A c \in Bookings : rows'[c].status = rows[c].status
        BY <1>1, <2>3 DEF Prolong, TypeInv, TypeOK
      <3> QED BY <3>1
    <2> QED BY <1>1, <2>1, <2>2, <2>3, SerialSteps DEF Ended, Aside, tables
  <1>2. TypeInv /\ SerialInv /\ overlaps = 0 /\ (overlaps = 0)' /\ [Next]_vars =>
          [\A b \in Bookings :
             rows'[b].status = "completed" /\ rows[b].status # "completed"
                /\ ledger[b].refund = 0
             => ledger'[b].charge = ledger'[b].release + ledger'[b].forfeit
                                      + ledger'[b].earning + rows'[b].service]_vars
    BY <1>1
  <1> QED BY <1>2, TypeCorrect, SerialCorrect, PTL DEF Spec, CompletionSettles

\* Where no request may begin while another is in progress, as in the run
\* BookingSerial, all of it always holds.
THEOREM OneRequestAtATime ==
    ASSUME MaxOverlaps = 0
    PROVE  Spec => /\ [](/\ StatusFitsStage /\ DisputedWhileUnresolved
                         /\ DepositSettledOnce /\ HistoryMatchesRow
                         /\ OneRenterHoldsTheItem /\ CompletionsCounted)
                   /\ StagesMoveForward
                   /\ CompletionSettles
  <1>1. Init => overlaps = 0
    BY DEF Init
  <1>2. overlaps = 0 /\ [Next]_vars => (overlaps = 0)'
    <2>1. ASSUME overlaps = 0, NEW w, NEW request, Start(w, request)
          PROVE  overlaps' = 0
      BY <2>1 DEF Start
    <2>2. ASSUME overlaps = 0, NEW w \in Workers, Loads(w)
          PROVE  overlaps' = 0
      BY <2>1, <2>2 DEF Loads, LoadCreate, LoadApprove, LoadDecline, LoadCancel,
         LoadHandover, LoadScheduleReturn, LoadConfirmReturn, LoadInspect,
         LoadReportDamage, LoadPropose, LoadReject, LoadAccept, LoadAdminResolve,
         LoadRequestExtension, FindExtension, LoadCloseExtension, LoadAtStage,
         Load, LoadDispute, LoadExtension
    <2>3. ASSUME NEW w \in Workers, Selects(w)
          PROVE  overlaps' = overlaps
      BY <2>3 DEF Selects, SelectRow, SelectDispute, LockDispute, LoadApproveExtension,
         Proceed
    <2>4. overlaps = 0 => ~SaveProfile
      BY DEF SaveProfile
    <2> QED BY <2>2, <2>3, <2>4, CommitsFree DEF Next, vars
  <1>3. Spec => [](overlaps = 0)
    BY <1>1, <1>2, PTL DEF Spec
  <1> QED BY <1>3, SerialStatusFits, SerialDisputes, SerialDeposits, SerialHistory,
             SerialHandovers, SerialCounts, SerialStages, SerialCompletions, PTL
=============================================================================
