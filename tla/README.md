# Rently: a formal model

Rently is a rental marketplace: a NestJS modular monolith over Postgres
(`src/backend`), a static frontend prototype (`src/prototype`) and its documents
(`src/docs`). This directory holds TLA+ modules of the backend and of the parts of the
frontend it works with, the TLC configurations that check them on small instances, and
proofs checked by TLAPS.

Six models, each closed in itself:

| Model | Modules | Run | Proofs |
|---|---|---|---|
| The life of a booking, with disputes, extensions, payments, ledger | BookingTypes, BookingLifecycle, BookingProperties | Booking… | BookingSafetyProofs, BookingChargesProofs, FiniteSums |
| Provider payouts | ProviderPayouts | Payouts… | PayoutProofs |
| The admission of a booking: retries, idempotency, calendar, price | Pricing, UnitCalendar, BookingAdmission | Admission | AdmissionProofs, FiniteSums |
| A listing: moderation, photos, owner's verification, reviews | Requests, Gallery, Catalog | Catalog | CatalogProofs |
| An account and the browser that is signed in to it | Requests, Accounts, BrowserSession | Identity | IdentityProofs |
| Messages, notifications, the polled thread | Requests, Engagement | Engagement | EngagementProofs |

Running it, in this directory:

    tlc -workers 2 -config Catalog.cfg MCCatalog
    tlapm CatalogProofs.tla

## 1. Inventory

Paths are below `src/backend/src/`. "State" is what a component persists (or, where
said, keeps in memory).

| Component | State | Operations | Interacts with |
|---|---|---|---|
| Booking lifecycle (`modules/booking/services/booking.service.ts`) | `bookings` (status, stage, window, snapshotted fees), `booking_status_history` | create, approve, decline, cancel, confirmHandover, scheduleReturn, confirmReturn, recordInspection, finalizeDispute | payment port, ledger, listings (price, status, buffer), availability, provider profile's counter; emits domain events |
| Disputes (`dispute.service.ts`) | `disputes`, one per booking | proposeDeduction, respondToProposal, adminResolve | calls finalizeDispute in its own transaction; audit log |
| Extensions (in `booking.service.ts`) | `booking_extension_requests`, at most one pending per booking | request, approve, decline, cancel | writes the booking's end and fees; payment port; ledger |
| Admission and idempotency (`create`, `common/interceptors/idempotency.*`) | the unique idempotency key of a booking; a per-process response cache | choice of an asset, quantity, buffer, blocks | availability, assets, the exclusion constraint |
| Payment port (`payment.port.ts`) | none (an interface and a mock) | charge, refund, release | outside every transaction |
| Finance (`modules/finance`) | `transactions`, `settlements` | the record* inserts, createSettlement, markSettlementPaid, wallet balances | called by the two services above; audit log |
| Listings (`modules/catalog/services/listings.service.ts`) | `listings` (status, price, rating), photos | create, update, publish, pause, approve, reject, request changes, flags, photos | provider verification, audit log, reviews |
| Availability, assets (`modules/catalog/services`) | blocks, physical units | createBlock, isBlocked, activate/deactivate | read by booking |
| Identity (`modules/identity/services`) | users (status, roles), refresh tokens, reset tokens, admin invitations; one-time phone codes in memory | signup, login, refresh, logout, resets, setStatus, setRoles, addRole, invite, revoke | guards of every request |
| Provider profiles, verification | profiles, documents, a counter of completed bookings, a rating | submit, review, recompute | gates publish |
| Reviews (`modules/trust`) | `reviews` | submit, respond, hide, unhide, recompute aggregates | booking status; listings, profiles |
| Messaging, notifications | conversations, messages; notifications | get-or-create, send, mark read; deliver on events | domain events |
| Audit log (`common/audit`) | `audit_logs` | record, inside the caller's transaction or on its own | moderation, finance, disputes |
| Prototype (`src/prototype`) | the session in localStorage, the copy of it each page read, the open thread | sign in and out, refresh, save settings, poll | the API |
| Guards, HTTP shell, storage | – | – | – |

**What makes each correct.** A booking: no double booking of a unit; status, stage,
dispute and history tell one story; the item leaves only when paid; the deposit leaves
escrow once and in full; the ledger never claims money that was not moved. A dispute:
it can always be resolved, and a recorded resolution has been carried out. A payout:
a settlement and the rows it pays match, and nothing is paid twice. A listing: live
only after approval, with a photo when it is published. A session: none survives a suspension or a
logout. A rating: the aggregate of the reviews that exist.

**What is hard.** The services read an entity, check it, and save the copy. There is
no row lock, no version column, and the isolation level is READ COMMITTED; TypeORM's
`save` re-selects the row and updates the columns in which the copy *differs* from it,
so a stale copy brings old values back. Payments are made before or inside
transactions which may still roll back. One constraint (`no_overlapping_bookings`) and
a few unique indexes are all that is decided by the database. `PROJECT.json` lists the
hazards, each at its line, with the properties that cover them.

## 2. The modules

### BookingTypes
The columns of the rows, the amounts a booking moves, the range overlap, and what
`save` does to a row (`Save`, `SaveDispute`: a column is written only where the copy
differs from what was selected). A slot is a rental day, a window is half-open like
the `tstzrange`. The deposit is the same for every booking of the instance; service fee
and total are derived, as in `computeQuote`, from the fee of the days.

### BookingLifecycle
One state machine for `BookingService` and `DisputeService`. The variables are the
tables (`rows`, `trail`, `disputes`, `exts`, `ledger`), what the payment provider really
moved (`port`), the provider's counter (`completed`) and, for every worker, the request
it is in the middle of (`job`). `trail` holds of the history only the last row of each
booking.

A request is two to five steps, one at each point where another request may come
in between:

1. **Load…** reads the rows and makes the checks, on what it read (`approveExtension`
   reads its request in a step of its own, **FindExtension**, before the booking: another
   approval may commit between the two, and the fee is then added to the longer rental);
2. **SelectRow / SelectDispute** is the select inside `save`;
3. **LockDispute** (a resolution only): the update of the dispute row, which locks it,
   and finalizeDispute's read of the booking, on another connection;
4. **Commit…** the transaction's writes and its end.

The writes of one transaction appear at once, as they do to everybody else under READ
COMMITTED. A request that saves the booking more than once (approve, handover, both
kinds of completion) ends by writing every column of its copy, whatever the first save
selected, so for those the select is not a step. Three outcomes end a transaction:
`commit`; `rejected`, when the exclusion constraint (or the unique index on disputes)
refuses one of the versions it writes; `lost`, when the process or the connection dies.
In the last two the database is unchanged and **what the port moved stays moved**. No
request reads the port, so a port call made before or inside a transaction is taken
together with the transaction's end; that changes no request's view. A request that
dies before it calls the port is one that was never made.

| Action pair | Code |
|---|---|
| LoadCreate, CommitCreate | `create` (mode instant: charged and reserved at once) |
| LoadApprove / LoadDecline / LoadCancel, Commit… | `approve`, `decline`, `cancel` |
| LoadHandover, LoadScheduleReturn, LoadConfirmReturn, Commit… | `confirmHandover`, `scheduleReturn`, `confirmReturn` |
| LoadInspect, CommitInspect; LoadReportDamage, CommitReportDamage | the two branches of `recordInspection` |
| LoadPropose, LoadReject, CommitNegotiation | `proposeDeduction`, `respondToProposal` (reject) |
| LoadAccept, LoadAdminResolve, LockDispute, CommitResolution | `respondToProposal` (accept), `adminResolve`, `finalizeDispute` |
| LoadRequestExtension, CommitRequestExtension | `requestExtension` |
| FindExtension, LoadApproveExtension, CommitApproveExtension | `approveExtension` |
| LoadCloseExtension, CommitCloseExtension | `declineExtension`, `cancelExtensionRequest` |
| SaveProfile | `recomputeRatingAggregate`, `approveVerification`, `rejectVerification`: the save of a whole profile, with the count it was read with |
| End, EndStatusOnly, EndOneStep | `recordTransition`, `setStatusOnly`, `runSteps` |

Left out here: who may call an operation (the callers are authorised), the refund
policy's hours (`RefundPcts` is what a policy may return), turnaround buffer, blocks,
assets, quantities above one and idempotency keys (a unit stands for
`COALESCE(asset_id, listing_id)`, and there is no buffer and no block), events,
evidence photos, audit of a dispute, `paymentReference`.

### ProviderPayouts
`createSettlement` in two steps (find the unsettled credits; insert the settlement,
stamp the found ids, audit) and `markSettlementPaid` in three (check a copy, save it,
audit, the last two in transactions of their own), by several admins, with requests that
end at any point. A settlement's `totalMinor` is a sum taken once, so it is represented
by the set of credits it was summed over (`counted`): two totals are then told apart
even when their sums happen to be equal. `unaudited` notes the settlements whose payment
was saved by a request that ended before its audit entry. The earnings and forfeits that
`BookingLifecycle` books are the credits here.

### Pricing
`computeQuote` and `computeCancellationRefund` with their rounding: `Rounded` is
`Math.round` of a quotient of naturals, `Nights` the `Math.max(1, Math.ceil(…))`. The
service fee is a share of the rental, the deposit is multiplied by the quantity. A slot
is a fraction of a day, so a rental can end in the middle of one.

### UnitCalendar
The abstract specification: what admission promises and nothing of how. A checkout (an
idempotency key) is granted a unit for a window at most once, two grants of a unit never
overlap, a grant may be given back.

### BookingAdmission
`POST /bookings` as the page, the interceptor and `create` see it. An *attempt*
`<<k, n>>` is the n-th HTTP request under key k; `handler[a]` says before which query its
handler stands and what it has in memory:

| Step | Code |
|---|---|
| Send | the checkout page presses Pay, the first time or again; `IdempotencyInterceptor` answers from its cache or lets the request in |
| LookUp, ReadListing, CheckBlocks, ChooseUnit, MakeQuote | the reads of `create`, in their order: the booking of the key, the listing, the blocks, the asset or the booked quantity, the quote (which reads the listing again) |
| Insert, Charge, Commit | the transaction; the exclusion constraint and the unique index on the key |
| Respond | the interceptor's `tap` fills the cache; the response |
| Abort, Crash, Expire | a transaction that fails, a process that dies (its cache with it), an entry of the cache that times out |
| CreateBlock, CreateAsset, UpdateAsset, UpdateListing, Release | what others do meanwhile |

`UpdateListingDto` is every column of a listing: of those the admission reads, the owner
may change price, deposit, quantity and mode (`Offers`) under bookings that exist, and
nothing compares a lowered quantity with them. So a booking is held against the quantity
that its own handler read (`offered`, a history column), which is what `create` promises.
The buffer is no column of the DTO.


An insert that meets an uncommitted row in its way **waits**, as Postgres does for a
unique or exclusion constraint; it is refused once that row is committed. This is why a
concurrent retry never reaches the payment port. Worth knowing, and no violation: such a
retry is answered 409 by the index although its booking exists; a booking can be lost
after it was charged (`lost`), and then the retry charges again; the first Asset added to
a listing with asset-less bookings opens windows that those bookings hold, for the
constraint compares `COALESCE(asset_id, listing_id)` only (so the properties
speak of the listing as a whole and of each unit, never of both together).

### Requests
What handlers of the remaining models share: an await-to-await handler per request
(`calls[w]`), and `Merge`, TypeORM's `save` of a copy that was changed.

### Gallery
`addPhoto`, `removePhoto`, `reorderPhotos`, `flagPhoto` of one listing, none in a
transaction. `Sequencing` is the `Promise.all` of saves: its saves happen in any order,
with other handlers between them. A photo whose row is gone when a handler saves its copy
is inserted again, with the old id, without a stored file: `save` takes a row it does not
find for a new one. `reorderPhotos` compares sets of ids and `ReorderPhotosDto` does not ask for distinct ones,
so an order may name a photo twice; its later place counts and the earlier one stays
empty, the cover's place included. `GalleryInOrder` excepts that (`shuffled`).
Photos of a LIVE listing may be removed at any time, below `MIN_LISTING_PHOTOS` too: the
number is looked at by `publish` only.

### Catalog
Gallery together with the rows of the listing, its owner's profile, one verification
document and the reviews. An operation is a record: what it is on, in which statuses,
what it sets, which action it audits; `Read`, `Save`, `Record` are the steps of all of
them, with `Vet` and `CountPhotos` between for `publish` (`submit` and `resume` are its
two outcomes). `Save` writes the *copy* merged with the changes, except for a soft
delete, which writes `deleted_at` alone. `SubmitReview` to `ReadRated` is
`ReviewsService.submit` with both `recomputeRatingAggregate`s; `reviewCount` stands for
the average too, since one is outdated when the other is.

`pauseAsAdmin` looks at no status, and a PAUSED listing goes live by `publish` or
`reinstateAsAdmin`: what a controller, a comment and a test say about approval
(`LiveWasApproved`) is not so, and a run shows it. The audit entry of a pause has the
status before; the model tells the pause of a listing that was live or paused already
from that of another (`pauseUnlisted`), and `LiveIsExplained` says that this and the
approval are the only ways to go live that the log has to tell of. The
history variable `clobbered` marks a save of a copy (or a count) that was no longer so;
what holds only without such a save says so in its property. A clobbering save can
undo a rejection, a flag, a suspension: the columns have no version.

### Accounts
`AuthService`, `TokenService`, `OtpService`, `UsersService` on one account, await by
await. A refresh token is a number in the order of issue, a password the number of the
call that set it. `rotateRefreshToken` issues the successor before it retires the
presented token. History variables mark what the code cannot know: `late`, a token issued
by a handler that had read the account before all tokens were revoked; `astray`, a
descendant of one; `shared`, a reset link used twice at a time. Two real effects the
properties therefore leave room for: a login that was on its way when the account was
suspended ends with a live refresh token (its next refresh fails, because the status is
read again), and its `save` of the whole user can bring the status ACTIVE back.

### BrowserSession
Accounts composed with `api.js` and the pages that use it: the tabs of a browser share
one refresh token in localStorage (`held`), each page keeps what it read when it was loaded
(`read`), and an answer may find its page gone or the connection broken.

| Action | Code |
|---|---|
| SignIn, SignedIn; SignOut, SignedOut | the form of `auth.html`; `apiLogout` |
| Open | `requireSession`, whose result the page keeps as `session` |
| RefreshAccessToken, Refreshed | a 401 in `apiFetch`: one refresh in flight per page, the session cleared when it fails |
| BecomeProvider, RefreshSession, Renewed, Reload, StayHere | the form of `rently.js` that makes a renter a provider: `refreshSession` goes past that one flight, and leaves the tokens where they are when it fails; then `/users/me`, and the tokens are written a second time |
| SaveSettings, Saved | the settings of `dashboard-renter.html`, which write back the tokens of the page's load |
| LoseConnection, Leave | what becomes of a page whose answer is lost, by what it waited for; a closed tab |

A page whose form handler runs beside its own refresh is two tabs here, as all that the
two share is localStorage. `slips` is history: which of the page's doings could have set
off the reuse alarm (two refreshes at a time, a page left while it refreshed,
`refreshSession`'s answer lost, an old token written back). Each of the four alone does
set it off in some behaviour. A refresh answered after another tab has logged out stores a session
again; its token is already revoked, or `late`.

### Engagement
`sendMessage` with find-or-create of the conversation, in-app and email deliveries which
are detached from the request (`DomainEventsListener.deliver`), and the thread of one of
the parties (`viewer`; `booking.html`, `dashboard-provider.html`), which polls every ten
seconds without waiting for the answer before. The policy of the message routes is in the
model (`MayUse`): it learns from the listing who the provider is, so after `RemoveListing`
the provider is refused reading, writing and marking, while the renter passes.
Simultaneous first messages: the unique index refuses one with 409, its message is not
stored. `POST …/read` marks whatever is stored when it arrives, messages included that the
page has not shown. Deliveries begun are lost when the process dies (`lost`).

### MCBooking, MCPayouts, MCAdmission, MCCatalog, MCIdentity, MCEngagement
The instances: model values, windows, and symmetry over interchangeable workers,
bookings, credits, settlements, admins, providers, photos and tabs. No property tells
members of those sets apart, and the two runs that check liveness (Admission, Engagement)
use no symmetry.

## 3. The runs

All bounds are constants named in the modules. `CHECK_DEADLOCK FALSE` everywhere: a
system in which every booking is closed, or the bounds are used up, really stops.

| Run | What it shows |
|---|---|
| **BookingSerial** | One request at a time (one worker), none lost (the theorems about the serial properties cover lost ones). Two bookings of one unit in adjacent windows, either mode, an extension of the first into the second's window, two completions. The status fits the stage; a booking is DISPUTED exactly while its dispute is unresolved; the deposit leaves escrow once and in full; at most one renter has the item of overlapping bookings; the last history row matches the row; stages move forward; a completed booking adds up: charges = release + forfeit + earning + fee; every completion is counted; no two active bookings overlap, though an extension writes another window past every check of `create`. |
| **BookingRacing** | One booking, two workers, at most two requests started while another is in progress, one lost. What the races and the payments outside the transaction *cannot* break: the ledger never exceeds the port; no disputed booking is without a dispute; nothing is reserved or handed over unpaid; an approved extension is paid for on top of the original booking; a recorded resolution has been carried out, the rental of the whole window included. |
| **BookingCancelled** (violation) | `CancelledStaysCancelled`: `cancel` leaves the stage at reserved and the handover checks the stage only, so a cancelled, refunded booking can be handed over and is CONFIRMED again. |
| **BookingDoubleCharge** (violation) | `ChargedOnce`: two approvals of one request read it pending, and both charge. The idempotency header the architecture document requires of every payment endpoint is required of `POST /bookings` only. |
| **BookingBackstop** (violation) | `BackstopAvailable`: DISPUTED is outside the exclusion constraint, so the dates can be booked again; `finalizeDispute` then saves CONFIRMED and is refused, after it has released the deposit, each time it is tried. |
| **Payouts** | Two providers, three credits, two settlements, two admins, two references. Even under races a settlement pays at least what is stamped with it, what was counted never returns to a wallet, and audit log and settlements agree, but for a payment whose request ended before its entry. |
| **PayoutsRaced** (violation) | `SettlementsMatchRows`: two settlements of one provider at once count the same credits, and the second stamps them over. |
| **Admission** | Two checkouts of overlapping windows, for one and for two units, the first of them retried; one asset may be added to the listing; the owner changes between two units with a deposit, booked at once, and one without, on request; a buffer of one slot; two upsets (provider's changes, releases, crash, rollback, expiry) in any combination. One charge per key unless a transaction was lost; one answer per key; never more booked than was on offer; refunds within the charge at each tier's edge; `ImplementsCalendar`, the refinement; `EveryRequestAnswered`. |
| **Catalog** | Three requests, two at a time, of owner, admins and renters about one listing with three photos (limits 1 and 2), two reviews of it and one of a renter; one crash. How a live listing came to be so is in the audit log; the photos stay in order, the ratings count every review, and no decision is undone, each unless a save was outdated. |
| **CatalogUnreviewed** (violation) | `LiveWasApproved`: an admin pauses a draft, and `reinstateAsAdmin` (or `publish`) puts it live. |
| **Identity** | Two tabs and one admin, three requests, one failed query or restart. Which sessions a suspension or a new password leaves; one password per link and code; which of a page's doings may set off the reuse alarm; roles and status of the account. |
| **Engagement** | Two senders of three kinds (renter, provider, admin), the thread of either party, a listing that may be removed, one message stored, one event, two answers on their way to the page, one crash. `ToldOrLost`: nothing that was to be told is over and done with untold unless a failed query or a crash is on record for it; `MessagesStay`: an accepted message is in the open thread for good in the end, in spite of late answers, for the provider as long as the listing is there; `ToldInTheEnd`: what a delivery was begun for becomes an in-app notification unless a query failed or the process died. |

**Fairness.** Only where liveness is checked, and weak only. *Admission*:
`WF(Handle(a))` for each attempt - Node resumes a handler whose query was answered, and
Postgres answers; a handler that waits for another's uncommitted row has no enabled step
until that transaction ends, which is what the property is about. Nothing obliges the
renter to press Pay, the provider to edit or a fault to happen. *Engagement*:
`WF(Deliver(n))` - a delivery once begun is continued; `WF(LoadThread)`, the interval
timer of an open page (not enabled, so nothing is owed, while the policy refuses the viewer); `WF(RenderThread)` - some answer on its way arrives.

**Why the bounds are enough.** One unit, because units share nothing. Two bookings,
because the constraint and every overlap are about pairs. Two workers, because a lost
update needs two; two requests that start while another is in progress let a third
request see the outcome of the first race. One lost request per behaviour covers each
request being the lost one. One extension row, since at most one is pending per booking.
Deposit 1 makes a deduction all or nothing: release, forfeit and their sum are still
told apart. `RefundPcts = {50}`: one value between none and all, with rounding (half of
10 in the runs; the rounding term is in the operator). `MaxCompletions` and
`MaxReleased` stop settlements that could be repeated for ever (a rejected one releases
again at every retry).

Admission: a lost or repeated charge needs one key with two attempts, an overbooking two
keys; two upsets let one fault fall into the consequences of another (a crash after a
release, a second asset status). The windows overlap in part, so each can be refused
because of the other, and a buffer of one slot reaches into the neighbour's. Quantity two
or one against requests for one and two units fills, exceeds and just fits, and may be
lowered between the count and the insert. Catalog: a lost
update needs two handlers; the third call sees its outcome (publish after a clobbering
pause, a second renumbering). Three photos over a limit of two let a race exceed the
limit. Identity: two tabs make an overlap, the admin's request is the third party; a
third call lets a token descend from a late one, or a retired one be presented after its
successor was stored. Engagement: one message between one
earlier and one later answer is enough for an answer to overtake it.

**What concurrent requests do break.** The serial properties are not claimed for
concurrent requests: two inspections at once both release the deposit, an approval and a
cancel at once leave a charged booking cancelled without a refund, a stale save of the
profile brings an old count of completions back. `BookingDoubleCharge`
is the instance of this for which the documents promise otherwise.

**Mutants.** Beside the operators stand mutants of them (each named in a comment that
starts with "Mutant"): a plausible bug each. For every property of a passing run,
`PROJECT.json` names one under which TLC finds the property violated.

## 4. The proofs

Checked by TLAPS for every value of the constants, under the assumptions
`RatesAssumption`, `LifecycleAssumption` (windows go forward, refund percentages are at
most 100, bounds are naturals), `PayoutAssumption` (the null values are not ids),
`PricingAssumption`, `AdmissionAssumption` (rates and amounts are naturals, windows go
forward), `RequestsAssumption`, `GalleryAssumption` (among it `MinPhotos <= MaxPhotos`; the
source has 1 and 4), `CatalogAssumption` (finitely many
photos and reviews, and no review is named like another entity), `AccountsAssumption`,
`BrowserAssumption` (a call is a tab's or an admin's), `EngagementAssumption` (a message is
no event). Every invariant and action property that a passing run checks is the statement
of a theorem, the refinement included; the liveness properties are not.

* **BookingSafetyProofs**
  * `TypeCorrect`, `TypesHold`: the types, with `WellFormed`. The types alone are not
    inductive: a resolution saves a copy of the booking it read, which is a row only if
    disputes, extension requests and requests in progress refer to bookings that exist.
    One lemma per action.
  * `NoDoubleBooking` (`NoOverlap`): every step writes at most one row (`Written`), and
    one that `Accepts` allowed, evaluated in the state it is written to; the overlap test
    is symmetric, so one accepted row at a time never makes a pair overlap.
  * `LedgerNeverOverstates` (`LedgerBackedByPort`): every transaction's ledger entries are
    covered by what it moved (`Covers`), in every outcome.
  * `NoStrandedDispute` (`DisputedHasDispute`): `approveExtension` looks neither at status
    nor at stage, so a copy read while DISPUTED can be saved later; the invariant
    therefore speaks of the copies in memory (`DisputeCopies`) and rests on no dispute
    ever disappearing (`DisputesRemain`).
  * `SerialStatusFits`, `SerialDisputes`, `SerialDeposits`, `SerialHistory`,
    `SerialHandovers`, `SerialCounts`: the serial properties, each as `Spec => [](overlaps = 0 => …)` for any
    number of workers and lost requests, and `SerialStages`, `SerialCompletions` for the
    behaviours in which `overlaps` stays 0. `overlaps` counts requests that began while
    another was in progress, so the premise is the one under which the properties are
    claimed and nothing stronger; for `MaxOverlaps = 0` (`OneRequestAtATime`) it always
    holds. None is inductive: the commit writes what the load found. `SerialInv` says that
    the request in progress is `Alone`, that its copies are what the tables hold
    (`FreshJob`), and that row, ledger and dispute of each booking tell one story
    (`TablesCohere`, in which the first five properties are parts of one statement: whether the
    deposit is out depends on the status, the status on the dispute, the charge on the
    stage). A lost request leaves the tables as they were, so the next one starts from a
    coherent story; the counter alone may be one ahead for each, for the increment is
    committed by itself (`CountInv`). It has no theorem for overlapping requests: there a
    stale profile undoes counts.
* **BookingChargesProofs**
  * `ReservedPaid` (`ReservedIsPaid`): neither the row nor its stage tells what was
    charged, since a stale copy may take a booking back to an earlier stage and an
    extension changes the price. `ChargesInv` gives each booking the length it was first
    booked for (`base`): every version of its row, stored or in a request's memory, costs
    a whole number of slots (`Priced`), is of the base length or charged in full, and the
    base is charged as soon as any version, dispute or extension shows the booking went
    that far (`Sound`, `SoundJob`). `SavePriced` is the crux: a save that mixes the columns
    of two versions never mixes the fees of two lengths, because equal fees at a rate mean
    equal lengths unless the rate is 0.
  * `ExtensionsPaid` (`ExtensionsArePaid`): the price first booked plus the prices of all
    approved extensions is in the ledger. `ExtensionsInv` keeps, beside each booking, the
    window it was first booked for (a witness no row holds any more), says that its charge
    covers that and every extension approved so far, and that two requests in flight never
    hold the same new extension row (or one charge would pay for two). The sum runs over
    the approved rows of an unbounded table, of which finitely many were ever requested.
  * `ResolutionsCarriedOut` (`ResolutionCarriedOut`): the property alone is not inductive,
    for a stale proposal or rejection can write back the columns of an earlier decision,
    one by one. `ResolutionInv` therefore says of each column separately that the ledger
    has carried it out (`Carried`), in the stored dispute and in the copies of
    negotiations; that a completion earns at least the rental of the window first booked comes
    from `ExtensionsInv` (`Earned`), whose witness is that window.
* **FiniteSums** – what `MapThenSumSet` of the community modules computes over a finite set:
  the sum exists, is unique and natural, does not depend on the order in which `CHOOSE` takes
  the elements, and may be taken apart at any of them. The induction theorems of the library
  cannot be used (they take an operator as a parameter); in their place stands a smallest
  counterexample: the strict subset ordering of a finite set is well founded, so among the
  subsets for which a lemma failed there would be a minimal one.
* **PayoutProofs** – `Inductive`: types, what requests rely on (`RequestsSound`) and the
  three properties together, `AuditAgrees` split by settlement (`Accounted`); `Typed`, `NeverUnderpaid`, `NeverOfferedAgain`, `AuditSound`
  follow.
* **AdmissionProofs** – the invariant is `TypeOK` with `Sound`: a handler is in its
  transaction exactly while its row is uncommitted (`RowsInTheMaking`), at most one row
  per key exists, in the making or committed (`OneRowPerKey`), answers and cached answers
  name a committed booking of their key (`RepliesTrue`, `CacheTrue`), a key without a
  booking has lost every charge (`ChargesKept`), and no two rows exclude each other
  (`Apart`). `ChargedOncePerKey` alone is not inductive: that a charge is not repeated
  rests on the uncommitted row that the retry would have to insert beside. From it
  `NeverChargedTwice`, `OneAnswer`, and `Refinement`: every step of admission is a grant,
  a return or a stutter of `UnitCalendar`; a crash maps to a stutter since an uncommitted
  row is no grant.
  * `NeverOversold` (`QuantityNeverOversold`): not from what `getBookedQuantity` counted,
    which is old by the time of the insert, but from the exclusion constraint: by `Apart` at
    most one booking of the listing as a whole covers an instant, and `FitsQuantity` says
    that no request gets past `ChooseUnit` asking for more than it read, even when nothing
    else is booked. That is all there is to promise: the owner may lower the quantity below
    what is booked. The sum is then over at most one element.
  * `RefundsWithinCharge` (`RefundWithinCharge`), from lemmas about the operators for every
    quote and every number of hours: a rounded share lies between nothing and the amount
    (`RoundedShare`), the percentage of a policy never falls with the time left
    (`PercentageGrows`), so neither does the refund (`RefundGrows`).
* **CatalogProofs** – `LiveExplained` (`LiveIsExplained`) needs more than the row: a copy that was read
  while the listing was live or paused can be saved at any later time, so `LiveNeedsReview`
  speaks of the rows *and* the copies in memory, with `CopiesFit` (a copy in hand is in a
  status its operation allows) and `RecordedIsSaved` (what is about to be recorded was
  done, so that a crash loses a record but not the reason). `OperationsStand` is the fact
  about the table of operations: none sets what another decided, none but `approve` and
  `pauseUnlisted` brings a listing into {live, paused} from outside. `DecisionsKept` is the
  same table applied to a step whose copy equals the row.
  * `RatingsKept` (`RatingsCurrent`): the count is not right at every moment, and the one
    who will make it right may not have counted yet. `RatingsDue` says that an aggregate is
    that of all reviews or some submit has still to save it (`Due`): the listing's before
    the owner's, and a count that has become old by the time it is saved sets `clobbered`.
  * `GalleryOrdered` (`GalleryInOrder`): `GalleryKept` follows the positions through the
    unordered saves of `Sequencing`: with the saves still to come, every photo has its own
    number (`SequenceFits`), one handler at most renumbers, and nobody about to add has
    counted up to the limit. That numbers below the count, each taken once, leave no gap
    is the pigeonhole (`NumberedFills`, on the library's theorems about injections).

* **IdentityProofs** – `Inductive`: the shape of what each handler holds (`Shape`), `AllFit`
  once the revocations are through, and `Numbered`. `SessionsCutOff` speaks of the moments
  when nobody is at work, so `AllFit` says of every handler on its way to a token that
  either it read the account before a revocation (`Stale`), and its token will be late, or
  the account is active and of its password (`Fits`); that there is a number left for the
  token of every such handler is counted (`Numbered`), or the token could overwrite one.
  * `CutOff` (`SessionsCutOff`), `AccountsStand` (`AccountStands`), `Typed`.
  * `ResetsOnce` (`OneResetEach`): codes used, in use and in the store are together no
    more than were sent (`CodeInv`); a link is active and unused, and held by one call, as
    long as a call is at it (`LinkInv`).
  * `AlarmEarned` (`ReuseAlarmIsEarned`): as long as no page slipped (`Innocent`), a
    token is presented to one call and before it is revoked (`Presented`), what is on its
    way back was never presented (`Returned`), and the token in localStorage is in use or
    a page waits for its successor (`HeldIsFresh`, `TokenAwaited`). A lost answer is the
    interesting case: `apiFetch` clears localStorage, so the handler that goes on revokes a
    token that nobody has any more; `refreshSession` does not, which is a slip. What a
    page keeps of its load does not enter: to write it back is a slip unless it is the
    token that localStorage has anyway.

* **EngagementProofs** – `Typed`, `ToldUnlessLost` (`ToldOrLost`), `ToldTheRightOne`. The
  first two are the safety half of `ToldInTheEnd`: fairness shows that a delivery ends,
  the invariant that it does not end untold. It needs the rows to come in turn
  (`RowsComeInTurn`), and each delivery in progress to have its message and, once the
  email goes out, its row (`TasksSound`), through crashes and failed queries;
  `ToldTheRightOne` adds that marking a thread as read meanwhile does not change whom a
  notification is for.

**What the proofs changed in the model.** `Catalog.After` chose the next step by a CASE
whose guards overlapped for a rating of the listing; TLC takes the first, the prover may
not: the guards are disjoint now. `GalleryAssumption` says that the limits are in order.

**Only model-checked.** The liveness properties `EveryRequestAnswered`, `MessagesStay`,
`ToldInTheEnd`: liveness under fairness and ENABLED are out of the prover's reach. The five
violations are counterexamples, found by TLC on the instances. What a recursive definition
computes for every input cannot be proved in general; `FiniteSums` is the exception, for
sums of naturals.

## 5. Findings

The five violation runs above. Each is a disagreement between the code and a sentence of
its documents or comments, quoted in `PROJECT.json`.

## 6. Plan

What could be added next, in this order:

1. The connection pool: a transaction holds one connection and waits for a second
   (`findByIdOrFail` and the counter inside `confirmReturn`, `approve`); liveness under the
   fairness of the pool's queue. A hazard without a property until then.
2. A rental contract (requested, held, out, settled) that `BookingLifecycle` implements
   when requests do not overlap, with a proof from `SerialInv`.
3. The admin roles and permission sets (`PermissionsService`), the read marks of
   notifications, the upload of documents.
4. Whatever a removed listing takes with it: ownership checks, policies and prices are
   looked up through it in most modules, and only the messages' policy is modelled.

## 7. Not modelled

* **Categories and listing attributes.** Reference data, and a validation per field of one
  request; its only state is a cache of compiled schemas.
* **Guards and policies.** A decision per request from a token and a lookup, without state
  of their own; callers in the models are authorised, except in Engagement, where the
  removal of a listing changes what the policy says. Access tokens, and time that makes
  tokens, links and codes worthless, are left out with them.
* **HTTP shell, configuration, storage, health.** Wiring of the framework and plain I/O.
* **PermissionsService**, document upload, read marks: see the plan.
* **Other pages of the prototype.** The pages keep a copy of the session from their load
  and write it back in one place, which `BrowserSession` has; what else they keep between
  requests (filters, drafts of forms, the lists they show) reaches no token and no row.
  `assets/rently.js` is markup but for the form that makes a renter a provider.
* **Creating and duplicating a listing.** One insert; the catalog starts after it, and the
  columns of `update` are one there, as no moderation looks at them; in the admission,
  price, deposit, quantity and mode are told apart.
