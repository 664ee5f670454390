--------------------------- MODULE ProviderPayouts ---------------------------
(***************************************************************************)
(* FinanceService's payout side: the provider credits of the transactions  *)
(* ledger (earnings and forfeited deposits), the settlements that gather   *)
(* them, and the record of their payment.  BookingLifecycle books the      *)
(* credits; here each one is a row with an identity, of which only the     *)
(* provider and the settlement it is stamped with matter.  A settlement's  *)
(* totalMinor is a sum taken once: it is represented by the set of credits *)
(* it was summed over.                                                     *)
(*                                                                         *)
(* createSettlement is a READ COMMITTED transaction without row locks: it  *)
(* finds the unsettled credits, and later stamps those ids wherever they   *)
(* are by then.  markSettlementPaid checks a copy and saves it, then       *)
(* writes the audit entry on its own.                                      *)
(***************************************************************************)
EXTENDS Integers

CONSTANTS Providers,
          Credits,      \* ids of transactions rows that credit a provider
          Settlements,  \* ids of settlements rows
          Admins,       \* admins with finance.settle, one request each at a time
          References,   \* bank transfer references they type in
          NoSettlement, \* NULL in settlement_id
          NoReference   \* NULL in paid_reference

ASSUME PayoutAssumption ==
    /\ NoSettlement \notin Settlements
    /\ NoReference \notin References

VARIABLES
    credits,      \* transactions rows of a provider-credit type
    settlements,  \* settlements rows
    audit,        \* <<action, settlement>> of the audit log
    request,      \* what each admin is in the middle of
    unaudited     \* history: settlements whose payment was saved by a request
                  \* that ended before its audit entry

vars == <<credits, settlements, audit, request, unaudited>>

Idle == [at |-> "idle"]
NoRow == [status |-> "absent"]
Unbooked == [booked |-> FALSE]

Credit == [booked : {TRUE}, provider : Providers, settlement : Settlements \cup {NoSettlement}]
Settlement == [status : {"pending", "paid"}, provider : Providers,
               counted : SUBSET Credits, reference : References \cup {NoReference}]
Request == [at : {"found"}, provider : Providers, found : SUBSET Credits]
           \cup [at : {"loaded"}, s : Settlements, reference : References]
           \cup [at : {"saved"}, s : Settlements]
           \cup {Idle}

TypeOK ==
    /\ credits \in [Credits -> Credit \cup {Unbooked}]
    /\ settlements \in [Settlements -> Settlement \cup {NoRow}]
    /\ audit \subseteq {"create", "mark_paid"} \X Settlements
    /\ request \in [Admins -> Request]
    /\ unaudited \subseteq Settlements

Init ==
    /\ credits = [c \in Credits |-> Unbooked]
    /\ settlements = [s \in Settlements |-> NoRow]
    /\ audit = {}
    /\ request = [a \in Admins |-> Idle]
    /\ unaudited = {}

Exists(s) == settlements[s].status # "absent"

\* The rows both queries of a wallet select: findable by createSettlement, and
\* summed by sumUnsettledForProvider.
Unsettled(p) == {c \in Credits : /\ credits[c].booked
                                 /\ credits[c].provider = p
                                 /\ credits[c].settlement = NoSettlement}

\* recordProviderEarning, recordProviderForfeitCredit, in the transaction that
\* completes the booking.  An amount of zero inserts nothing.
RecordCredit ==
    \E c \in Credits, p \in Providers :
        /\ credits[c] = Unbooked
        /\ credits' = [credits EXCEPT ![c] = [booked |-> TRUE, provider |-> p,
                                              settlement |-> NoSettlement]]
        /\ UNCHANGED <<settlements, audit, request, unaudited>>

---------------------------------------------------------------------------
(* createSettlement. *)

FindUnsettled(a) ==
    \E p \in Providers :
        /\ request[a] = Idle
        /\ Unsettled(p) # {}
        /\ request' = [request EXCEPT ![a] = [at |-> "found", provider |-> p,
                                              found |-> Unsettled(p)]]
        /\ UNCHANGED <<credits, settlements, audit, unaudited>>

\* Mutant: the update stamps whatever is unsettled by now.
StampedUnsettled(found, p, s) ==
    [c \in Credits |-> IF c \in Unsettled(p)
                       THEN [credits[c] EXCEPT !.settlement = s] ELSE credits[c]]

\* Mutant: the update gives up when the unsettled rows are no longer the found
\* ones, and the settlement is committed all the same.
StampedIfUntouched(found, p, s) ==
    IF found = Unsettled(p)
    THEN [c \in Credits |-> IF c \in found
                            THEN [credits[c] EXCEPT !.settlement = s] ELSE credits[c]]
    ELSE credits

\* update(id IN found): no condition on what the rows are stamped with by now.
Stamped(found, p, s) ==
    [c \in Credits |-> IF c \in found
                       THEN [credits[c] EXCEPT !.settlement = s] ELSE credits[c]]

\* The settlement, the stamps and the audit entry commit together.
CommitSettlement(a) ==
    \E s \in Settlements :
        /\ request[a].at = "found"
        /\ ~Exists(s)
        /\ LET r == request[a]
           IN /\ settlements' = [settlements EXCEPT ![s] =
                     [status |-> "pending", provider |-> r.provider,
                      counted |-> r.found, reference |-> NoReference]]
              /\ credits' = Stamped(r.found, r.provider, s)
        /\ audit' = audit \cup {<<"create", s>>}
        /\ request' = [request EXCEPT ![a] = Idle]
        /\ UNCHANGED unaudited

---------------------------------------------------------------------------
(* markSettlementPaid. *)

\* Mutant: a settlement that does not exist is not told apart from a pending one.
LoadSettlementUnchecked(a) ==
    \E s \in Settlements, reference \in References :
        /\ request[a] = Idle
        /\ settlements[s].status # "paid"
        /\ request' = [request EXCEPT ![a] = [at |-> "loaded", s |-> s,
                                              reference |-> reference]]
        /\ UNCHANGED <<credits, settlements, audit, unaudited>>

LoadSettlement(a) ==
    \E s \in Settlements, reference \in References :
        /\ request[a] = Idle
        /\ Exists(s)
        /\ settlements[s].status # "paid"
        /\ request' = [request EXCEPT ![a] = [at |-> "loaded", s |-> s,
                                              reference |-> reference]]
        /\ UNCHANGED <<credits, settlements, audit, unaudited>>

\* Mutant: the payment is saved and the audit entry forgotten.
SavePaidOnly(a) ==
    /\ request[a].at = "loaded"
    /\ LET r == request[a]
       IN settlements' = [settlements EXCEPT ![r.s].status = "paid",
                                             ![r.s].reference = r.reference]
    /\ request' = [request EXCEPT ![a] = Idle]
    /\ UNCHANGED <<credits, audit, unaudited>>

SavePaid(a) ==
    /\ request[a].at = "loaded"
    /\ LET r == request[a]
       IN /\ settlements' = [settlements EXCEPT ![r.s].status = "paid",
                                                ![r.s].reference = r.reference]
          /\ request' = [request EXCEPT ![a] = [at |-> "saved", s |-> r.s]]
    /\ UNCHANGED <<credits, audit, unaudited>>

AuditPaid(a) ==
    /\ request[a].at = "saved"
    /\ audit' = audit \cup {<<"mark_paid", request[a].s>>}
    /\ request' = [request EXCEPT ![a] = Idle]
    /\ UNCHANGED <<credits, settlements, unaudited>>

\* The process dies, the transaction is rolled back, or the audit entry cannot
\* be written: what was saved before stays saved.
Fail(a) ==
    /\ request[a] # Idle
    /\ unaudited' = unaudited \cup
          (IF request[a].at = "saved" THEN {request[a].s} ELSE {})
    /\ request' = [request EXCEPT ![a] = Idle]
    /\ UNCHANGED <<credits, settlements, audit>>

Next ==
    \/ RecordCredit
    \/ \E a \in Admins : \/ FindUnsettled(a) \/ CommitSettlement(a)
                         \/ LoadSettlement(a) \/ SavePaid(a) \/ AuditPaid(a)
                         \/ Fail(a)

Spec == Init /\ [][Next]_vars

---------------------------------------------------------------------------
(* Properties, of any interleaving. *)

\* A settlement never pays less than the credits stamped with it: what left the
\* wallet under its id was counted in its total, for its provider.
StampedIsCounted ==
    \A c \in Credits : credits[c].booked /\ credits[c].settlement # NoSettlement =>
        LET s == credits[c].settlement
        IN /\ Exists(s)
           /\ c \in settlements[s].counted
           /\ settlements[s].provider = credits[c].provider

\* A credit that some settlement counted never counts as unsettled again: it is
\* stamped, with a settlement that counted it.
CountedIsStamped ==
    \A s \in Settlements : Exists(s) =>
        \A c \in settlements[s].counted :
            credits[c].booked /\ credits[c].settlement # NoSettlement

\* The audit log and the settlements agree: every settlement there is has been
\* audited, no payment is audited that the settlement does not show, and a paid
\* settlement is in the log unless a request is still to write its entry or one
\* ended between the save and the entry.
AuditAgrees ==
    \A s \in Settlements :
        /\ Exists(s) <=> <<"create", s>> \in audit
        /\ <<"mark_paid", s>> \in audit => settlements[s].status = "paid"
        /\ settlements[s].status = "paid" =>
             \/ <<"mark_paid", s>> \in audit
             \/ \E a \in Admins : request[a].at = "saved" /\ request[a].s = s
             \/ s \in unaudited

\* The balance a settlement claims matches exactly the rows marked settled by it.
SettlementsMatchRows ==
    \A s \in Settlements : Exists(s) =>
        settlements[s].counted =
            {c \in Credits : credits[c].booked /\ credits[c].settlement = s}
=============================================================================
