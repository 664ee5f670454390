---------------------------- MODULE PayoutProofs ----------------------------
(***************************************************************************)
(* The invariants of ProviderPayouts, for any number of providers,         *)
(* credits, settlements and admins at work at the same time.               *)
(***************************************************************************)
EXTENDS ProviderPayouts, TLAPS

\* What an admin's request relies on: the found credits are booked credits of
\* its provider, and a settlement once loaded exists, once saved is paid.
RequestsSound ==
    \A a \in Admins :
        /\ request[a].at = "found" =>
             \A c \in request[a].found : /\ credits[c].booked
                                         /\ credits[c].provider = request[a].provider
        /\ request[a].at \in {"loaded", "saved"} => Exists(request[a].s)
        /\ request[a].at = "saved" => settlements[request[a].s].status = "paid"

\* What AuditAgrees asks of a settlement that is paid.
Accounted(s) ==
    \/ <<"mark_paid", s>> \in audit
    \/ \E a \in Admins : request[a].at = "saved" /\ request[a].s = s
    \/ s \in unaudited

IInv == TypeOK /\ RequestsSound /\ StampedIsCounted /\ CountedIsStamped /\ AuditAgrees

\* A stamped credit is stamped with the id of a settlement.
LEMMA CreditType ==
    ASSUME TypeOK, NEW c \in Credits, credits[c].booked,
           credits[c].settlement # NoSettlement
    PROVE  credits[c].settlement \in Settlements
  <1>1. credits[c] # Unbooked
    BY DEF Unbooked
  <1>2. credits[c] \in Credit
    BY <1>1 DEF TypeOK
  <1> QED BY <1>2 DEF Credit

\* The invariant holds of the empty tables.
LEMMA Initially == Init => IInv
  BY DEF Init, IInv, TypeOK, RequestsSound, StampedIsCounted, CountedIsStamped, AuditAgrees,
     Exists, NoRow, Unbooked, Idle, Request

\* Booking a credit preserves the invariant: nobody has counted or stamped it.
LEMMA RecordCreditKeeps == IInv /\ RecordCredit => IInv'
  <1> SUFFICES ASSUME IInv, RecordCredit PROVE IInv'
    OBVIOUS
  <1> USE DEF IInv
  <1>1. PICK d \in Credits, p \in Providers :
          /\ credits[d] = Unbooked
          /\ credits' = [credits EXCEPT ![d] = [booked |-> TRUE, provider |-> p,
                                                settlement |-> NoSettlement]]
          /\ UNCHANGED <<settlements, audit, request, unaudited>>
    BY DEF RecordCredit
  <1>2. \A c \in Credits : c # d => credits'[c] = credits[c]
    BY <1>1 DEF TypeOK
  <1>3. credits'[d] = [booked |-> TRUE, provider |-> p, settlement |-> NoSettlement]
    BY <1>1 DEF TypeOK
  <1>4. \A c \in Credits : credits[c].booked => c # d
    BY <1>1 DEF Unbooked
  <1>5. TypeOK'
    BY <1>1 DEF TypeOK, Credit
  <1>6. RequestsSound'
    BY <1>1, <1>2, <1>4 DEF RequestsSound, TypeOK, Request, Idle, Exists
  <1>7. StampedIsCounted'
    BY <1>1, <1>2, <1>3 DEF StampedIsCounted, Exists
  <1>8. CountedIsStamped'
    BY <1>1, <1>2, <1>4 DEF CountedIsStamped, TypeOK, Settlement, Exists, NoRow
  <1>9. AuditAgrees'
    BY <1>1 DEF AuditAgrees, Exists
  <1> QED BY <1>5, <1>6, <1>7, <1>8, <1>9

\* A settlement stamps what it counted: rows another settlement stamped in the
\* meantime move over to it, none becomes unstamped.
LEMMA CommitSettlementKeeps ==
    ASSUME IInv, NEW a \in Admins, CommitSettlement(a)
    PROVE  IInv'
  <1> USE DEF IInv
  <1> DEFINE found == request[a].found
             p == request[a].provider
  <1>1. PICK s \in Settlements :
          /\ ~Exists(s)
          /\ settlements' = [settlements EXCEPT ![s] =
                [status |-> "pending", provider |-> p, counted |-> found,
                 reference |-> NoReference]]
          /\ credits' = Stamped(found, p, s)
          /\ audit' = audit \cup {<<"create", s>>}
          /\ request' = [request EXCEPT ![a] = Idle]
          /\ request[a].at = "found"
          /\ unaudited' = unaudited
    BY DEF CommitSettlement
  <1>2. /\ found \subseteq Credits /\ p \in Providers
        /\ \A c \in found : credits[c].booked /\ credits[c].provider = p
    BY DEF CommitSettlement, TypeOK, Request, Idle, RequestsSound
  <1>3. \A c \in Credits : IF c \in found
                           THEN /\ credits[c] \in Credit
                                /\ credits'[c] \in Credit
                                /\ credits'[c].provider = p
                                /\ credits'[c].settlement = s
                           ELSE credits'[c] = credits[c]
    <2>1. \A c \in found : credits[c] \in Credit
      BY <1>2 DEF TypeOK, Unbooked
    <2> HIDE DEF found, p
    <2> QED BY <1>1, <1>2, <2>1 DEF Stamped, Credit
  <1>4. /\ settlements'[s] = [status |-> "pending", provider |-> p, counted |-> found,
                              reference |-> NoReference]
        /\ \A t \in Settlements : t # s => settlements'[t] = settlements[t]
    BY <1>1 DEF TypeOK
  <1>5. TypeOK'
    <2>1. credits' \in [Credits -> Credit \cup {Unbooked}]
      <3>1. \A c \in Credits : credits'[c] \in Credit \cup {Unbooked}
        BY <1>3 DEF TypeOK
      <3>2. credits' = [c \in Credits |-> credits'[c]]
        BY <1>1 DEF Stamped
      <3> QED BY <3>1, <3>2
    <2>2. settlements' \in [Settlements -> Settlement \cup {NoRow}]
      BY <1>1, <1>2 DEF TypeOK, Settlement
    <2>3. audit' \subseteq {"create", "mark_paid"} \X Settlements
      BY <1>1 DEF TypeOK
    <2>4. request' \in [Admins -> Request]
      BY <1>1 DEF TypeOK, Request
    <2> QED BY <1>1, <2>1, <2>2, <2>3, <2>4 DEF TypeOK
  <1> HIDE DEF found, p
  <1>6. \A t \in Settlements : Exists(t) => t # s /\ settlements'[t] = settlements[t]
    BY <1>1, <1>4
  <1>7. RequestsSound'
    <2>1. SUFFICES ASSUME NEW v \in Admins
                   PROVE  /\ request'[v].at = "found" => \A c \in request'[v].found :
                               credits'[c].booked /\ credits'[c].provider = request'[v].provider
                          /\ request'[v].at \in {"loaded", "saved"} =>
                               settlements'[request'[v].s].status # "absent"
                          /\ request'[v].at = "saved" => settlements'[request'[v].s].status = "paid"
      BY DEF RequestsSound, Exists
    <2>2. CASE v = a
      BY <1>1, <2>2 DEF TypeOK, Idle
    <2>3. CASE v # a
      <3>1. request'[v] = request[v] /\ request[v] \in Request
        BY <1>1, <2>3 DEF TypeOK
      <3>2. request[v].at = "found" => \A c \in request[v].found :
               credits'[c].booked /\ credits'[c].provider = request[v].provider
        <4> SUFFICES ASSUME request[v].at = "found", NEW c \in request[v].found
                     PROVE  credits'[c].booked /\ credits'[c].provider = request[v].provider
          OBVIOUS
        <4>1. c \in Credits /\ credits[c].booked /\ credits[c].provider = request[v].provider
          BY <3>1 DEF RequestsSound, Request, Idle
        <4> QED BY <1>2, <1>3, <4>1 DEF Credit
      <3>3. request[v].at \in {"loaded", "saved"} =>
               request[v].s \in Settlements /\ Exists(request[v].s)
        BY <3>1 DEF RequestsSound, Request, Idle
      <3>4. request[v].at \in {"loaded", "saved"} =>
               settlements'[request[v].s] = settlements[request[v].s]
        BY <1>6, <3>3
      <3>5. request[v].at = "saved" => settlements[request[v].s].status = "paid"
        BY DEF RequestsSound
      <3> QED BY <3>1, <3>2, <3>3, <3>4, <3>5 DEF Exists
    <2> QED BY <2>2, <2>3
  <1>8. StampedIsCounted'
    <2>1. SUFFICES ASSUME NEW c \in Credits, credits'[c].booked,
                          credits'[c].settlement # NoSettlement
                   PROVE  /\ settlements'[credits'[c].settlement].status # "absent"
                          /\ c \in settlements'[credits'[c].settlement].counted
                          /\ settlements'[credits'[c].settlement].provider
                               = credits'[c].provider
      BY DEF StampedIsCounted, Exists
    <2>2. CASE c \in found
      BY <1>3, <1>4, <2>2
    <2>3. CASE c \notin found
      <3>1. credits'[c] = credits[c] /\ credits[c].settlement \in Settlements
        <4>1. credits'[c] = credits[c]
          BY <1>3, <2>3
        <4> QED BY <2>1, <4>1, CreditType
      <3>2. /\ Exists(credits[c].settlement)
            /\ c \in settlements[credits[c].settlement].counted
            /\ settlements[credits[c].settlement].provider = credits[c].provider
        BY <2>1, <3>1 DEF StampedIsCounted
      <3>3. settlements'[credits[c].settlement] = settlements[credits[c].settlement]
        BY <1>6, <3>1, <3>2
      <3> QED BY <3>1, <3>2, <3>3 DEF Exists
    <2> QED BY <2>2, <2>3
  <1>9. CountedIsStamped'
    <2>1. SUFFICES ASSUME NEW t \in Settlements, settlements'[t].status # "absent",
                          NEW c \in settlements'[t].counted
                   PROVE  credits'[c].booked /\ credits'[c].settlement # NoSettlement
      BY DEF CountedIsStamped, Exists
    <2>2. CASE t = s
      <3>1. c \in found /\ c \in Credits
        BY <1>2, <1>4, <2>1, <2>2
      <3> QED BY <1>3, <3>1, PayoutAssumption DEF Credit
    <2>3. CASE t # s
      <3>1. settlements'[t] = settlements[t] /\ Exists(t) /\ c \in settlements[t].counted
        BY <1>4, <2>1, <2>3 DEF Exists
      <3>2. c \in Credits /\ credits[c].booked /\ credits[c].settlement # NoSettlement
        BY <3>1 DEF CountedIsStamped, TypeOK, Settlement, Exists, NoRow
      <3> QED BY <1>3, <3>2, PayoutAssumption DEF Credit
    <2> QED BY <2>2, <2>3
  <1>10. AuditAgrees'
    <2>1. <<"mark_paid", s>> \notin audit
      BY <1>1 DEF AuditAgrees, Exists
    <2>2. SUFFICES ASSUME NEW t \in Settlements
                   PROVE  /\ settlements'[t].status # "absent" <=> <<"create", t>> \in audit'
                          /\ <<"mark_paid", t>> \in audit' => settlements'[t].status = "paid"
                          /\ settlements'[t].status = "paid" => Accounted(t)'
      BY DEF AuditAgrees, Exists, Accounted
    <2>3. CASE t = s
      BY <1>1, <1>4, <2>1, <2>3
    <2>4. CASE t # s
      <3>1. /\ <<"mark_paid", t>> \in audit' <=> <<"mark_paid", t>> \in audit
            /\ <<"create", t>> \in audit' <=> <<"create", t>> \in audit
            /\ settlements'[t] = settlements[t]
        BY <1>1, <1>4, <2>4
      <3>2. \A v \in Admins : request[v].at = "saved" => request'[v] = request[v]
        BY <1>1 DEF TypeOK
      <3>3. Accounted(t) => Accounted(t)'
        BY <1>1, <3>1, <3>2 DEF Accounted
      <3> QED BY <3>1, <3>3 DEF AuditAgrees, Exists, Accounted
    <2> QED BY <2>3, <2>4
  <1> QED BY <1>5, <1>7, <1>8, <1>9, <1>10

\* Finding the unsettled credits preserves the invariant.
LEMMA FindKeeps ==
    ASSUME IInv, NEW a \in Admins, FindUnsettled(a)
    PROVE  IInv'
  <1> USE DEF IInv
  <1>1. PICK p \in Providers :
          /\ request' = [request EXCEPT ![a] = [at |-> "found", provider |-> p,
                                                found |-> Unsettled(p)]]
          /\ UNCHANGED <<credits, settlements, audit, unaudited>>
    BY DEF FindUnsettled
  <1>2. TypeOK'
    BY <1>1 DEF TypeOK, Request, Unsettled
  <1>3. RequestsSound'
    BY <1>1 DEF RequestsSound, TypeOK, Unsettled, Exists
  <1>4. AuditAgrees'
    <2>1. \A v \in Admins : request[v].at = "saved" => request'[v] = request[v]
      BY <1>1 DEF FindUnsettled, TypeOK, Idle
    <2> QED BY <1>1, <2>1 DEF AuditAgrees, Exists
  <1> QED BY <1>1, <1>2, <1>3, <1>4 DEF StampedIsCounted, CountedIsStamped, Exists

\* Reading a settlement preserves the invariant.
LEMMA LoadKeeps ==
    ASSUME IInv, NEW a \in Admins, LoadSettlement(a)
    PROVE  IInv'
  <1> USE DEF IInv
  <1>1. PICK s \in Settlements, reference \in References :
          /\ Exists(s)
          /\ request' = [request EXCEPT ![a] = [at |-> "loaded", s |-> s,
                                                reference |-> reference]]
          /\ UNCHANGED <<credits, settlements, audit, unaudited>>
    BY DEF LoadSettlement
  <1>2. TypeOK'
    BY <1>1 DEF TypeOK, Request
  <1>3. RequestsSound'
    BY <1>1 DEF RequestsSound, TypeOK, Exists
  <1>4. AuditAgrees'
    <2>1. \A v \in Admins : request[v].at = "saved" => request'[v] = request[v]
      BY <1>1 DEF LoadSettlement, TypeOK, Idle
    <2> QED BY <1>1, <2>1 DEF AuditAgrees, Exists
  <1> QED BY <1>1, <1>2, <1>3, <1>4 DEF StampedIsCounted, CountedIsStamped, Exists

\* Marking paid changes the status and the reference, never what was counted.
LEMMA SaveKeeps ==
    ASSUME IInv, NEW a \in Admins, SavePaid(a)
    PROVE  IInv'
  <1> USE DEF IInv
  <1> DEFINE s == request[a].s
  <1>1. /\ settlements' = [settlements EXCEPT ![s].status = "paid",
                                              ![s].reference = request[a].reference]
        /\ request' = [request EXCEPT ![a] = [at |-> "saved", s |-> s]]
        /\ UNCHANGED <<credits, audit, unaudited>>
    BY DEF SavePaid
  <1>2. s \in Settlements /\ request[a].reference \in References
    BY DEF SavePaid, TypeOK, Request, Idle
  <1>3. settlements[s] \in Settlement
    BY <1>2 DEF SavePaid, RequestsSound, Exists, TypeOK, NoRow
  <1> HIDE DEF s
  <1>4. /\ settlements'[s] \in Settlement
        /\ settlements'[s].status = "paid"
        /\ settlements'[s].counted = settlements[s].counted
        /\ settlements'[s].provider = settlements[s].provider
        /\ \A t \in Settlements : t # s => settlements'[t] = settlements[t]
    BY <1>1, <1>2, <1>3 DEF TypeOK, Settlement
  <1>5. settlements[s].status # "absent"
    BY <1>3 DEF Settlement
  <1>6. TypeOK'
    BY <1>1, <1>2, <1>3 DEF TypeOK, Settlement, Request
  <1>7. RequestsSound'
    <2>1. SUFFICES ASSUME NEW v \in Admins
                   PROVE  /\ request'[v].at = "found" => \A c \in request'[v].found :
                               credits[c].booked /\ credits[c].provider = request'[v].provider
                          /\ request'[v].at \in {"loaded", "saved"} =>
                               settlements'[request'[v].s].status # "absent"
                          /\ request'[v].at = "saved" => settlements'[request'[v].s].status = "paid"
      BY <1>1 DEF RequestsSound, Exists
    <2>2. CASE v = a
      <3>1. request'[v] = [at |-> "saved", s |-> s]
        BY <1>1, <2>2 DEF TypeOK
      <3> QED BY <1>4, <3>1
    <2>3. CASE v # a
      <3>1. request'[v] = request[v] /\ request[v] \in Request
        BY <1>1, <2>3 DEF TypeOK
      <3>2. request[v].at \in {"loaded", "saved"} =>
               request[v].s \in Settlements /\ Exists(request[v].s)
        BY <3>1 DEF RequestsSound, Request, Idle
      <3>3. request[v].at = "found" => \A c \in request[v].found :
               credits[c].booked /\ credits[c].provider = request[v].provider
        BY DEF RequestsSound
      <3>4. request[v].at = "saved" => settlements[request[v].s].status = "paid"
        BY DEF RequestsSound
      <3>5. \A t \in Settlements : settlements'[t].status \in {"paid", settlements[t].status}
        BY <1>4
      <3>6. request[v].at \in {"loaded", "saved"} =>
               settlements'[request[v].s].status # "absent"
        BY <3>2, <3>5 DEF Exists
      <3>7. request[v].at = "saved" => settlements'[request[v].s].status = "paid"
        BY <3>2, <3>4, <3>5
      <3> QED BY <3>1, <3>3, <3>6, <3>7
    <2> QED BY <2>2, <2>3
  <1>8. StampedIsCounted'
    <2>1. \A c \in Credits : credits[c].booked /\ credits[c].settlement # NoSettlement
            => credits[c].settlement \in Settlements
      BY CreditType
    <2>2. SUFFICES ASSUME NEW c \in Credits, credits[c].booked,
                          credits[c].settlement # NoSettlement
                   PROVE  /\ settlements'[credits[c].settlement].status # "absent"
                          /\ c \in settlements'[credits[c].settlement].counted
                          /\ settlements'[credits[c].settlement].provider
                               = credits[c].provider
      BY <1>1 DEF StampedIsCounted, Exists
    <2> DEFINE t == credits[c].settlement
    <2>3. /\ t \in Settlements /\ settlements[t].status # "absent"
          /\ c \in settlements[t].counted
          /\ settlements[t].provider = credits[c].provider
      BY <2>1, <2>2 DEF StampedIsCounted, Exists
    <2> HIDE DEF t
    <2>4. /\ settlements'[t].status # "absent"
          /\ c \in settlements'[t].counted
          /\ settlements'[t].provider = credits[c].provider
      BY <1>4, <2>3
    <2> QED BY <2>4 DEF t
  <1>9. CountedIsStamped'
    BY <1>1, <1>4, <1>5 DEF CountedIsStamped, Exists
  <1>10. AuditAgrees'
    <2>1. request'[a].at = "saved" /\ request'[a].s = s
      BY <1>1 DEF TypeOK
    <2>2. \A v \in Admins : request[v].at = "saved" => request'[v] = request[v]
      BY <1>1 DEF SavePaid, TypeOK
    <2>3. \A t \in Settlements : Accounted(t) => Accounted(t)'
      BY <1>1, <2>2 DEF Accounted
    <2>4. SUFFICES ASSUME NEW t \in Settlements
                   PROVE  /\ settlements'[t].status # "absent" <=> <<"create", t>> \in audit
                          /\ <<"mark_paid", t>> \in audit => settlements'[t].status = "paid"
                          /\ settlements'[t].status = "paid" => Accounted(t)'
      BY <1>1 DEF AuditAgrees, Exists, Accounted
    <2>5. CASE t = s
      <3>1. Accounted(t)'
        BY <2>1, <2>5 DEF Accounted
      <3>2. settlements'[t].status # "absent" /\ <<"create", t>> \in audit
        BY <1>2, <1>4, <1>5, <2>5 DEF AuditAgrees, Exists
      <3> QED BY <1>4, <2>5, <3>1, <3>2
    <2>6. CASE t # s
      BY <1>4, <2>3, <2>6 DEF AuditAgrees, Exists, Accounted
    <2> QED BY <2>5, <2>6
  <1> QED BY <1>6, <1>7, <1>8, <1>9, <1>10

\* Auditing a payment preserves the invariant: the settlement was saved as
\* paid.
LEMMA AuditKeeps ==
    ASSUME IInv, NEW a \in Admins, AuditPaid(a)
    PROVE  IInv'
  <1> USE DEF IInv
  <1>1. /\ request[a].at = "saved"
        /\ audit' = audit \cup {<<"mark_paid", request[a].s>>}
        /\ request' = [request EXCEPT ![a] = Idle]
        /\ UNCHANGED <<credits, settlements, unaudited>>
    BY DEF AuditPaid
  <1>2. request[a].s \in Settlements /\ settlements[request[a].s].status = "paid"
    BY <1>1 DEF RequestsSound, TypeOK, Request, Idle
  <1>3. TypeOK'
    BY <1>1, <1>2 DEF TypeOK, Request
  <1>4. RequestsSound'
    BY <1>1 DEF RequestsSound, TypeOK, Idle, Exists
  <1>5. AuditAgrees'
    <2>1. \A v \in Admins : v # a => request'[v] = request[v]
      BY <1>1 DEF TypeOK
    <2>2. \A t \in Settlements : Accounted(t) => Accounted(t)'
      BY <1>1, <2>1 DEF Accounted
    <2> QED BY <1>1, <1>2, <2>2 DEF AuditAgrees, Exists, Accounted
  <1> QED BY <1>1, <1>3, <1>4, <1>5 DEF StampedIsCounted, CountedIsStamped, Exists

\* A request that fails preserves the invariant: a payment it saved and has not
\* audited is noted as such.
LEMMA FailKeeps ==
    ASSUME IInv, NEW a \in Admins, Fail(a)
    PROVE  IInv'
  <1> USE DEF IInv
  <1>1. /\ unaudited' = unaudited \cup
               (IF request[a].at = "saved" THEN {request[a].s} ELSE {})
        /\ request' = [request EXCEPT ![a] = Idle]
        /\ UNCHANGED <<credits, settlements, audit>>
    BY DEF Fail
  <1>2. request[a].at = "saved" => request[a].s \in Settlements
    BY DEF TypeOK, Request, Idle
  <1>3. TypeOK'
    BY <1>1, <1>2 DEF TypeOK, Request
  <1>4. RequestsSound'
    BY <1>1 DEF RequestsSound, TypeOK, Idle, Exists
  <1>5. AuditAgrees'
    <2>1. \A v \in Admins : v # a => request'[v] = request[v]
      BY <1>1 DEF TypeOK
    <2>2. \A t \in Settlements : Accounted(t) => Accounted(t)'
      BY <1>1, <2>1 DEF Accounted
    <2> QED BY <1>1, <2>2 DEF AuditAgrees, Exists, Accounted
  <1> QED BY <1>1, <1>3, <1>4, <1>5 DEF StampedIsCounted, CountedIsStamped, Exists

\* Every step of every admin keeps the invariant: the five parts together are
\* inductive, none is on its own.
THEOREM Inductive == Spec => []IInv
  <1>1. IInv /\ [Next]_vars => IInv'
    <2>1. CASE UNCHANGED vars
      BY <2>1 DEF vars, IInv, TypeOK, RequestsSound, StampedIsCounted, CountedIsStamped,
         AuditAgrees, Exists, Unsettled
    <2> QED BY <2>1, RecordCreditKeeps, CommitSettlementKeeps, FindKeeps, LoadKeeps,
               SaveKeeps, AuditKeeps, FailKeeps DEF Next
  <1> QED BY <1>1, Initially, PTL DEF Spec

\* The state of the payouts is well typed, whichever request ends where.
THEOREM Typed == Spec => []TypeOK
  <1>1. IInv => TypeOK
    BY DEF IInv
  <1> QED BY <1>1, Inductive, PTL

\* However many admins settle the same wallet at once, a settlement pays at
\* least the credits that left the wallet under its id.
THEOREM NeverUnderpaid == Spec => []StampedIsCounted
  <1>1. IInv => StampedIsCounted
    BY DEF IInv
  <1> QED BY <1>1, Inductive, PTL

\* What a settlement has counted is never offered again as unsettled balance.
THEOREM NeverOfferedAgain == Spec => []CountedIsStamped
  <1>1. IInv => CountedIsStamped
    BY DEF IInv
  <1> QED BY <1>1, Inductive, PTL

\* The audit log and the settlements agree whichever request dies where, but
\* for the payments whose request ended between the save and the entry.
THEOREM AuditSound == Spec => []AuditAgrees
  <1>1. IInv => AuditAgrees
    BY DEF IInv
  <1> QED BY <1>1, Inductive, PTL
=============================================================================
