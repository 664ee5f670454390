----------------------------- MODULE Engagement -----------------------------
(***************************************************************************)
(* What the two parties of a booking hear of each other: MessagingService, *)
(* the deliveries of DomainEventsListener, which run detached from the     *)
(* request that caused them, and the pages that ask for news on a timer.   *)
(* A page's timer does not wait for the answer of the tick before, so that *)
(* answers may arrive in any order.                                        *)
(***************************************************************************)
EXTENDS Requests, FiniteSets

CONSTANTS MsgIds,    \* bound: the messages ever stored
          EventIds,  \* bound: the events ever emitted
          MaxAnswers \* bound: answers of one kind on their way to a page

Parties == {"renter", "provider"}

ASSUME EngagementAssumption ==
    MaxAnswers \in Nat /\ MsgIds \cap EventIds = {}

VARIABLES
    conversation,  \* there is a conversations row for the booking
    messages,      \* the messages rows
    rows,          \* the notifications rows, by what they tell of and channel
    tasks,         \* where the delivery of each of these stands
    listed,        \* whether the booking's listing is still there
    viewer,        \* the party whose browser is modelled, and the one the
                   \* events are for
    open,          \* the viewer has the thread open,
    thread,        \* the messages it shows,
    lists,         \* the answers with messages on their way to it,
    marking,       \* and whether its POST .../read is
    crashed,       \* history: the process died
    lost           \* history: what a failed query or a crash left untold

pageVars == <<viewer, open, thread, lists, marking>>
vars == <<calls, started, conversation, messages, rows, tasks, listed, pageVars, crashed, lost>>

Callers == Parties \cup {"admin"}
Other(p) == IF p = "renter" THEN "provider" ELSE "renter"

Message == [from : Parties, read : BOOLEAN]
NoMessage == [from |-> "nobody"]
Stored == {m \in MsgIds : messages[m] # NoMessage}

Channels == {"in_app", "email"}
Notices == MsgIds \cup EventIds
Notification == [to : Parties, sent : BOOLEAN]
NoRow == [to |-> "nobody"]

Stages == {"none", "in app", "looking up", "email", "sending", "stamping", "done"}

Recipient(n) == IF n \in MsgIds THEN Other(messages[n].from) ELSE viewer

MessagingCall == [at : {"finding", "resolving", "creating", "storing"}, from : Callers]

TypeOK ==
    /\ calls \in [Workers -> {Idle} \cup MessagingCall]
    /\ started \in 0..MaxCalls
    /\ conversation \in BOOLEAN /\ listed \in BOOLEAN /\ crashed \in BOOLEAN
    /\ messages \in [MsgIds -> Message \cup {NoMessage}]
    /\ rows \in [Notices \X Channels -> Notification \cup {NoRow}]
    /\ tasks \in [Notices -> Stages]
    /\ viewer \in Parties
    /\ open \in BOOLEAN /\ marking \in BOOLEAN
    /\ thread \subseteq MsgIds
    /\ \A answer \in lists : answer \subseteq MsgIds
    /\ lost \subseteq Notices

Init ==
    /\ calls = [w \in Workers |-> Idle]
    /\ started = 0
    /\ conversation = FALSE /\ listed = TRUE /\ crashed = FALSE
    /\ messages = [m \in MsgIds |-> NoMessage]
    /\ rows = [k \in Notices \X Channels |-> NoRow]
    /\ tasks = [n \in Notices |-> "none"]
    /\ viewer \in Parties /\ open = FALSE /\ marking = FALSE
    /\ thread = {} /\ lists = {}
    /\ lost = {}

---------------------------------------------------------------------------
(* MessagingService.sendMessage. *)

\* IsMessagingBookingPartyPolicy, before each of the three routes: admins and
\* the renter pass, who the provider is only the listing tells.
MayUse(who) == who = "provider" => listed

serverRest == <<rows, listed, pageVars, crashed, lost>>

SendMessage(w) ==
    /\ \E from \in Callers : MayUse(from) /\ Begin(w, [at |-> "finding", from |-> from])
    /\ UNCHANGED <<conversation, messages, tasks, serverRest>>

Onward(w, where) == Proceed(w, [calls[w] EXCEPT !.at = where])

\* getOrCreateConversation.
FindConversation(w) ==
    /\ At(w, "finding")
    /\ Onward(w, IF conversation THEN "storing" ELSE "resolving")
    /\ UNCHANGED <<conversation, messages, tasks, serverRest>>

\* The parties come from the booking and its listing, 404 without it.
ResolveParties(w) ==
    /\ At(w, "resolving")
    /\ IF listed THEN Onward(w, "creating") ELSE Proceed(w, Idle)
    /\ UNCHANGED <<conversation, messages, tasks, serverRest>>

\* The unique index on booking_id refuses the second of two: 409.
CreateConversation(w) ==
    /\ At(w, "creating")
    /\ IF conversation THEN Proceed(w, Idle) ELSE Onward(w, "storing")
    /\ conversation' = TRUE
    /\ UNCHANGED <<messages, tasks, serverRest>>

\* Mutant: the policy of the route is thought to be enough.
IsParty(from) == TRUE

IsConversationParty(from) == from \in Parties

\* The message is stored, and its in-app notification started.
StoreMessage(w) ==
    /\ At(w, "storing")
    /\ LET from == calls[w].from
       IN  IF IsConversationParty(from)
           THEN \E m \in MsgIds \ Stored :
                    /\ messages' = [messages EXCEPT ![m] = [from |-> from, read |-> FALSE]]
                    /\ tasks' = [tasks EXCEPT ![m] = "in app"]
           ELSE UNCHANGED <<messages, tasks>>
    /\ Proceed(w, Idle)
    /\ UNCHANGED <<conversation, serverRest>>

Handle(w) ==
    \/ SendMessage(w) \/ FindConversation(w) \/ ResolveParties(w)
    \/ CreateConversation(w) \/ StoreMessage(w)

---------------------------------------------------------------------------
(* Deliveries. *)

taskRest == <<calls, started, conversation, messages, listed, pageVars, crashed>>

\* emitBookingEvent, after the commit of what happened: it needs the listing,
\* and drops the event without it.
EmitBookingEvent(e) ==
    /\ tasks[e] = "none"
    /\ tasks' = [tasks EXCEPT ![e] = IF listed THEN "in app" ELSE "done"]
    /\ UNCHANGED <<rows, lost, taskRest>>

Write(n, channel) ==
    rows' = [rows EXCEPT ![<<n, channel>>] =
        [to |-> Recipient(n), sent |-> channel = "in_app"]]

\* Mutant: an event goes out by email only.
WriteEmailOnly(n) ==
    /\ tasks[n] = "in app"
    /\ IF n \in MsgIds THEN Write(n, "in_app") ELSE UNCHANGED rows
    /\ tasks' = [tasks EXCEPT ![n] = IF n \in MsgIds THEN "done" ELSE "looking up"]
    /\ UNCHANGED <<lost, taskRest>>

\* notifyInApp.  A message, and some of the events, are not worth an email.
WriteInApp(n) ==
    /\ tasks[n] = "in app"
    /\ Write(n, "in_app")
    /\ \E next \in (IF n \in MsgIds THEN {"done"} ELSE {"done", "looking up"}) :
           tasks' = [tasks EXCEPT ![n] = next]
    /\ UNCHANGED <<lost, taskRest>>

\* The recipient may be gone or have no address.
LookUpUser(n) ==
    /\ tasks[n] = "looking up"
    /\ \E next \in {"email", "done"} : tasks' = [tasks EXCEPT ![n] = next]
    /\ UNCHANGED <<rows, lost, taskRest>>

\* notifyEmail: the row, the provider of emails, which may refuse, and sentAt.
WriteEmail(n) ==
    /\ tasks[n] = "email"
    /\ Write(n, "email")
    /\ tasks' = [tasks EXCEPT ![n] = "sending"]
    /\ UNCHANGED <<lost, taskRest>>

SendEmail(n) ==
    /\ tasks[n] = "sending"
    /\ \E next \in {"stamping", "done"} : tasks' = [tasks EXCEPT ![n] = next]
    /\ UNCHANGED <<rows, lost, taskRest>>

StampSent(n) ==
    /\ tasks[n] = "stamping"
    /\ rows' = [rows EXCEPT ![<<n, "email">>].sent = TRUE]
    /\ tasks' = [tasks EXCEPT ![n] = "done"]
    /\ UNCHANGED <<lost, taskRest>>

Deliver(n) ==
    WriteInApp(n) \/ LookUpUser(n) \/ WriteEmail(n) \/ SendEmail(n) \/ StampSent(n)

\* A query fails: deliver() logs it, and no more comes of this one.
FailDelivery(n) ==
    /\ tasks[n] \notin {"none", "done", "sending"}
    /\ tasks' = [tasks EXCEPT ![n] = "done"]
    /\ lost' = IF tasks[n] = "in app" THEN lost \cup {n} ELSE lost
    /\ UNCHANGED <<rows, taskRest>>

---------------------------------------------------------------------------
(* The thread on the booking's page. *)

stored == <<conversation, rows, tasks, listed, viewer, crashed, lost>>

\* openThread empties what the last time left; closed, nothing is shown.
OpenThread ==
    /\ ~open /\ open' = TRUE
    /\ UNCHANGED <<calls, started, messages, thread, lists, marking, stored>>

CloseThread ==
    /\ open /\ open' = FALSE
    /\ thread' = {}
    /\ UNCHANGED <<calls, started, messages, lists, marking, stored>>

\* Mutant: what was read is not listed again.
UnreadMessages == {m \in Stored : messages[m].from = viewer \/ ~messages[m].read}

\* listMessages.
ListMessages == Stored

\* loadThread, every ten seconds and after a send.  A refusal leaves the thread
\* as it is.
LoadThread ==
    /\ open
    /\ MayUse(viewer)
    /\ lists' = lists \cup {ListMessages}
    /\ Cardinality(lists') <= MaxAnswers
    /\ UNCHANGED <<calls, started, messages, open, thread, marking, stored>>

\* An answer is shown, whichever it is, and the thread marked as read.
RenderThread ==
    /\ \E answer \in lists : /\ thread' = IF open THEN answer ELSE {}
                             /\ lists' = lists \ {answer}
    /\ marking' = TRUE
    /\ UNCHANGED <<calls, started, messages, open, stored>>

\* markReadForRecipient: one UPDATE of what the other party sent, shown or not.
MarkRead ==
    /\ marking /\ marking' = FALSE
    /\ messages' = [m \in MsgIds |->
           IF m \in Stored /\ messages[m].from # viewer /\ MayUse(viewer)
           THEN [messages[m] EXCEPT !.read = TRUE] ELSE messages[m]]
    /\ UNCHANGED <<calls, started, open, thread, lists, stored>>

---------------------------------------------------------------------------
\* An admin removes the listing.
RemoveListing ==
    /\ listed
    /\ listed' = FALSE
    /\ UNCHANGED <<calls, started, conversation, messages, rows, tasks, pageVars, crashed, lost>>

\* Deliveries are kept nowhere but in the process.
Crash ==
    /\ ~crashed
    /\ crashed' = TRUE
    /\ Forget
    /\ tasks' = [n \in Notices |-> IF tasks[n] = "none" THEN "none" ELSE "done"]
    /\ lost' = lost \cup {n \in Notices : tasks[n] = "in app"}
    /\ UNCHANGED <<conversation, messages, rows, listed, pageVars>>

Next ==
    \/ \E w \in Workers : Handle(w)
    \/ \E e \in EventIds : EmitBookingEvent(e)
    \/ \E n \in Notices : Deliver(n) \/ FailDelivery(n)
    \/ OpenThread \/ CloseThread \/ LoadThread \/ RenderThread \/ MarkRead
    \/ RemoveListing
    \/ Crash

\* Timers tick, answers arrive - each of them, however late - and the process
\* goes on with a delivery it has begun.
Fairness ==
    /\ \A n \in Notices : WF_vars(Deliver(n))
    /\ WF_vars(LoadThread) /\ WF_vars(RenderThread)

Spec == Init /\ [][Next]_vars /\ Fairness

---------------------------------------------------------------------------
(* Properties. *)

\* A stored message, and an event of a booking whose listing is still there,
\* is to be told, or was told in the app, or is on record as lost: no refusal
\* of an email and no missing address stands between (DomainEventsListener's
\* deliver() and notifyInApp come before the email).
ToldOrLost ==
    /\ \A m \in MsgIds : messages[m] # NoMessage => tasks[m] # "none"
    /\ \A n \in Notices : tasks[n] \notin {"none", "in app"} =>
           \/ n \in lost \/ rows[<<n, "in_app">>] # NoRow
           \/ n \in EventIds /\ ~listed

\* A message that was accepted reaches the reader and stays: whoever has the
\* thread open and may read it sees the message in the end, for good, however
\* late answers of before it arrive, and read messages do not vanish.  A
\* removed listing ends this for the provider, not for the renter.
MessagesStay ==
    \A m \in MsgIds :
        m \in Stored ~> (~open \/ ~MayUse(viewer)
                           \/ [](open /\ MayUse(viewer) => m \in thread))

\* What a delivery was begun for becomes an in-app notification: no refusal
\* by the provider of emails and no missing address prevents it, only a
\* failed query or a crash.
ToldInTheEnd ==
    \A n \in Notices : tasks[n] = "in app" ~> n \in lost \/ rows[n, "in_app"] # NoRow
=============================================================================
