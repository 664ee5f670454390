-------------------------- MODULE EngagementProofs --------------------------
(***************************************************************************)
(* The invariants of Engagement, for any number of messages, events and    *)
(* requests.  That what is on its way arrives is liveness and left to TLC; *)
(* what is proved here is its safety half: nothing that was to be told is  *)
(* over and done with unless the notification is there, or a failed query  *)
(* or a crash is on record for it.                                         *)
(***************************************************************************)
EXTENDS Engagement, TLAPS

\* What a delivery relies on: the message it tells of is stored, and the row
\* whose email is being sent exists.
TasksSound ==
    /\ \A m \in MsgIds : tasks[m] # "none" => messages[m] # NoMessage
    /\ \A n \in Notices : tasks[n] \in {"sending", "stamping"} => rows[<<n, "email">>] # NoRow

\* A notification of a message is for the party that did not write it, and an
\* email says it was sent only when nothing is left to do for it.
RightReader ==
    /\ \A m \in MsgIds, c \in Channels :
           rows[<<m, c>>] # NoRow => rows[<<m, c>>].to = Other(messages[m].from)
    /\ \A n \in Notices :
           rows[<<n, "email">>] # NoRow /\ rows[<<n, "email">>].sent => tasks[n] = "done"

\* Each row is written when its step comes: before it, there is none.
RowsComeInTurn ==
    \A n \in Notices :
        /\ tasks[n] \in {"none", "in app"} => rows[<<n, "in_app">>] = NoRow
        /\ tasks[n] \in {"none", "in app", "looking up", "email"} => rows[<<n, "email">>] = NoRow

IInv == TypeOK /\ TasksSound /\ ToldOrLost /\ RightReader /\ RowsComeInTurn

taskVars == <<messages, rows, tasks, lost>>

\* No stored message is the empty row.
LEMMA StoredMessage ==
    ASSUME TypeOK, NEW m \in MsgIds, messages[m] # NoMessage
    PROVE  messages[m] \in Message /\ messages[m].from \in Parties
  <1>1. messages[m] \in Message
    BY DEF TypeOK
  <1> QED BY <1>1 DEF Message

\* Any notice has one of the parties for its reader.
LEMMA RecipientType ==
    ASSUME TypeOK, NEW n \in Notices, n \in MsgIds => messages[n] # NoMessage
    PROVE  Recipient(n) \in Parties
  BY StoredMessage, EngagementAssumption DEF Recipient, Other, Parties, TypeOK

\* The invariant holds before the first request.
LEMMA Initially == Init => IInv
  <1> SUFFICES ASSUME Init PROVE IInv
    OBVIOUS
  <1>1. TypeOK
    <2>1. started \in 0..MaxCalls
      BY RequestsAssumption DEF Init
    <2> QED BY <2>1 DEF Init, TypeOK, Stages
  <1>2. \A n \in Notices : /\ rows[<<n, "email">>] = NoRow /\ rows[<<n, "in_app">>] = NoRow
                            /\ tasks[n] = "none"
    BY DEF Init, Channels
  <1>3. \A m \in MsgIds : messages[m] = NoMessage
    BY DEF Init
  <1>4. \A n \in Notices, c \in Channels : rows[<<n, c>>] = NoRow
    BY DEF Init
  <1>5. MsgIds \subseteq Notices
    BY DEF Notices
  <1> QED BY <1>1, <1>2, <1>3, <1>4, <1>5
        DEF IInv, TasksSound, ToldOrLost, RightReader, RowsComeInTurn

\* What leaves messages, notifications and deliveries alone, and does not bring
\* a listing back, keeps everything but the types.
LEMMA RestKeeps ==
    ASSUME IInv, UNCHANGED taskVars, listed' => listed, TypeOK'
    PROVE  IInv'
  BY DEF IInv, taskVars, TasksSound, ToldOrLost, RightReader, RowsComeInTurn

\* The handler's own steps: types of the calls.
LEMMA CallTypes ==
    ASSUME TypeOK, NEW w \in Workers, NEW call \in {Idle} \cup MessagingCall, Goto(w, call)
    PROVE  calls' \in [Workers -> {Idle} \cup MessagingCall]
  BY DEF TypeOK, Goto

\* A message that is being sent is in the handler of one of the senders.
LEMMA CallOf ==
    ASSUME TypeOK, NEW w \in Workers, calls[w].at # "idle"
    PROVE  /\ calls[w] \in MessagingCall
           /\ \A where \in {"finding", "resolving", "creating", "storing"} :
                  [calls[w] EXCEPT !.at = where] \in MessagingCall
  <1>1. calls[w] \in MessagingCall
    BY DEF TypeOK, Idle
  <1> QED BY <1>1 DEF MessagingCall

\* Up to the storing, sendMessage preserves the invariant.
LEMMA HandlerKeeps ==
    ASSUME IInv, NEW w \in Workers,
           SendMessage(w) \/ FindConversation(w) \/ ResolveParties(w) \/ CreateConversation(w)
    PROVE  IInv'
  <1> USE DEF IInv
  <1>1. UNCHANGED <<messages, rows, tasks, lost, listed, crashed>> /\ UNCHANGED pageVars
    BY DEF SendMessage, FindConversation, ResolveParties, CreateConversation, serverRest
  <1>2. /\ calls' \in [Workers -> {Idle} \cup MessagingCall]
        /\ started' \in 0..MaxCalls
    <2>1. CASE SendMessage(w)
      <3>1. PICK from \in Callers : Begin(w, [at |-> "finding", from |-> from])
        BY <2>1 DEF SendMessage
      <3>2. [at |-> "finding", from |-> from] \in MessagingCall
        BY DEF MessagingCall
      <3>3. Goto(w, [at |-> "finding", from |-> from])
        BY <3>1 DEF Begin
      <3>4. started' \in 0..MaxCalls
        BY <3>1, RequestsAssumption DEF Begin, TypeOK
      <3> QED BY <3>2, <3>3, <3>4, CallTypes
    <2>2. CASE FindConversation(w) \/ ResolveParties(w) \/ CreateConversation(w)
      <3>1. calls[w].at # "idle"
        BY <2>2 DEF FindConversation, ResolveParties, CreateConversation, At
      <3>2. \E call \in {Idle} \cup MessagingCall : Proceed(w, call)
        BY <2>2, <3>1, CallOf
           DEF FindConversation, ResolveParties, CreateConversation, Onward
      <3>3. started' \in 0..MaxCalls
        BY <3>2 DEF Proceed, TypeOK
      <3> QED BY <3>2, <3>3, CallTypes DEF Proceed
    <2> QED BY <2>1, <2>2
  <1>3. conversation' \in BOOLEAN
    BY DEF TypeOK, SendMessage, FindConversation, ResolveParties, CreateConversation
  <1>4. TypeOK'
    BY <1>1, <1>2, <1>3 DEF TypeOK, pageVars
  <1> QED BY <1>1, <1>4, RestKeeps DEF taskVars

\* Storing a message preserves it: its delivery begins with it.
LEMMA StoreMessageKeeps ==
    ASSUME IInv, NEW w \in Workers, StoreMessage(w)
    PROVE  IInv'
  <1> USE DEF IInv
  <1>1. calls[w].at # "idle" /\ Proceed(w, Idle)
    BY DEF StoreMessage, At
  <1>2. /\ calls' \in [Workers -> {Idle} \cup MessagingCall]
        /\ started' \in 0..MaxCalls
    BY <1>1, CallTypes DEF Proceed, TypeOK
  <1>3. UNCHANGED <<conversation, rows, listed, crashed, lost>> /\ UNCHANGED pageVars
    BY DEF StoreMessage, serverRest
  <1>4. CASE UNCHANGED <<messages, tasks>>
    <2>1. TypeOK'
      BY <1>2, <1>3, <1>4 DEF TypeOK, pageVars
    <2> QED BY <1>3, <1>4, <2>1, RestKeeps DEF taskVars
  <1>5. CASE ~UNCHANGED <<messages, tasks>>
    <2> DEFINE new == [from |-> calls[w].from, read |-> FALSE]
    <2>1. PICK m \in MsgIds \ Stored :
            /\ messages' = [messages EXCEPT ![m] = new]
            /\ tasks' = [tasks EXCEPT ![m] = "in app"]
      BY <1>5 DEF StoreMessage
    <2>2. new \in Message /\ new # NoMessage
      BY <1>5 DEF StoreMessage, IsConversationParty, Message, NoMessage
    <2> HIDE DEF new
    <2>3. m \in Notices /\ messages[m] = NoMessage
      BY <2>1 DEF Notices, Stored
    <2>4. tasks[m] = "none" /\ \A c \in Channels : rows[<<m, c>>] = NoRow
      BY <2>1, <2>3 DEF TasksSound, ToldOrLost, RowsComeInTurn, Channels, Stored
    <2>5. /\ messages'[m] = new /\ tasks'[m] = "in app"
          /\ \A k \in MsgIds : k # m => messages'[k] = messages[k]
          /\ \A n \in Notices : n # m => tasks'[n] = tasks[n]
      BY <2>1, <2>3 DEF TypeOK
    <2>6. TypeOK'
      <3>1. messages' \in [MsgIds -> Message \cup {NoMessage}]
        BY <2>1, <2>2 DEF TypeOK
      <3>2. tasks' \in [Notices -> Stages]
        BY <2>1 DEF TypeOK, Stages
      <3> QED BY <1>2, <1>3, <3>1, <3>2 DEF TypeOK, pageVars
    <2>7. TasksSound'
      BY <1>3, <2>2, <2>3, <2>5 DEF TasksSound, Notices
    <2>8. ToldOrLost'
      BY <1>3, <2>3, <2>5 DEF ToldOrLost, Notices
    <2>9. RightReader'
      BY <1>3, <2>1, <2>4, <2>5 DEF RightReader, Channels
    <2>10. RowsComeInTurn'
      BY <1>3, <2>1, <2>4, <2>5 DEF RowsComeInTurn, Channels
    <2> QED BY <2>6, <2>7, <2>8, <2>9, <2>10
  <1> QED BY <1>4, <1>5

---------------------------------------------------------------------------
(* Deliveries. *)

\* The type of the state after a step of a delivery.
LEMMA TaskTypes ==
    ASSUME TypeOK, NEW n \in Notices, NEW next \in Stages,
           tasks' = [tasks EXCEPT ![n] = next], UNCHANGED taskRest,
           lost' \subseteq Notices,
           rows' \in [Notices \X Channels -> Notification \cup {NoRow}]
    PROVE  /\ TypeOK'
           /\ tasks'[n] = next
           /\ \A k \in Notices : k # n => tasks'[k] = tasks[k]
  BY DEF TypeOK, taskRest, pageVars

\* The two rows of a notice are rows of their own.
LEMMA RowsAfter ==
    ASSUME TypeOK, NEW n \in Notices, NEW c \in Channels, NEW row \in Notification,
           rows' = [rows EXCEPT ![<<n, c>>] = row]
    PROVE  /\ rows' \in [Notices \X Channels -> Notification \cup {NoRow}]
           /\ rows'[<<n, c>>] = row /\ row # NoRow
           /\ \A k \in Notices, d \in Channels :
                  k # n \/ d # c => rows'[<<k, d>>] = rows[<<k, d>>]
  <1>1. row # NoRow
    BY DEF Notification, NoRow
  <1>2. /\ <<n, c>> \in Notices \X Channels
        /\ \A k \in Notices, d \in Channels :
               <<k, d>> \in Notices \X Channels /\ (<<k, d>> = <<n, c>> <=> k = n /\ d = c)
    OBVIOUS
  <1>3. rows \in [Notices \X Channels -> Notification \cup {NoRow}]
    BY DEF TypeOK
  <1>4. rows' \in [Notices \X Channels -> Notification \cup {NoRow}]
    BY <1>3
  <1>5. rows'[<<n, c>>] = row
    BY <1>2, <1>3
  <1>6. \A k \in Notices, d \in Channels : k # n \/ d # c => rows'[<<k, d>>] = rows[<<k, d>>]
    BY <1>2, <1>3
  <1> QED BY <1>1, <1>4, <1>5, <1>6

\* An event begins its delivery, or is dropped for want of a listing.
LEMMA EmitKeeps ==
    ASSUME IInv, NEW e \in EventIds, EmitBookingEvent(e)
    PROVE  IInv'
  <1> USE DEF IInv
  <1>1. e \in Notices /\ e \notin MsgIds
    BY EngagementAssumption DEF Notices
  <1>2. /\ tasks[e] = "none"
        /\ tasks' = [tasks EXCEPT ![e] = IF listed THEN "in app" ELSE "done"]
        /\ UNCHANGED <<rows, lost, taskRest>>
    BY DEF EmitBookingEvent
  <1>3. /\ TypeOK'
        /\ tasks'[e] = IF listed THEN "in app" ELSE "done"
        /\ \A k \in Notices : k # e => tasks'[k] = tasks[k]
    <2>1. (IF listed THEN "in app" ELSE "done") \in Stages
      BY DEF Stages
    <2>2. lost' \subseteq Notices /\ rows' \in [Notices \X Channels -> Notification \cup {NoRow}]
      BY <1>2 DEF TypeOK
    <2>3. UNCHANGED taskRest
      BY <1>2
    <2> QED BY <1>1, <1>2, <2>1, <2>2, <2>3, TaskTypes
  <1>4. /\ UNCHANGED <<rows, lost, messages, listed>>
        /\ \A m \in MsgIds : m \in Notices /\ tasks'[m] = tasks[m]
    BY <1>1, <1>2, <1>3 DEF taskRest, Notices
  <1>5. TasksSound'
    BY <1>3, <1>4 DEF TasksSound
  <1>6. ToldOrLost'
    BY <1>2, <1>3, <1>4 DEF ToldOrLost
  <1>7. RightReader'
    <2>1. \A k \in Notices : rows'[<<k, "email">>] # NoRow /\ rows'[<<k, "email">>].sent
                                => tasks'[k] = "done"
      BY <1>2, <1>3, <1>4 DEF RightReader, RowsComeInTurn
    <2> QED BY <1>4, <2>1 DEF RightReader
  <1>8. RowsComeInTurn'
    BY <1>2, <1>3, <1>4 DEF RowsComeInTurn
  <1> QED BY <1>3, <1>5, <1>6, <1>7, <1>8

\* The notice a delivery tells of is there.
LEMMA NoticeThere ==
    ASSUME TypeOK, TasksSound, NEW n \in Notices, tasks[n] # "none", NEW c \in Channels
    PROVE  /\ n \in MsgIds => messages[n] # NoMessage
           /\ [to |-> Recipient(n), sent |-> c = "in_app"] \in Notification
           /\ n \in MsgIds => Recipient(n) = Other(messages[n].from)
  <1>1. n \in MsgIds => messages[n] # NoMessage
    BY DEF TasksSound
  <1>2. Recipient(n) \in Parties
    BY <1>1, RecipientType
  <1> QED BY <1>1, <1>2 DEF Notification, Recipient

\* Writing the in-app row is what the delivery was begun for.
LEMMA WriteInAppKeeps ==
    ASSUME IInv, NEW n \in Notices, WriteInApp(n)
    PROVE  IInv'
  <1> USE DEF IInv
  <1> DEFINE row == [to |-> Recipient(n), sent |-> "in_app" = "in_app"]
  <1>1. PICK next \in {"done", "looking up"} : tasks' = [tasks EXCEPT ![n] = next]
    BY DEF WriteInApp
  <1>2. /\ tasks[n] = "in app"
        /\ rows' = [rows EXCEPT ![<<n, "in_app">>] = row]
        /\ UNCHANGED lost /\ UNCHANGED taskRest
    BY DEF WriteInApp, Write
  <1>3. /\ row \in Notification
        /\ n \in MsgIds => row.to = Other(messages[n].from)
    BY <1>2, NoticeThere DEF Channels
  <1> HIDE DEF row
  <1>4. /\ rows' \in [Notices \X Channels -> Notification \cup {NoRow}]
        /\ rows'[<<n, "in_app">>] = row /\ row # NoRow
        /\ \A k \in Notices, d \in Channels :
               k # n \/ d # "in_app" => rows'[<<k, d>>] = rows[<<k, d>>]
    BY <1>2, <1>3, RowsAfter DEF Channels
  <1>5. /\ TypeOK'
        /\ tasks'[n] = next
        /\ \A k \in Notices : k # n => tasks'[k] = tasks[k]
    <2>1. next \in Stages /\ lost' \subseteq Notices
      BY <1>2 DEF Stages, TypeOK
    <2> QED BY <1>1, <1>2, <1>4, <2>1, TaskTypes
  <1>6. /\ UNCHANGED <<lost, messages, listed>> /\ MsgIds \subseteq Notices
        /\ \A k \in Notices : rows'[<<k, "email">>] = rows[<<k, "email">>]
    BY <1>2, <1>4 DEF taskRest, Notices, Channels
  <1>7. TasksSound'
    BY <1>2, <1>5, <1>6 DEF TasksSound
  <1>8. ToldOrLost'
    <2>1. \A k \in Notices : rows[<<k, "in_app">>] # NoRow => rows'[<<k, "in_app">>] # NoRow
      BY <1>4 DEF Channels
    <2> QED BY <1>2, <1>4, <1>5, <1>6, <2>1 DEF ToldOrLost
  <1>9. RightReader'
    <2>1. \A m \in MsgIds, c \in Channels :
              rows'[<<m, c>>] # NoRow => rows'[<<m, c>>].to = Other(messages'[m].from)
      BY <1>3, <1>4, <1>6 DEF RightReader
    <2>2. \A k \in Notices : rows'[<<k, "email">>] # NoRow /\ rows'[<<k, "email">>].sent
                                => tasks'[k] = "done"
      BY <1>2, <1>5, <1>6 DEF RightReader
    <2> QED BY <2>1, <2>2 DEF RightReader
  <1>10. RowsComeInTurn'
    <2>1. \A k \in Notices : k # n => rows'[<<k, "in_app">>] = rows[<<k, "in_app">>]
      BY <1>4 DEF Channels
    <2> QED BY <1>2, <1>5, <1>6, <2>1 DEF RowsComeInTurn
  <1> QED BY <1>5, <1>7, <1>8, <1>9, <1>10

\* So does writing the email's, which is not sent yet.
LEMMA WriteEmailKeeps ==
    ASSUME IInv, NEW n \in Notices, WriteEmail(n)
    PROVE  IInv'
  <1> USE DEF IInv
  <1> DEFINE row == [to |-> Recipient(n), sent |-> "email" = "in_app"]
  <1>1. /\ tasks[n] = "email" /\ tasks' = [tasks EXCEPT ![n] = "sending"]
        /\ rows' = [rows EXCEPT ![<<n, "email">>] = row]
        /\ UNCHANGED lost /\ UNCHANGED taskRest
    BY DEF WriteEmail, Write
  <1>2. /\ row \in Notification
        /\ ~row.sent
        /\ n \in MsgIds => row.to = Other(messages[n].from)
    BY <1>1, NoticeThere DEF Channels
  <1> HIDE DEF row
  <1>3. /\ rows' \in [Notices \X Channels -> Notification \cup {NoRow}]
        /\ rows'[<<n, "email">>] = row /\ row # NoRow
        /\ \A k \in Notices, d \in Channels :
               k # n \/ d # "email" => rows'[<<k, d>>] = rows[<<k, d>>]
    BY <1>1, <1>2, RowsAfter DEF Channels
  <1>4. /\ TypeOK'
        /\ tasks'[n] = "sending"
        /\ \A k \in Notices : k # n => tasks'[k] = tasks[k]
    <2>1. "sending" \in Stages /\ lost' \subseteq Notices
      BY <1>1 DEF Stages, TypeOK
    <2> QED BY <1>1, <1>3, <2>1, TaskTypes
  <1>5. /\ UNCHANGED <<lost, messages, listed>> /\ MsgIds \subseteq Notices
        /\ \A k \in Notices : rows'[<<k, "in_app">>] = rows[<<k, "in_app">>]
        /\ \A k \in Notices : k # n => rows'[<<k, "email">>] = rows[<<k, "email">>]
    BY <1>1, <1>3 DEF taskRest, Notices, Channels
  <1>6. TasksSound'
    BY <1>1, <1>3, <1>4, <1>5 DEF TasksSound
  <1>7. ToldOrLost'
    BY <1>1, <1>4, <1>5 DEF ToldOrLost
  <1>8. RightReader'
    <2>1. \A m \in MsgIds, c \in Channels :
              rows'[<<m, c>>] # NoRow => rows'[<<m, c>>].to = Other(messages'[m].from)
      BY <1>2, <1>3, <1>5 DEF RightReader
    <2>2. \A k \in Notices : rows'[<<k, "email">>] # NoRow /\ rows'[<<k, "email">>].sent
                                => tasks'[k] = "done"
      BY <1>2, <1>3, <1>4, <1>5 DEF RightReader
    <2> QED BY <2>1, <2>2 DEF RightReader
  <1>9. RowsComeInTurn'
    BY <1>1, <1>4, <1>5 DEF RowsComeInTurn
  <1> QED BY <1>4, <1>6, <1>7, <1>8, <1>9

\* Stamping it ends the delivery.
LEMMA StampSentKeeps ==
    ASSUME IInv, NEW n \in Notices, StampSent(n)
    PROVE  IInv'
  <1> USE DEF IInv
  <1> DEFINE row == [rows[<<n, "email">>] EXCEPT !.sent = TRUE]
  <1>1. /\ tasks[n] = "stamping" /\ tasks' = [tasks EXCEPT ![n] = "done"]
        /\ rows' = [rows EXCEPT ![<<n, "email">>] = row]
        /\ UNCHANGED lost /\ UNCHANGED taskRest
    BY DEF StampSent
  <1>2. /\ row \in Notification
        /\ row.to = rows[<<n, "email">>].to
        /\ rows[<<n, "email">>] # NoRow
    <2>1. rows[<<n, "email">>] # NoRow
      BY <1>1 DEF TasksSound
    <2>2. rows[<<n, "email">>] \in Notification
      BY <2>1 DEF TypeOK, Channels
    <2> QED BY <2>1, <2>2 DEF Notification
  <1> HIDE DEF row
  <1>3. /\ rows' \in [Notices \X Channels -> Notification \cup {NoRow}]
        /\ rows'[<<n, "email">>] = row /\ row # NoRow
        /\ \A k \in Notices, d \in Channels :
               k # n \/ d # "email" => rows'[<<k, d>>] = rows[<<k, d>>]
    BY <1>1, <1>2, RowsAfter DEF Channels
  <1>4. /\ TypeOK'
        /\ tasks'[n] = "done"
        /\ \A k \in Notices : k # n => tasks'[k] = tasks[k]
    <2>1. "done" \in Stages /\ lost' \subseteq Notices
      BY <1>1 DEF Stages, TypeOK
    <2> QED BY <1>1, <1>3, <2>1, TaskTypes
  <1>5. /\ UNCHANGED <<lost, messages, listed>> /\ MsgIds \subseteq Notices
        /\ \A k \in Notices : rows'[<<k, "in_app">>] = rows[<<k, "in_app">>]
        /\ \A k \in Notices : k # n => rows'[<<k, "email">>] = rows[<<k, "email">>]
    BY <1>1, <1>3 DEF taskRest, Notices, Channels
  <1>6. TasksSound'
    BY <1>1, <1>4, <1>5 DEF TasksSound
  <1>7. ToldOrLost'
    BY <1>1, <1>4, <1>5 DEF ToldOrLost
  <1>8. RightReader'
    <2>1. \A m \in MsgIds, c \in Channels :
              rows'[<<m, c>>] # NoRow => rows'[<<m, c>>].to = Other(messages'[m].from)
      BY <1>2, <1>3, <1>5 DEF RightReader, Channels
    <2>2. \A k \in Notices : rows'[<<k, "email">>] # NoRow /\ rows'[<<k, "email">>].sent
                                => tasks'[k] = "done"
      BY <1>4, <1>5 DEF RightReader
    <2> QED BY <2>1, <2>2 DEF RightReader
  <1>9. RowsComeInTurn'
    BY <1>1, <1>4, <1>5 DEF RowsComeInTurn
  <1> QED BY <1>4, <1>6, <1>7, <1>8, <1>9

\* The steps that write no row keep it: the in-app row comes before them, or
\* the notice goes on record as lost.
LEMMA NoRowKeeps ==
    ASSUME IInv, NEW n \in Notices, LookUpUser(n) \/ SendEmail(n) \/ FailDelivery(n)
    PROVE  IInv'
  <1> USE DEF IInv
  <1>1. PICK next \in {"email", "stamping", "done"} :
            /\ tasks' = [tasks EXCEPT ![n] = next]
            /\ next = "email" => tasks[n] = "looking up"
            /\ next = "stamping" => tasks[n] = "sending"
    BY DEF LookUpUser, SendEmail, FailDelivery
  <1>2. /\ tasks[n] # "none"
        /\ UNCHANGED rows /\ UNCHANGED taskRest
        /\ lost \subseteq lost' /\ lost' \subseteq Notices
        /\ tasks[n] = "in app" => n \in lost'
    BY DEF LookUpUser, SendEmail, FailDelivery, TypeOK
  <1>3. /\ TypeOK'
        /\ tasks'[n] = next
        /\ \A k \in Notices : k # n => tasks'[k] = tasks[k]
    <2>1. next \in Stages /\ rows' \in [Notices \X Channels -> Notification \cup {NoRow}]
      BY <1>2 DEF Stages, TypeOK
    <2> QED BY <1>1, <1>2, <2>1, TaskTypes
  <1>4. UNCHANGED <<rows, messages, listed>> /\ MsgIds \subseteq Notices
    BY <1>2 DEF taskRest, Notices
  <1>5. TasksSound'
    BY <1>1, <1>2, <1>3, <1>4 DEF TasksSound
  <1>6. ToldOrLost'
    BY <1>1, <1>2, <1>3, <1>4 DEF ToldOrLost
  <1>7. RightReader'
    <2>1. \A k \in Notices : rows'[<<k, "email">>] # NoRow /\ rows'[<<k, "email">>].sent
                                => tasks'[k] = "done"
      BY <1>1, <1>2, <1>3, <1>4 DEF RightReader, RowsComeInTurn
    <2> QED BY <1>4, <2>1 DEF RightReader
  <1>8. RowsComeInTurn'
    BY <1>1, <1>2, <1>3, <1>4 DEF RowsComeInTurn
  <1> QED BY <1>3, <1>5, <1>6, <1>7, <1>8

---------------------------------------------------------------------------
(* The page, the listing and the crash. *)

\* Asking for news and showing it touches only the page.
LEMMA PageKeeps ==
    ASSUME IInv, OpenThread \/ CloseThread \/ LoadThread \/ RenderThread
    PROVE  IInv'
  <1> USE DEF IInv
  <1>1. UNCHANGED <<calls, started, messages>> /\ UNCHANGED stored
    BY DEF OpenThread, CloseThread, LoadThread, RenderThread
  <1>2. /\ open' \in BOOLEAN /\ marking' \in BOOLEAN /\ thread' \subseteq MsgIds
        /\ \A answer \in lists' : answer \subseteq MsgIds
    BY DEF OpenThread, CloseThread, LoadThread, RenderThread, TypeOK, ListMessages, Stored
  <1>3. TypeOK'
    BY <1>1, <1>2 DEF TypeOK, stored
  <1> QED BY <1>1, <1>3, RestKeeps DEF taskVars, stored

\* Marking the thread as read changes no message's author.
LEMMA MarkReadKeeps == IInv /\ MarkRead => IInv'
  <1> SUFFICES ASSUME IInv, MarkRead PROVE IInv'
    OBVIOUS
  <1> USE DEF IInv
  <1>1. /\ UNCHANGED <<calls, started, open, thread, lists>> /\ UNCHANGED stored
        /\ marking' = FALSE
    BY DEF MarkRead
  <1>2. \A m \in MsgIds :
            /\ messages'[m] \in Message \cup {NoMessage}
            /\ messages'[m] # NoMessage <=> messages[m] # NoMessage
            /\ messages[m] # NoMessage => messages'[m].from = messages[m].from
    <2> SUFFICES ASSUME NEW m \in MsgIds
                 PROVE  /\ messages'[m] \in Message \cup {NoMessage}
                        /\ messages'[m] # NoMessage <=> messages[m] # NoMessage
                        /\ messages[m] # NoMessage => messages'[m].from = messages[m].from
      OBVIOUS
    <2>1. CASE messages[m] = NoMessage
      BY <2>1 DEF MarkRead, Stored
    <2>2. CASE messages[m] # NoMessage
      <3>1. messages[m] \in Message
        BY <2>2, StoredMessage
      <3>2. messages'[m] \in {messages[m], [messages[m] EXCEPT !.read = TRUE]}
        BY DEF MarkRead
      <3> QED BY <2>2, <3>1, <3>2 DEF Message, NoMessage, Parties
    <2> QED BY <2>1, <2>2
  <1>3. messages' \in [MsgIds -> Message \cup {NoMessage}]
    <2>1. messages' = [m \in MsgIds |-> messages'[m]]
      BY DEF MarkRead
    <2> QED BY <1>2, <2>1
  <1>4. TypeOK'
    BY <1>1, <1>3 DEF TypeOK, stored
  <1>5. UNCHANGED <<rows, tasks, lost, listed>>
    BY <1>1 DEF stored
  <1>6. TasksSound' /\ ToldOrLost' /\ RowsComeInTurn'
    BY <1>2, <1>5 DEF TasksSound, ToldOrLost, RowsComeInTurn
  <1>7. RightReader'
    <2>1. \A m \in MsgIds, c \in Channels : rows[<<m, c>>] # NoRow => messages[m] # NoMessage
      BY DEF RowsComeInTurn, TasksSound, Channels, Notices
    <2> QED BY <1>2, <1>5, <2>1 DEF RightReader
  <1> QED BY <1>4, <1>6, <1>7

\* Removing the listing changes no delivery.
LEMMA RemoveListingKeeps == IInv /\ RemoveListing => IInv'
  <1> SUFFICES ASSUME IInv, RemoveListing PROVE IInv'
    OBVIOUS
  <1>1. TypeOK'
    BY DEF IInv, TypeOK, RemoveListing, pageVars
  <1> QED BY <1>1, RestKeeps DEF RemoveListing, taskVars

\* A crash ends every delivery; what had no in-app row yet is on record as lost.
LEMMA CrashKeeps == IInv /\ Crash => IInv'
  <1> SUFFICES ASSUME IInv, Crash PROVE IInv'
    OBVIOUS
  <1> USE DEF IInv
  <1>1. /\ UNCHANGED <<started, conversation, messages, rows, listed>> /\ UNCHANGED pageVars
        /\ crashed' = TRUE
        /\ lost' = lost \cup {n \in Notices : tasks[n] = "in app"}
    BY DEF Crash, Forget
  <1>2. calls' \in [Workers -> {Idle} \cup MessagingCall]
    BY DEF Crash, Forget
  <1>3. \A n \in Notices : tasks'[n] = IF tasks[n] = "none" THEN "none" ELSE "done"
    BY DEF Crash
  <1>4. tasks' \in [Notices -> Stages]
    BY DEF Crash, Stages
  <1>5. TypeOK'
    BY <1>1, <1>2, <1>4 DEF TypeOK, pageVars
  <1>6. MsgIds \subseteq Notices
    BY DEF Notices
  <1>7. TasksSound' /\ ToldOrLost'
    BY <1>1, <1>3, <1>6 DEF TasksSound, ToldOrLost
  <1>8. RightReader' /\ RowsComeInTurn'
    BY <1>1, <1>3, <1>6 DEF RightReader, RowsComeInTurn
  <1> QED BY <1>5, <1>7, <1>8

---------------------------------------------------------------------------
\* Every step keeps the invariant.
LEMMA StepKeeps == IInv /\ [Next]_vars => IInv'
  <1> SUFFICES ASSUME IInv, [Next]_vars PROVE IInv'
    OBVIOUS
  <1>1. CASE \E w \in Workers : Handle(w)
    BY <1>1, HandlerKeeps, StoreMessageKeeps DEF Handle
  <1>2. CASE \E e \in EventIds : EmitBookingEvent(e)
    BY <1>2, EmitKeeps
  <1>3. CASE \E n \in Notices : Deliver(n) \/ FailDelivery(n)
    BY <1>3, WriteInAppKeeps, WriteEmailKeeps, StampSentKeeps, NoRowKeeps DEF Deliver
  <1>4. CASE OpenThread \/ CloseThread \/ LoadThread \/ RenderThread
    BY <1>4, PageKeeps
  <1>5. CASE MarkRead \/ RemoveListing \/ Crash
    BY <1>5, MarkReadKeeps, RemoveListingKeeps, CrashKeeps
  <1>6. CASE UNCHANGED vars
    <2>1. TypeOK'
      BY <1>6 DEF IInv, TypeOK, vars, pageVars
    <2> QED BY <1>6, <2>1, RestKeeps DEF vars, taskVars
  <1> QED BY <1>1, <1>2, <1>3, <1>4, <1>5, <1>6 DEF Next

\* So it holds of every state.
LEMMA Invariant == Spec => []IInv
  BY Initially, StepKeeps, PTL DEF Spec

\* The state of the messages, the deliveries and the page is well typed, for
\* any number of requests, messages and events (MessagingService,
\* DomainEventsListener, loadThread).
THEOREM Typed == Spec => []TypeOK
  <1>1. IInv => TypeOK
    BY DEF IInv
  <1> QED BY <1>1, Invariant, PTL

\* Nothing that was to be told is over and done with untold unless a failed
\* query or a crash is on record for it, or the booking had lost its listing
\* when its event was emitted (DomainEventsListener.deliver).
THEOREM ToldUnlessLost == Spec => []ToldOrLost
  <1>1. IInv => ToldOrLost
    BY DEF IInv
  <1> QED BY <1>1, Invariant, PTL

\* Whatever fails and whoever marks the thread as read meanwhile, the one told
\* of a message is the party that did not write it, and no email is recorded
\* as sent before its delivery is over (MessagingService.sendMessage,
\* NotificationsService.notifyEmail).
THEOREM ToldTheRightOne == Spec => []RightReader
  <1>1. IInv => RightReader
    BY DEF IInv
  <1> QED BY <1>1, Invariant, PTL
=============================================================================
