--------------------------- MODULE IdentityProofs ---------------------------
(***************************************************************************)
(* An account, for any number of tabs, of admins and of requests: whom a   *)
(* suspension and a new password cut off, who may change an account, how   *)
(* often a link or a code sets a password, and what sets off the alarm.    *)
(***************************************************************************)
EXTENDS BrowserSession, FiniteSetTheorems, TLAPS

\* The account, once there is one, and the copies of it that handlers hold.
Renters == {u \in User : "renter" \in u.roles}

KnownIds == {t \in TokenIds : tokens[t] \in Token}
Stale(c) == c.since < cuts
Reads(c) == c.copy \in Renters /\ c.since \in Nat /\ c.since <= cuts

\* What a handler may hold.  A save that suspends the account or sets a
\* password has the revocation before it, one that opens a session changes
\* nothing.
SaveShape(c) ==
    /\ Reads(c) /\ c.set \in Changes
    /\ c.then \in {"done", "issuing", "spending", "cutting"}
    /\ "roles" \in DOMAIN c.set => "renter" \in c.set.roles
    /\ "status" \in DOMAIN c.set => c.set.status = "active" \/ c.then = "cutting"
    /\ "password" \in DOMAIN c.set => c.then \in {"spending", "cutting"}
    /\ c.then = "issuing" => c.set = Keep

Shape(c) ==
    /\ c.at = "saving" => SaveShape(c)
    /\ c.at \in {"refreshing", "rotating", "retiring"} => c.old \in KnownIds
    /\ c.at = "issuing" => c.old \in KnownIds \cup {Nobody}
    /\ c.at \in {"rotating", "issuing", "accepting", "texting"} => Reads(c)
    /\ c.at \in {"registering", "inserting"} => c.roles \in SUBSET Roles /\ "renter" \in c.roles
    /\ c.at = "retiring" => c.reply \in TokenIds
    /\ c.at = "answered" => c.reply \in TokenIds \cup {Nobody}

Types ==
    /\ DOMAIN calls = Workers /\ started \in 0..MaxCalls
    /\ user \in Renters \cup {NoUser}
    /\ tokens \in [TokenIds -> Token \cup {NoToken}]
    /\ cuts \in Nat
    /\ \A w \in Workers : Shape(calls[w])

\* Before there is an account nobody holds a copy or a token of it.
OfAccount == {"saving", "refreshing", "rotating", "issuing", "retiring", "accepting", "texting"}
NoAccount ==
    user = NoUser =>
        /\ \A t \in TokenIds : tokens[t] = NoToken
        /\ \A w \in Workers : calls[w].at \notin OfAccount

\* A handler on its way to a new token: it read the account before a
\* revocation, or the account is active and the token will be for its
\* password.
Opens(c) ==
    \/ c.at \in {"rotating", "issuing", "accepting", "texting"}
    \/ c.at = "saving" /\ c.then = "issuing"
Matches(c) ==
    /\ c.at \in {"accepting", "texting"} => c.copy.password = user.password
    /\ c.at = "issuing" =>
           IF c.old = Nobody THEN c.copy.password = user.password
           ELSE tokens[c.old].astray \/ tokens[c.old].password = user.password
Fits(c) == Opens(c) => Stale(c) \/ (user.status = "active" /\ Matches(c))

TokenFits(t) ==
    tokens[t].active =>
        /\ tokens[t].late \/ user.status = "active"
        /\ tokens[t].astray \/ tokens[t].password = user.password

AllFit == (\A w \in Workers : Fits(calls[w])) /\ \A t \in TokenIds : TokenFits(t)

\* A revocation is still to come.
Cuts(c) == c.at \in {"spending", "cutting"}
Settled == ~clobbered /\ ~failed /\ \A w \in Workers : ~Cuts(calls[w])

\* There is a number left for the token of every call that may issue one:
\* the tokens are numbered without a gap, and each is of another call.
MayIssue(c) ==
    \/ c.at \in {"refreshing", "rotating", "issuing", "registering", "inserting", "accepting", "texting"}
    \/ c.at = "saving" /\ c.then = "issuing"
Issuers == {w \in Workers : MayIssue(calls[w])}
Numbered ==
    /\ IsFiniteSet(Issuers)
    /\ \E n \in Nat : /\ \A t \in TokenIds : Known(t) <=> t <= n
                      /\ n + Cardinality(Issuers) <= started + 1

IInv == Types /\ NoAccount /\ (Settled => AllFit)

---------------------------------------------------------------------------
(* The records. *)

\* A row is none that is missing.
LEMMA RowsAreThere ==
    /\ NoUser \notin User
    /\ NoToken \notin Token
    /\ user \in Renters \cup {NoUser} /\ Found => user \in Renters
  <1>1. \A u \in User : "status" \in DOMAIN u
    BY DEF User
  <1>2. DOMAIN NoUser = {"deleted"}
    BY Zenon DEF NoUser
  <1>3. \A k \in Token : "late" \in DOMAIN k
    BY DEF Token
  <1>4. DOMAIN NoToken = {"active"}
    BY Zenon DEF NoToken
  <1>5. NoUser.deleted
    BY DEF NoUser
  <1> QED BY <1>1, <1>2, <1>3, <1>4, <1>5 DEF Found

\* What the handlers change, one column at the most.
LEMMA ChangesAre ==
    /\ Keep \in Changes /\ DOMAIN Keep = {}
    /\ \A p \in Passwords : [password |-> p] \in Changes /\ DOMAIN [password |-> p] = {"password"}
    /\ \A R \in SUBSET Roles : [roles |-> R] \in Changes /\ DOMAIN [roles |-> R] = {"roles"}
    /\ \A s \in AccountStatuses : [status |-> s] \in Changes /\ DOMAIN [status |-> s] = {"status"}
  BY DEF Changes, Keep

\* What a save makes of a copy.
LEMMA MergeIs ==
    ASSUME NEW u \in User, NEW set \in Changes
    PROVE  LET new == Merge(u, set)
           IN  /\ new \in User
               /\ new.deleted = u.deleted
               /\ "status" \notin DOMAIN set => new.status = u.status
               /\ "status" \in DOMAIN set => new.status = set.status
               /\ "password" \notin DOMAIN set => new.password = u.password
               /\ "roles" \notin DOMAIN set => new.roles = u.roles
               /\ "roles" \in DOMAIN set => new.roles = set.roles
  <1>1. CASE set = Keep
    BY <1>1 DEF Merge, Keep, User
  <1>2. CASE set \in [password : Passwords]
    BY <1>2 DEF Merge, User
  <1>3. CASE set \in [roles : SUBSET Roles]
    BY <1>3 DEF Merge, User
  <1>4. CASE set \in [status : AccountStatuses]
    BY <1>4 DEF Merge, User
  <1> QED BY <1>1, <1>2, <1>3, <1>4 DEF Changes

---------------------------------------------------------------------------
(* Steps of one call. *)

\* The calls after a step of w's.
LEMMA Others ==
    ASSUME Types, NEW w \in Workers, NEW c, calls' = [calls EXCEPT ![w] = c]
    PROVE  /\ DOMAIN calls' = Workers
           /\ calls'[w] = c
           /\ \A v \in Workers \ {w} : calls'[v] = calls[v]
  BY DEF Types

LEMMA Stepping ==
    ASSUME Types, NEW w \in Workers, NEW c, Begin(w, c) \/ Proceed(w, c)
    PROVE  calls' = [calls EXCEPT ![w] = c] /\ started' \in 0..MaxCalls
  BY RequestsAssumption DEF Types, Begin, Proceed, Goto

\* A step that leaves the account, its tokens and revocations alone.
LEMMA OneCall ==
    ASSUME IInv, NEW w \in Workers, NEW c,
           calls' = [calls EXCEPT ![w] = c], started' \in 0..MaxCalls,
           UNCHANGED <<user, tokens, cuts>>, clobbered => clobbered', failed => failed',
           Shape(c), c.at \in OfAccount => user # NoUser,
           Cuts(calls[w]) => Cuts(c) \/ failed',
           Cuts(c) \/ clobbered' \/ failed' \/ (AllFit => Fits(c))
    PROVE  IInv'
  <1>1. /\ DOMAIN calls' = Workers /\ calls'[w] = c
        /\ \A v \in Workers \ {w} : calls'[v] = calls[v]
    BY Others DEF IInv
  <1>2. \A d : (Shape(d)' <=> Shape(d)) /\ (Fits(d)' <=> Fits(d))
    BY DEF Shape, SaveShape, Reads, KnownIds, Fits, Opens, Stale, Matches
  <1>3. Types'
    BY <1>1, <1>2 DEF IInv, Types
  <1>4. NoAccount'
    BY <1>1 DEF IInv, NoAccount
  <1>5. ASSUME Settled' PROVE AllFit'
    <2>1. ~clobbered /\ ~failed /\ ~clobbered' /\ ~failed' /\ ~Cuts(c)
      BY <1>1, <1>5 DEF Settled
    <2>2. ~Cuts(calls[w])
      BY <2>1
    <2>3. \A v \in Workers : ~Cuts(calls[v])
      BY <1>1, <1>5, <2>2 DEF Settled
    <2>4. AllFit
      BY <2>1, <2>3 DEF IInv, Settled
    <2>5. \A v \in Workers : Fits(calls'[v])
      BY <1>1, <2>1, <2>4 DEF AllFit
    <2>6. \A v \in Workers : Fits(calls[v])'
      BY <1>2, <2>5
    <2>7. \A t \in TokenIds : TokenFits(t)'
      BY <2>4 DEF AllFit, TokenFits
    <2> QED BY <2>6, <2>7 DEF AllFit
  <1> QED BY <1>3, <1>4, <1>5 DEF IInv

\* A step to where nothing of the account is held.
Quiet(c) ==
    \/ c.at \in {"idle", "redeeming", "verified", "resetting", "inviting", "revoking invite"}
    \/ c.at = "answered" /\ c.reply \in TokenIds \cup {Nobody}

LEMMA QuietCall ==
    ASSUME NEW c, Quiet(c)
    PROVE  Shape(c) /\ c.at \notin OfAccount /\ ~Cuts(c) /\ Fits(c)
  BY DEF Quiet, Shape, OfAccount, Cuts, Fits, Opens

LEMMA QuietStep ==
    ASSUME IInv, NEW w \in Workers, NEW c, Quiet(c),
           Begin(w, c) \/ Proceed(w, c),
           UNCHANGED <<user, tokens, cuts>>, clobbered => clobbered', failed => failed',
           Cuts(calls[w]) => failed'
    PROVE  IInv'
  <1>1. calls' = [calls EXCEPT ![w] = c] /\ started' \in 0..MaxCalls
    BY Stepping DEF IInv
  <1> QED BY <1>1, QuietCall, OneCall

\* A call that begins has been none that cuts.
LEMMA Beginning ==
    ASSUME NEW w \in Workers, calls[w] = Idle
    PROVE  ~Cuts(calls[w])
  BY DEF Cuts, Idle

\* A handler reads the account, to save it.
LEMMA SavingStep ==
    ASSUME IInv, NEW w \in Workers, NEW set \in Changes, NEW cause,
           NEW then \in {"done", "issuing", "spending", "cutting"},
           \/ Begin(w, Saving(set, then, cause))
           \/ Proceed(w, Saving(set, then, cause)) /\ ~Cuts(calls[w]),
           Found, UNCHANGED accountVars,
           "roles" \in DOMAIN set => "renter" \in set.roles,
           "status" \in DOMAIN set => set.status = "active" \/ then = "cutting",
           "password" \in DOMAIN set => then \in {"spending", "cutting"},
           then = "issuing" => set = Keep /\ user.status = "active"
    PROVE  IInv'
  <1> DEFINE c == Saving(set, then, cause)
  <1>1. calls' = [calls EXCEPT ![w] = c] /\ started' \in 0..MaxCalls
    BY Stepping DEF IInv
  <1>2. /\ c.at = "saving" /\ c.set = set /\ c.then = then
        /\ c.copy = user /\ c.since = cuts
    BY DEF Saving
  <1>3. user \in Renters /\ user # NoUser /\ cuts \in Nat
    BY RowsAreThere DEF IInv, Types, Renters
  <1> HIDE DEF c
  <1>4. Shape(c)
    BY <1>2, <1>3 DEF Shape, SaveShape, Reads
  <1>5. Fits(c)
    BY <1>2 DEF Fits, Opens, Matches
  <1>6. ~Cuts(calls[w])
    BY Beginning DEF Begin
  <1> QED BY <1>1, <1>3, <1>4, <1>5, <1>6, OneCall DEF accountVars, rowVars, historyVars

LEMMA LoginKeeps == ASSUME IInv, NEW w \in Workers, Login(w) PROVE IInv'
  BY ChangesAre, SavingStep DEF Login

LEMMA UpdateProfileKeeps == ASSUME IInv, NEW w \in Workers, updateProfile(w) PROVE IInv'
  BY ChangesAre, SavingStep DEF updateProfile

\* A change of roles that leaves the renter.
LEMMA RolesStep ==
    ASSUME IInv, NEW w \in Workers, NEW R \in SUBSET Roles, "renter" \in R,
           Begin(w, Saving([roles |-> R], "done", "logout")), Found, UNCHANGED accountVars
    PROVE  IInv'
  <1>1. /\ [roles |-> R] \in Changes
        /\ DOMAIN [roles |-> R] = {"roles"} /\ [roles |-> R].roles = R
    BY ChangesAre
  <1> DEFINE set == [roles |-> R]
  <1> HIDE DEF set
  <1>2. set \in Changes /\ DOMAIN set = {"roles"} /\ "renter" \in set.roles
    BY <1>1 DEF set
  <1>3. Begin(w, Saving(set, "done", "logout"))
    BY DEF set
  <1> QED BY <1>2, <1>3, SavingStep

LEMMA UserRoles ==
    ASSUME IInv, Found
    PROVE  user.roles \in SUBSET Roles /\ "renter" \in user.roles
  BY RowsAreThere DEF IInv, Types, Renters, User

LEMMA CreateProfileKeeps == ASSUME IInv, NEW w \in Workers, createProfile(w) PROVE IInv'
  <1>1. user.roles \cup {"provider"} \in SUBSET Roles /\ "renter" \in user.roles \cup {"provider"}
    BY UserRoles DEF createProfile, Roles
  <1> QED BY <1>1, RolesStep DEF createProfile

LEMMA SetRolesKeeps ==
    ASSUME IInv, NEW w \in Workers, NEW R \in RoleSets, setRoles(w, R)
    PROVE  IInv'
  <1>1. R \cup {"renter"} \in SUBSET Roles
    BY DEF RoleSets, Roles
  <1> QED BY <1>1, RolesStep DEF setRoles

LEMMA InviteAdminKeeps == ASSUME IInv, NEW w \in Workers, InviteAdmin(w) PROVE IInv'
  <1>1. CASE Found
    <2>1. user.roles \cup {"admin"} \in SUBSET Roles /\ "renter" \in user.roles \cup {"admin"}
      BY <1>1, UserRoles DEF Roles
    <2> QED BY <1>1, <2>1, RolesStep DEF InviteAdmin, addRole
  <1>2. CASE ~Found
    <2>1. Begin(w, [at |-> "inviting"]) /\ UNCHANGED accountVars
      BY <1>2 DEF InviteAdmin
    <2>2. ~Cuts(calls[w])
      BY <2>1, Beginning DEF Begin
    <2>3. Quiet([at |-> "inviting"])
      BY DEF Quiet
    <2> QED BY <2>1, <2>2, <2>3, QuietStep DEF accountVars, rowVars, historyVars
  <1> QED BY <1>1, <1>2

LEMMA SetStatusKeeps ==
    ASSUME IInv, NEW w \in Workers, NEW s \in AccountStatuses, setStatus(w, s)
    PROVE  IInv'
  <1> DEFINE set == [status |-> s]
             then == IF s = "active" THEN "done" ELSE "cutting"
  <1>1. set \in Changes /\ DOMAIN set = {"status"} /\ set.status = s
    BY ChangesAre
  <1>2. Begin(w, Saving(set, then, "suspended"))
    BY DEF setStatus
  <1>3. then \in {"done", "cutting"} /\ (s = "active" \/ then = "cutting")
    OBVIOUS
  <1> HIDE DEF set, then
  <1> QED BY <1>1, <1>2, <1>3, SavingStep DEF setStatus

\* The new password, before the revocation.
LEMMA PasswordStep ==
    ASSUME IInv, NEW w \in Workers, NEW then \in {"spending", "cutting"}, NEW cause,
           Proceed(w, Saving([password |-> started], then, cause)), ~Cuts(calls[w]),
           Found, UNCHANGED accountVars
    PROVE  IInv'
  <1> DEFINE set == [password |-> started]
  <1>1. set \in Changes /\ DOMAIN set = {"password"}
    <2>1. started \in Passwords
      BY DEF IInv, Types, Passwords
    <2> QED BY <2>1, ChangesAre
  <1>2. Proceed(w, Saving(set, then, cause))
    OBVIOUS
  <1> HIDE DEF set
  <1> QED BY <1>1, <1>2, SavingStep

\* A handler whose account is gone answers.
LEMMA AnswerStep ==
    ASSUME IInv, NEW w \in Workers, NEW reply \in TokenIds \cup {Nobody}, Answer(w, reply), ~Cuts(calls[w]) \/ failed',
           UNCHANGED <<user, tokens, cuts>>, clobbered => clobbered', failed => failed'
    PROVE  IInv'
  <1>1. Quiet([at |-> "answered", reply |-> reply])
    BY DEF Quiet
  <1> QED BY <1>1, QuietStep DEF Answer

LEMMA ReadForResetKeeps == ASSUME IInv, NEW w \in Workers, ReadForReset(w) PROVE IInv'
  <1>1. ~Cuts(calls[w])
    BY DEF ReadForReset, At, Cuts
  <1> QED BY <1>1, PasswordStep, AnswerStep DEF ReadForReset, accountVars, rowVars, historyVars

LEMMA ReadAfterOtpKeeps == ASSUME IInv, NEW w \in Workers, ReadAfterOtp(w) PROVE IInv'
  <1>1. ~Cuts(calls[w])
    BY DEF ReadAfterOtp, At, Cuts
  <1>2. CASE Found /\ Proceed(w, Saving(Keep, "done", "logout"))
    BY <1>1, <1>2, ChangesAre, SavingStep DEF ReadAfterOtp
  <1> QED BY <1>1, <1>2, PasswordStep, AnswerStep DEF ReadAfterOtp, accountVars, rowVars, historyVars

---------------------------------------------------------------------------
(* Handlers that hold other things. *)

\* Requests whose first step reads or writes nothing of the account.
LEMMA QuietRequest ==
    ASSUME IInv, NEW w \in Workers, NEW c, Quiet(c), Begin(w, c),
           UNCHANGED <<user, tokens, cuts, clobbered, failed>>
    PROVE  IInv'
  <1>1. ~Cuts(calls[w])
    BY Beginning DEF Begin
  <1> QED BY <1>1, QuietStep

LEMMA QuietRequests ==
    ASSUME IInv, NEW w \in Workers,
           \/ RequestPasswordReset(w) \/ ResetPassword(w) \/ RequestOtp(w) \/ WrongOtp(w)
           \/ VerifyOtp(w, "verified") \/ VerifyOtp(w, "resetting") \/ RevokeInvite(w)
    PROVE  IInv'
  <1>1. /\ Quiet([at |-> "answered", reply |-> Nobody])
        /\ Quiet([at |-> "redeeming"]) /\ Quiet([at |-> "verified"]) /\ Quiet([at |-> "resetting"])
        /\ Quiet([at |-> "revoking invite", copy |-> invite])
    BY DEF Quiet
  <1>2. PICK c : Quiet(c) /\ Begin(w, c)
    BY <1>1 DEF RequestPasswordReset, ResetPassword, RequestOtp, WrongOtp, VerifyOtp, RevokeInvite
  <1>3. UNCHANGED <<user, tokens, cuts, clobbered, failed>>
    BY DEF RequestPasswordReset, ResetPassword, RequestOtp, WrongOtp, VerifyOtp, RevokeInvite,
           accountVars, rowVars, historyVars
  <1> QED BY <1>2, <1>3, QuietRequest

LEMMA LogoutKeeps == ASSUME IInv, NEW w \in Workers, Logout(w) PROVE IInv'
  <1> DEFINE c == [at |-> "cutting", cause |-> "logout"]
  <1>1. calls' = [calls EXCEPT ![w] = c] /\ started' \in 0..MaxCalls
    BY Stepping DEF Logout, IInv
  <1>2. c.at = "cutting"
    OBVIOUS
  <1>3. UNCHANGED <<user, tokens, cuts, clobbered, failed>>
    BY DEF Logout, accountVars, rowVars, historyVars
  <1> HIDE DEF c
  <1>4. Shape(c) /\ c.at \notin OfAccount /\ Cuts(c)
    BY <1>2 DEF Shape, OfAccount, Cuts
  <1> QED BY <1>1, <1>3, <1>4, OneCall

LEMMA SpendLinkKeeps == ASSUME IInv, NEW w \in Workers, SpendLink(w) PROVE IInv'
  <1> DEFINE c == [at |-> "cutting", cause |-> "password"]
  <1>1. calls' = [calls EXCEPT ![w] = c] /\ started' \in 0..MaxCalls
    BY Stepping DEF SpendLink, IInv
  <1>2. c.at = "cutting"
    OBVIOUS
  <1>3. UNCHANGED <<user, tokens, cuts, clobbered, failed>>
    BY DEF SpendLink, historyVars
  <1> HIDE DEF c
  <1>4. Shape(c) /\ c.at \notin OfAccount /\ Cuts(c)
    BY <1>2 DEF Shape, OfAccount, Cuts
  <1> QED BY <1>1, <1>3, <1>4, OneCall

LEMMA RefreshKeeps == ASSUME IInv, NEW w \in Workers, NEW t \in TokenIds, Refresh(w, t) PROVE IInv'
  <1> DEFINE c == [at |-> "refreshing", old |-> t]
  <1>1. calls' = [calls EXCEPT ![w] = c] /\ started' \in 0..MaxCalls
    BY Stepping DEF Refresh, IInv
  <1>2. c.at = "refreshing" /\ c.old = t
    OBVIOUS
  <1>3. UNCHANGED <<user, tokens, cuts, clobbered, failed>> /\ ~Cuts(calls[w]) /\ tokens[t] # NoToken
    BY Beginning DEF Refresh, Begin, Known, accountVars, rowVars, historyVars
  <1>4. user # NoUser /\ t \in KnownIds
    BY <1>3 DEF IInv, NoAccount, Types, KnownIds
  <1> HIDE DEF c
  <1>5. Shape(c) /\ Fits(c)
    BY <1>2, <1>4 DEF Shape, Fits, Opens
  <1> QED BY <1>1, <1>3, <1>4, <1>5, OneCall

LEMMA CheckUserKeeps == ASSUME IInv, NEW w \in Workers, CheckUser(w) PROVE IInv'
  <1>1. /\ calls[w].at = "refreshing" /\ ~Cuts(calls[w])
        /\ UNCHANGED <<user, tokens, cuts, clobbered, failed>>
    BY DEF CheckUser, At, Cuts, accountVars, rowVars, historyVars
  <1>2. CASE Found /\ user.status = "active"
    <2> DEFINE c == [at |-> "rotating", old |-> calls[w].old, copy |-> user, since |-> cuts]
    <2>1. calls' = [calls EXCEPT ![w] = c] /\ started' \in 0..MaxCalls
      BY <1>2, Stepping DEF CheckUser, ReadActiveUser, IInv
    <2>2. c.at = "rotating" /\ c.old = calls[w].old /\ c.copy = user /\ c.since = cuts
      OBVIOUS
    <2>3. calls[w].old \in KnownIds
      BY <1>1 DEF IInv, Types, Shape
    <2>4. user \in Renters /\ user # NoUser /\ cuts \in Nat
      BY <1>2, RowsAreThere DEF IInv, Types, Renters
    <2> HIDE DEF c
    <2>5. Shape(c) /\ Fits(c)
      BY <1>2, <2>2, <2>3, <2>4 DEF Shape, Reads, Fits, Opens, Matches
    <2> QED BY <1>1, <2>1, <2>4, <2>5, OneCall
  <1>3. CASE ~(Found /\ user.status = "active")
    BY <1>1, <1>3, AnswerStep DEF CheckUser, ReadActiveUser, Answer
  <1> QED BY <1>2, <1>3

\* A token in use is for the account's password, or its session is one of
\* those that are excused.
LEMMA RotateKeeps == ASSUME IInv, NEW w \in Workers, Rotate(w) PROVE IInv'
  <1> DEFINE d == calls[w]
  <1>1. /\ d.at = "rotating" /\ ~Cuts(d)
        /\ UNCHANGED <<user, tokens, cuts, clobbered, failed>>
    BY DEF Rotate, At, Cuts, accountVars, rowVars, historyVars
  <1>2. /\ d.old \in KnownIds /\ Reads(d) /\ user # NoUser
        /\ d.old \in TokenIds /\ d.old # Nobody
    BY <1>1 DEF IInv, Types, NoAccount, OfAccount, Shape, KnownIds, TokenIds, Nobody
  <1>3. CASE tokens[d.old].active
    <2> DEFINE c == [at |-> "issuing", old |-> d.old, copy |-> d.copy, since |-> d.since]
    <2>1. calls' = [calls EXCEPT ![w] = c] /\ started' \in 0..MaxCalls
      BY <1>3, Stepping DEF Rotate, IInv
    <2>2. c.at = "issuing" /\ c.old = d.old /\ c.copy = d.copy /\ c.since = d.since
      OBVIOUS
    <2> HIDE DEF c
    <2>3. Shape(c)
      BY <1>2, <2>2 DEF Shape, Reads
    <2>4. ASSUME AllFit PROVE Fits(c)
      <3>1. TokenFits(d.old) /\ Fits(d)
        BY <1>2, <2>4 DEF AllFit
      <3>2. Stale(d) \/ user.status = "active"
        BY <1>1, <3>1 DEF Fits, Opens
      <3>3. tokens[d.old].astray \/ tokens[d.old].password = user.password
        BY <1>3, <3>1 DEF TokenFits
      <3> QED BY <1>2, <2>2, <3>2, <3>3 DEF Fits, Stale, Matches
    <2> QED BY <1>1, <1>2, <2>1, <2>3, <2>4, OneCall
  <1>4. CASE ~tokens[d.old].active
    <2> DEFINE c == [at |-> "cutting", cause |-> "reuse"]
    <2>1. calls' = [calls EXCEPT ![w] = c] /\ started' \in 0..MaxCalls
      BY <1>4, Stepping DEF Rotate, IInv
    <2>2. c.at = "cutting"
      OBVIOUS
    <2> HIDE DEF c
    <2>3. Shape(c) /\ Cuts(c)
      BY <2>2 DEF Shape, Cuts
    <2> QED BY <1>1, <1>2, <2>1, <2>3, OneCall
  <1> QED BY <1>3, <1>4

LEMMA SignupKeeps ==
    ASSUME IInv, NEW w \in Workers, NEW R \in SelfService, Signup(w, R)
    PROVE  IInv'
  <1>1. PICK candidate \in {"redeem", "none"} :
            Begin(w, [at |-> "registering", roles |-> R \cup {"renter"}, candidate |-> candidate])
    BY DEF Signup
  <1> DEFINE c == [at |-> "registering", roles |-> R \cup {"renter"}, candidate |-> candidate]
  <1>2. calls' = [calls EXCEPT ![w] = c] /\ started' \in 0..MaxCalls
    BY <1>1, Stepping DEF IInv
  <1>3. c.at = "registering" /\ c.roles = R \cup {"renter"}
    OBVIOUS
  <1>4. R \cup {"renter"} \in SUBSET Roles
    BY DEF SelfService, Roles
  <1>5. UNCHANGED <<user, tokens, cuts, clobbered, failed>> /\ ~Cuts(calls[w])
    BY <1>1, Beginning DEF Signup, Begin, accountVars, rowVars, historyVars
  <1> HIDE DEF c
  <1>6. Shape(c) /\ c.at \notin OfAccount /\ Fits(c)
    BY <1>3, <1>4 DEF Shape, OfAccount, Fits, Opens
  <1> QED BY <1>2, <1>5, <1>6, OneCall

LEMMA FindInviteKeeps == ASSUME IInv, NEW w \in Workers, FindInvite(w) PROVE IInv'
  <1>1. PICK extra \in {{}, {"admin"}}, candidate \in {invite, NoInvite} :
            Proceed(w, [at |-> "inserting", roles |-> calls[w].roles \cup extra, candidate |-> candidate])
    BY DEF FindInvite
  <1> DEFINE c == [at |-> "inserting", roles |-> calls[w].roles \cup extra, candidate |-> candidate]
  <1>2. calls' = [calls EXCEPT ![w] = c] /\ started' \in 0..MaxCalls
    BY <1>1, Stepping DEF IInv
  <1>3. c.at = "inserting" /\ c.roles = calls[w].roles \cup extra
    OBVIOUS
  <1>4. /\ calls[w].at = "registering" /\ ~Cuts(calls[w])
        /\ UNCHANGED <<user, tokens, cuts, clobbered, failed>>
    BY DEF FindInvite, At, Cuts, accountVars, rowVars, historyVars
  <1>5. calls[w].roles \in SUBSET Roles /\ "renter" \in calls[w].roles
    BY <1>4 DEF IInv, Types, Shape
  <1>6. c.roles \in SUBSET Roles /\ "renter" \in c.roles
    BY <1>3, <1>5 DEF Roles
  <1> HIDE DEF c
  <1>7. Shape(c) /\ c.at \notin OfAccount /\ Fits(c)
    BY <1>3, <1>6 DEF Shape, OfAccount, Fits, Opens
  <1> QED BY <1>2, <1>4, <1>7, OneCall

\* The invitation is accepted, or the code texted, and the session opened.
LEMMA SigningUpKeeps ==
    ASSUME IInv, NEW w \in Workers, AcceptInvite(w) \/ TextCode(w)
    PROVE  IInv'
  <1> DEFINE d == calls[w]
  <1>1. PICK c : /\ Proceed(w, c) /\ c.copy = d.copy /\ c.since = d.since
                 /\ c.at = "texting" \/ (c.at = "issuing" /\ c.old = Nobody)
    BY DEF AcceptInvite, TextCode
  <1>2. d.at \in {"accepting", "texting"} /\ ~Cuts(d) /\ UNCHANGED <<user, tokens, cuts, failed>>
    BY DEF AcceptInvite, TextCode, At, Cuts
  <1>0. clobbered => clobbered'
    BY Zenon DEF AcceptInvite, TextCode
  <1>3. Reads(d) /\ user # NoUser
    BY <1>2 DEF IInv, Types, NoAccount, OfAccount, Shape
  <1>4. Shape(c) /\ ~Cuts(c)
    BY <1>1, <1>3 DEF Shape, Reads, Cuts
  <1>5. ASSUME AllFit PROVE Fits(c)
    <2>1. Fits(d)
      BY <1>5 DEF AllFit
    <2> QED BY <1>1, <1>2, <2>1 DEF Fits, Opens, Stale, Matches
  <1>6. calls' = [calls EXCEPT ![w] = c] /\ started' \in 0..MaxCalls
    BY <1>1, Stepping DEF IInv
  <1> HIDE DEF d
  <1> QED BY <1>0, <1>2, <1>3, <1>4, <1>5, <1>6, OneCall DEF d

LEMMA InvitesKeep ==
    ASSUME IInv, NEW w \in Workers, InsertInvite(w) \/ SaveRevoked(w)
    PROVE  IInv'
  <1>1. ~Cuts(calls[w]) /\ Answer(w, Nobody) /\ UNCHANGED <<user, tokens, cuts, failed>>
    BY DEF InsertInvite, SaveRevoked, At, Cuts, historyVars
  <1>2. clobbered => clobbered'
    BY Zenon DEF InsertInvite, SaveRevoked, historyVars
  <1> QED BY <1>1, <1>2, AnswerStep

LEMMA FailKeeps == ASSUME IInv, NEW w \in Workers, Fail(w) PROVE IInv'
  BY AnswerStep DEF Fail, rowVars

\* A restart forgets calls, and is a failure.
LEMMA RestartKeeps == ASSUME IInv, Restart PROVE IInv'
  <1> DEFINE gone == [at |-> "answered", reply |-> Nobody]
  <1>1. Quiet(gone)
    BY DEF Quiet
  <1>2. Shape(gone) /\ gone.at \notin OfAccount
    BY <1>1, QuietCall
  <1>3. calls' = [v \in Workers |-> IF Busy(v) THEN gone ELSE calls[v]]
    BY DEF Restart
  <1>4. UNCHANGED <<user, tokens, cuts, started>> /\ failed'
    BY DEF Restart
  <1> HIDE DEF gone
  <1>5. \A c : Shape(c)' <=> Shape(c)
    BY <1>4 DEF Shape, SaveShape, Reads, KnownIds
  <1>6. Types'
    BY <1>2, <1>3, <1>4, <1>5 DEF IInv, Types
  <1>7. NoAccount'
    BY <1>2, <1>3, <1>4 DEF IInv, NoAccount
  <1> QED BY <1>4, <1>6, <1>7 DEF IInv, Settled

---------------------------------------------------------------------------
(* Steps that change the account or its tokens. *)

\* A call may go on to something that holds nothing, whatever the account is.
LEMMA TypesStep ==
    ASSUME Types, NEW w \in Workers, NEW c, Proceed(w, c) \/ Begin(w, c),
           user' \in Renters \cup {NoUser}, tokens' \in [TokenIds -> Token \cup {NoToken}],
           KnownIds \subseteq KnownIds', cuts' \in Nat, cuts <= cuts', Shape(c)'
    PROVE  Types'
  <1>1. /\ DOMAIN calls' = Workers /\ calls'[w] = c
        /\ \A v \in Workers \ {w} : calls'[v] = calls[v]
        /\ started' \in 0..MaxCalls
    BY Stepping, Others
  <1>2. \A v \in Workers : Shape(calls[v])'
    <2>1. \A v \in Workers \ {w} : Shape(calls[v])'
      <3> SUFFICES ASSUME NEW v \in Workers \ {w} PROVE Shape(calls[v])'
        OBVIOUS
      <3> DEFINE d == calls[v]
      <3>1. Shape(d) /\ cuts \in Nat
        BY DEF Types
      <3>2. calls'[v] = d
        BY <1>1
      <3> QED BY <3>1, <3>2 DEF Shape, SaveShape, Reads
    <2> QED BY <1>1, <2>1 DEF Shape, SaveShape, Reads, KnownIds
  <1> QED BY <1>1, <1>2 DEF Types

LEMMA RemoveKeeps == ASSUME IInv, NEW w \in Workers, removeAsAdmin(w) PROVE IInv'
  <1> DEFINE c == [at |-> "answered", reply |-> Nobody]
  <1>1. /\ Begin(w, c) /\ ~Cuts(calls[w]) /\ Quiet(c)
        /\ UNCHANGED <<tokens, cuts, clobbered, failed>>
    BY Beginning DEF removeAsAdmin, Begin, Quiet, historyVars
  <1>2. user \in Renters /\ user # NoUser
    BY RowsAreThere DEF removeAsAdmin, IInv, Types, Renters
  <1>3. /\ user' \in Renters
        /\ user'.status = user.status /\ user'.password = user.password
    BY <1>2 DEF removeAsAdmin, Renters, User
  <1> HIDE DEF c
  <1>4. Shape(c) /\ Shape(c)' /\ Fits(c)' /\ c.at \notin OfAccount /\ ~Cuts(c)
    BY <1>1 DEF Quiet, Shape, Fits, Opens, OfAccount, Cuts
  <1>5. /\ calls'[w] = c
        /\ \A v \in Workers \ {w} : calls'[v] = calls[v]
    BY <1>1, Stepping, Others DEF IInv
  <1>6. Types'
    <2>1. KnownIds' = KnownIds /\ cuts \in Nat /\ tokens' \in [TokenIds -> Token \cup {NoToken}]
      BY <1>1 DEF KnownIds, IInv, Types
    <2> QED BY <1>1, <1>3, <1>4, <2>1, TypesStep DEF IInv
  <1>7. NoAccount'
    BY <1>3, RowsAreThere DEF NoAccount, Renters
  <1>8. ASSUME Settled' PROVE AllFit'
    <2>1. Settled
      BY <1>1, <1>5, <1>8 DEF Settled
    <2>2. AllFit
      BY <2>1 DEF IInv
    <2>3. \A d : Fits(d)' <=> Fits(d)
      BY <1>1, <1>3 DEF Fits, Opens, Stale, Matches
    <2>4. \A v \in Workers : Fits(calls[v])'
      BY <1>4, <1>5, <2>2, <2>3 DEF AllFit
    <2>5. \A t \in TokenIds : TokenFits(t)'
      BY <1>1, <1>3, <2>2 DEF AllFit, TokenFits
    <2> QED BY <2>4, <2>5 DEF AllFit
  <1> QED BY <1>6, <1>7, <1>8 DEF IInv

LEMMA SaveKeeps == ASSUME IInv, NEW w \in Workers, Save(w) PROVE IInv'
  <1>0. PICK d, c, new : d = calls[w] /\ c = After(d) /\ new = Merge(d.copy, d.set)
    OBVIOUS
  <1>1. /\ d.at = "saving" /\ user' = new /\ Proceed(w, c)
        /\ UNCHANGED <<tokens, cuts, failed>>
    BY <1>0 DEF Save, At
  <1>2. ~clobbered' => ~clobbered /\ user = d.copy
    BY <1>0, Zenon DEF Save
  <1>3. SaveShape(d) /\ user # NoUser
    BY <1>0, <1>1 DEF IInv, Types, NoAccount, OfAccount, Shape
  <1>4. /\ new \in Renters
        /\ "status" \notin DOMAIN d.set => new.status = d.copy.status
        /\ "status" \in DOMAIN d.set => new.status = "active" \/ d.then = "cutting"
        /\ new.password = d.copy.password \/ d.then \in {"spending", "cutting"}
        /\ d.then = "issuing" => new.status = d.copy.status
    BY <1>0, <1>3, MergeIs, ChangesAre DEF SaveShape, Reads, Renters
  <1>5. /\ c.at \in {"answered", "issuing", "spending", "cutting"}
        /\ Cuts(c) <=> d.then \in {"spending", "cutting"}
        /\ c.at = "issuing" => d.then = "issuing" /\ c.old = Nobody /\ c.copy = new /\ c.since = d.since
        /\ c.at = "answered" => c.reply = Nobody
    BY <1>0, <1>3 DEF After, SaveShape, Cuts
  <1>6. Shape(c)'
    BY <1>1, <1>3, <1>4, <1>5 DEF Shape, SaveShape, Reads
  <1>7. /\ calls'[w] = c
        /\ \A v \in Workers \ {w} : calls'[v] = calls[v]
    BY <1>1, Stepping, Others DEF IInv
  <1>8. Types'
    <2>1. KnownIds' = KnownIds /\ cuts \in Nat /\ tokens' \in [TokenIds -> Token \cup {NoToken}]
      BY <1>1 DEF KnownIds, IInv, Types
    <2> QED BY <1>1, <1>4, <1>6, <2>1, TypesStep DEF IInv
  <1>9. NoAccount'
    BY <1>1, <1>4, RowsAreThere DEF NoAccount, Renters
  <1>10. ASSUME Settled' PROVE AllFit'
    <2>1. ~Cuts(c) /\ ~clobbered /\ user = d.copy /\ ~failed
      BY <1>1, <1>2, <1>7, <1>10 DEF Settled
    <2>2. Settled
      BY <1>0, <1>1, <1>7, <1>10, <2>1 DEF Settled, Cuts
    <2>3. AllFit
      BY <2>2 DEF IInv
    <2>4. /\ user'.password = user.password
          /\ user'.status = user.status \/ user'.status = "active"
          /\ d.then = "issuing" => user'.status = user.status
      BY <1>1, <1>4, <1>5, <2>1
    <2>5. \A e : Fits(e) => Fits(e)'
      BY <1>1, <2>4 DEF Fits, Opens, Stale, Matches
    <2>6. Fits(c)'
      <3>1. CASE c.at = "issuing"
        <4>1. Fits(d)
          BY <1>0, <2>3 DEF AllFit
        <4>2. Stale(d) \/ user.status = "active"
          BY <1>1, <1>5, <3>1, <4>1 DEF Fits, Opens
        <4> QED BY <1>1, <1>5, <2>4, <3>1, <4>2 DEF Fits, Stale, Matches
      <3>2. CASE c.at = "answered"
        BY <3>2 DEF Fits, Opens
      <3> QED BY <1>5, <2>1, <3>1, <3>2 DEF Cuts
    <2>7. \A v \in Workers : Fits(calls[v])'
      <3> SUFFICES ASSUME NEW v \in Workers PROVE Fits(calls[v])'
        OBVIOUS
      <3>1. CASE v = w
        BY <1>7, <2>6, <3>1 DEF Fits, Opens, Stale, Matches
      <3>2. CASE v # w
        <4>1. Fits(calls[v]) /\ calls'[v] = calls[v]
          BY <1>7, <2>3, <3>2 DEF AllFit
        <4> QED BY <1>1, <2>4, <4>1 DEF Fits, Opens, Stale, Matches
      <3> QED BY <3>1, <3>2
    <2>8. \A t \in TokenIds : TokenFits(t)'
      BY <1>1, <2>3, <2>4 DEF AllFit, TokenFits
    <2> QED BY <2>7, <2>8 DEF AllFit
  <1> QED BY <1>8, <1>9, <1>10 DEF IInv

LEMMA InsertUserKeeps == ASSUME IInv, NEW w \in Workers, InsertUser(w) PROVE IInv'
  <1> DEFINE d == calls[w]
             new == [status |-> "active", roles |-> d.roles, password |-> 0, deleted |-> FALSE]
  <1>1. /\ d.at = "inserting" /\ ~Cuts(d)
        /\ UNCHANGED <<tokens, cuts, clobbered, failed>>
    BY DEF InsertUser, At, Cuts, historyVars
  <1>2. CASE user # NoUser
    BY <1>1, <1>2, AnswerStep DEF InsertUser
  <1>3. CASE user = NoUser
    <2>1. user' = new
      BY <1>3 DEF InsertUser
    <2> DEFINE Next1 == [at |-> "texting", copy |-> new, since |-> cuts]
               Next2 == [at |-> "accepting", copy |-> new, candidate |-> d.candidate, since |-> cuts]
    <2>2. PICK c : /\ Proceed(w, c) /\ c.at \in {"accepting", "texting"}
                   /\ c.copy = new /\ c.since = cuts
      <3>1. Proceed(w, Next1) \/ Proceed(w, Next2)
        BY <1>3 DEF InsertUser
      <3>2. /\ Next1.at = "texting" /\ Next1.copy = new /\ Next1.since = cuts
            /\ Next2.at = "accepting" /\ Next2.copy = new /\ Next2.since = cuts
        OBVIOUS
      <3> HIDE DEF Next1, Next2
      <3> QED BY <3>1, <3>2
    <2>3. new \in Renters /\ new.status = "active"
      <3>1. d.roles \in SUBSET Roles /\ "renter" \in d.roles
        BY <1>1 DEF IInv, Types, Shape
      <3>2. 0 \in Passwords
        BY RequestsAssumption DEF Passwords
      <3> QED BY <3>1, <3>2 DEF Renters, User, AccountStatuses
    <2>4. cuts \in Nat
      BY DEF IInv, Types
    <2> HIDE DEF new
    <2>5. Shape(c)' /\ ~Cuts(c)
      BY <1>1, <2>2, <2>3, <2>4 DEF Shape, Reads, Cuts
    <2>6. /\ calls'[w] = c
          /\ \A v \in Workers \ {w} : calls'[v] = calls[v]
      BY <2>2, Stepping, Others DEF IInv
    <2>7. Types'
      <3>1. KnownIds' = KnownIds /\ tokens' \in [TokenIds -> Token \cup {NoToken}]
        BY <1>1 DEF KnownIds, IInv, Types
      <3> QED BY <1>1, <2>1, <2>2, <2>3, <2>4, <2>5, <3>1, TypesStep DEF IInv
    <2>8. NoAccount'
      BY <2>1, <2>3, RowsAreThere DEF NoAccount, Renters
    <2>9. \A v \in Workers : Fits(calls[v])'
      <3> SUFFICES ASSUME NEW v \in Workers PROVE Fits(calls[v])'
        OBVIOUS
      <3>1. CASE v = w
        <4>1. user'.status = "active" /\ c.copy.password = user'.password
          BY <2>1, <2>2, <2>3
        <4> QED BY <2>2, <2>6, <3>1, <4>1 DEF Fits, Matches
      <3>2. CASE v # w
        BY <1>3, <2>6, <3>2 DEF IInv, NoAccount, OfAccount, Fits, Opens
      <3> QED BY <3>1, <3>2
    <2>10. \A t \in TokenIds : TokenFits(t)'
      BY <1>1, <1>3 DEF IInv, NoAccount, TokenFits, NoToken
    <2> QED BY <2>7, <2>8, <2>9, <2>10 DEF IInv, AllFit
  <1> QED BY <1>2, <1>3

\* After a revocation every handler on its way is late, and no token is left.
LEMMA RevokeKeeps == ASSUME IInv, NEW w \in Workers, RevokeAllForUser(w) PROVE IInv'
  <1>1. PICK c : c = [at |-> "answered", reply |-> Nobody]
    OBVIOUS
  <1>2. /\ Proceed(w, c) /\ c.at = "answered" /\ c.reply = Nobody /\ tokens' = AllRevoked
        /\ user' = user /\ cuts' = cuts + 1 /\ cuts \in Nat
    BY <1>1 DEF RevokeAllForUser, Answer, IInv, Types
  <1>3. Shape(c)' /\ c.at \notin OfAccount
    BY <1>2 DEF Shape, OfAccount
  <1>4. \A t \in TokenIds :
            /\ tokens'[t] \in Token \cup {NoToken}
            /\ tokens[t] \in Token => tokens'[t] \in Token
            /\ tokens[t] = NoToken => tokens'[t] = NoToken
            /\ ~tokens'[t].active
    <2> SUFFICES ASSUME NEW t \in TokenIds
                 PROVE  /\ tokens'[t] \in Token \cup {NoToken}
                        /\ tokens[t] \in Token => tokens'[t] \in Token
                        /\ tokens[t] = NoToken => tokens'[t] = NoToken
                        /\ ~tokens'[t].active
      OBVIOUS
    <2>1. CASE tokens[t] = NoToken
      <3>1. tokens'[t] = NoToken
        BY <1>2, <2>1 DEF AllRevoked, Known
      <3>2. ~NoToken.active
        BY DEF NoToken
      <3> QED BY <2>1, <3>1, <3>2, RowsAreThere
    <2>2. CASE tokens[t] # NoToken
      <3>1. tokens[t] \in Token
        BY <2>2 DEF IInv, Types
      <3>2. tokens'[t] = [tokens[t] EXCEPT !.active = FALSE]
        BY <1>2, <2>2 DEF AllRevoked, Known
      <3> QED BY <2>2, <3>1, <3>2 DEF Token
    <2> QED BY <2>1, <2>2
  <1>5. tokens' \in [TokenIds -> Token \cup {NoToken}] /\ KnownIds \subseteq KnownIds'
    <2>1. tokens' = [t \in TokenIds |-> tokens'[t]]
      BY <1>2 DEF AllRevoked
    <2> QED BY <1>4, <2>1 DEF KnownIds
  <1>6. Types'
    BY <1>2, <1>3, <1>5, TypesStep DEF IInv, Types
  <1>7. /\ calls'[w] = c
        /\ \A v \in Workers \ {w} : calls'[v] = calls[v]
    BY <1>2, Stepping, Others DEF IInv
  <1>8. NoAccount'
    BY <1>2, <1>3, <1>4, <1>7 DEF IInv, NoAccount
  <1>9. \A v \in Workers : Fits(calls[v])'
    <2> SUFFICES ASSUME NEW v \in Workers PROVE Fits(calls[v])'
      OBVIOUS
    <2>1. CASE v = w
      BY <1>2, <1>7, <2>1 DEF Fits, Opens
    <2>2. CASE v # w
      <3>1. Opens(calls[v]) => Reads(calls[v])
        BY DEF IInv, Types, Shape, SaveShape, Opens
      <3> QED BY <1>2, <1>7, <2>2, <3>1 DEF Fits, Opens, Stale, Reads
    <2> QED BY <2>1, <2>2
  <1>10. \A t \in TokenIds : TokenFits(t)'
    BY <1>4 DEF TokenFits
  <1> QED BY <1>6, <1>8, <1>9, <1>10 DEF IInv, AllFit

LEMMA RetireKeeps == ASSUME IInv, NEW w \in Workers, Retire(w) PROVE IInv'
  <1>1. PICK c, old : c = [at |-> "answered", reply |-> calls[w].reply] /\ old = calls[w].old
    OBVIOUS
  <1>2. /\ Proceed(w, c) /\ c.at = "answered" /\ calls[w].at = "retiring"
        /\ tokens' = [tokens EXCEPT ![old].active = FALSE]
        /\ UNCHANGED <<user, cuts, clobbered, failed>> /\ cuts \in Nat
    BY <1>1 DEF Retire, Answer, At, historyVars, IInv, Types
  <1>3. old \in KnownIds /\ user # NoUser /\ ~Cuts(calls[w])
    BY <1>1, <1>2 DEF IInv, Types, NoAccount, OfAccount, Shape, Cuts
  <1>4. Shape(c)' /\ c.at \notin OfAccount /\ ~Cuts(c)
    <2>1. c.reply \in TokenIds
      BY <1>1, <1>2 DEF IInv, Types, Shape
    <2> QED BY <1>2, <2>1 DEF Shape, OfAccount, Cuts
  <1>5. /\ tokens' \in [TokenIds -> Token \cup {NoToken}]
        /\ tokens'[old] \in Token /\ ~tokens'[old].active
        /\ tokens'[old].astray = tokens[old].astray /\ tokens'[old].password = tokens[old].password
        /\ \A t \in TokenIds \ {old} : tokens'[t] = tokens[t]
    <2>1. [tokens[old] EXCEPT !.active = FALSE] \in Token
      BY <1>3 DEF KnownIds, Token
    <2> QED BY <1>2, <1>3, <2>1 DEF IInv, Types, KnownIds, Token
  <1>6. KnownIds \subseteq KnownIds'
    BY <1>5 DEF KnownIds
  <1>7. Types'
    <2>1. user' \in Renters \cup {NoUser} /\ cuts' \in Nat /\ cuts <= cuts'
      BY <1>2 DEF IInv, Types
    <2> QED BY <1>2, <1>4, <1>5, <1>6, <2>1, TypesStep DEF IInv
  <1>8. NoAccount'
    BY <1>2, <1>3 DEF NoAccount
  <1>9. /\ calls'[w] = c
        /\ \A v \in Workers \ {w} : calls'[v] = calls[v]
    BY <1>2, Stepping, Others DEF IInv
  <1>10. ASSUME Settled' PROVE AllFit'
    <2>1. Settled
      BY <1>2, <1>3, <1>9, <1>10 DEF Settled
    <2>2. AllFit
      BY <2>1 DEF IInv
    <2>3. \A v \in Workers : Fits(calls[v])'
      <3> SUFFICES ASSUME NEW v \in Workers PROVE Fits(calls[v])'
        OBVIOUS
      <3>1. CASE v = w
        BY <1>2, <1>9, <3>1 DEF Fits, Opens
      <3>2. CASE v # w
        <4>1. Fits(calls[v]) /\ calls'[v] = calls[v] /\ Shape(calls[v])
          BY <1>9, <2>2, <3>2 DEF AllFit, IInv, Types
        <4> QED BY <1>2, <1>5, <4>1 DEF Fits, Opens, Stale, Matches, Shape, KnownIds
      <3> QED BY <3>1, <3>2
    <2>4. \A t \in TokenIds : TokenFits(t)'
      BY <1>2, <1>5, <2>2 DEF AllFit, TokenFits
    <2> QED BY <2>3, <2>4 DEF AllFit
  <1> QED BY <1>7, <1>8, <1>10 DEF IInv

\* The first token of a session, and the next.
LEMMA FirstTokenIs ==
    ASSUME NEW p \in Passwords, NEW late \in BOOLEAN
    PROVE  LET k == [active |-> TRUE, password |-> p, late |-> late, astray |-> late]
           IN  k \in Token /\ k.active /\ k.password = p /\ (late => k.late /\ k.astray)
  BY DEF Token

LEMMA SuccessorIs ==
    ASSUME NEW o \in Token, NEW late \in BOOLEAN
    PROVE  LET k == [o EXCEPT !.active = TRUE, !.late = late, !.astray = @ \/ late]
           IN  /\ k \in Token /\ k.active /\ k.password = o.password
               /\ late => k.late /\ k.astray
               /\ o.astray => k.astray
  <1>1. PICK astray \in BOOLEAN : astray = (o.astray \/ late)
    OBVIOUS
  <1>2. [o EXCEPT !.active = TRUE, !.late = late, !.astray = @ \/ late]
            = [o EXCEPT !.active = TRUE, !.late = late, !.astray = astray]
    BY <1>1, Zenon
  <1>3. (late => astray) /\ (o.astray => astray)
    BY <1>1, Zenon
  <1>4. LET k == [o EXCEPT !.active = TRUE, !.late = late, !.astray = astray]
        IN  k \in Token /\ k.active /\ k.password = o.password /\ k.late = late /\ k.astray = astray
    BY DEF Token
  <1> QED BY <1>2, <1>3, <1>4, Zenon

\* The number of the next token is the least that is left.
Least(t) == ~Known(t) /\ \A s \in 1..(t - 1) : Known(s)
NewToken == CHOOSE t \in TokenIds : Least(t)

LEMMA NextNumber ==
    ASSUME Types, Numbered, NEW w \in Workers, MayIssue(calls[w])
    PROVE  NewToken \in TokenIds /\ \A t \in TokenIds : Known(t) <=> t < NewToken
  <1>1. PICK n \in Nat : /\ \A t \in TokenIds : Known(t) <=> t <= n
                         /\ n + Cardinality(Issuers) <= started + 1
    BY DEF Numbered
  <1>2. Cardinality(Issuers) \in Nat \ {0}
    <2>1. w \in Issuers
      BY DEF Issuers
    <2> QED BY <2>1, FS_CardinalityType, FS_EmptySet DEF Numbered
  <1>3. n + 1 \in TokenIds
    BY <1>1, <1>2, RequestsAssumption DEF Types, TokenIds
  <1>4. ~Known(n + 1) /\ \A s \in 1..n : s \in TokenIds /\ Known(s)
    BY <1>1, <1>3, RequestsAssumption DEF TokenIds
  <1>5. ASSUME NEW t \in TokenIds, Least(t) PROVE t = n + 1
    <2>1. t \in Nat /\ ~(t <= n)
      BY <1>1, <1>5 DEF TokenIds, Least
    <2>2. ~(n + 1 \in 1..(t - 1))
      BY <1>4, <1>5 DEF Least
    <2> QED BY <2>1, <2>2
  <1>6. Least(n + 1)
    BY <1>4 DEF Least
  <1>7. NewToken = n + 1
    BY <1>3, <1>5, <1>6 DEF NewToken
  <1> QED BY <1>1, <1>3, <1>7 DEF TokenIds

\* The new token is late if the handler is, and astray if it is or if the
\* token is that it descends from.
LEMMA IssueIs ==
    ASSUME IInv, Numbered, NEW w \in Workers, Issue(w)
    PROVE  /\ calls[w].at = "issuing" /\ NewToken \in TokenIds
           /\ \E k \in Token :
                  /\ tokens' = [tokens EXCEPT ![NewToken] = k]
                  /\ k.active /\ (Stale(calls[w]) => k.late /\ k.astray)
                  /\ calls[w].old = Nobody => k.password = calls[w].copy.password
                  /\ calls[w].old # Nobody => /\ tokens[calls[w].old].astray => k.astray
                                              /\ k.password = tokens[calls[w].old].password
           /\ \E c : /\ Proceed(w, c) /\ c.reply = NewToken
                     /\ \/ c.at = "answered"
                        \/ c.at = "retiring" /\ c.old = calls[w].old /\ calls[w].old # Nobody
  <1>1. PICK d : d = calls[w]
    OBVIOUS
  <1>2. d.at = "issuing"
    BY <1>1 DEF Issue, At
  <1>3. Reads(d) /\ d.old \in KnownIds \cup {Nobody}
    BY <1>1, <1>2 DEF IInv, Types, Shape
  <1> DEFINE late == d.since < cuts
  <1>4. PICK k : /\ tokens' = [tokens EXCEPT ![NewToken] = k]
                 /\ k = IF d.old = Nobody
                        THEN [active |-> TRUE, password |-> d.copy.password, late |-> late, astray |-> late]
                        ELSE [tokens[d.old] EXCEPT !.active = TRUE, !.late = late, !.astray = @ \/ late]
    BY <1>1, Zenon DEF Issue, NewToken, Least
  <1>5. late \in BOOLEAN /\ (Stale(d) => late)
    BY DEF Stale
  <1> HIDE DEF late
  <1>6. /\ k \in Token /\ k.active /\ (Stale(d) => k.late /\ k.astray)
        /\ d.old = Nobody => k.password = d.copy.password
        /\ d.old # Nobody => /\ tokens[d.old].astray => k.astray
                             /\ k.password = tokens[d.old].password
    <2>1. CASE d.old = Nobody
      <3>1. d.copy.password \in Passwords
        BY <1>3 DEF Reads, Renters, User
      <3>2. k = [active |-> TRUE, password |-> d.copy.password, late |-> late, astray |-> late]
        BY <1>4, <2>1, Zenon
      <3> QED BY <1>5, <2>1, <3>1, <3>2, FirstTokenIs
    <2>2. CASE d.old # Nobody
      <3>1. tokens[d.old] \in Token
        BY <1>3, <2>2 DEF KnownIds
      <3>2. k = [tokens[d.old] EXCEPT !.active = TRUE, !.late = late, !.astray = @ \/ late]
        BY <1>4, <2>2, Zenon
      <3> QED BY <1>5, <2>2, <3>1, <3>2, SuccessorIs, Zenon
    <2> QED BY <2>1, <2>2
  <1>7. PICK c : /\ Proceed(w, c) /\ c.reply = NewToken
                 /\ c.at = "answered" \/ (c.at = "retiring" /\ c.old = d.old /\ d.old # Nobody)
    <2>1. Proceed(w, IF d.old = Nobody THEN [at |-> "answered", reply |-> NewToken]
                                       ELSE [at |-> "retiring", old |-> d.old, reply |-> NewToken])
      BY <1>1, Zenon DEF Issue, Answer, NewToken, Least
    <2> QED BY <2>1
  <1>8. NewToken \in TokenIds
    BY <1>1, <1>2, NextNumber DEF IInv, MayIssue
  <1> QED BY <1>1, <1>2, <1>4, <1>6, <1>7, <1>8

LEMMA IssueKeeps == ASSUME IInv, Numbered, NEW w \in Workers, Issue(w) PROVE IInv'
  <1>1. PICK d : d = calls[w]
    OBVIOUS
  <1>2. /\ d.at = "issuing" /\ ~Cuts(d)
        /\ UNCHANGED <<user, cuts, clobbered, failed>>
    BY <1>1 DEF Issue, At, Cuts, historyVars
  <1>3. /\ user # NoUser /\ Reads(d) /\ d.old \in KnownIds \cup {Nobody}
        /\ cuts \in Nat /\ user \in Renters \cup {NoUser}
    BY <1>1, <1>2 DEF IInv, Types, NoAccount, OfAccount, Shape
  <1>4. NewToken \in TokenIds
    BY IssueIs
  <1>5. PICK k \in Token :
            /\ tokens' = [tokens EXCEPT ![NewToken] = k]
            /\ k.active /\ (Stale(d) => k.late /\ k.astray)
            /\ d.old = Nobody => k.password = d.copy.password
            /\ d.old # Nobody => (tokens[d.old].astray => k.astray) /\ k.password = tokens[d.old].password
    BY <1>1, IssueIs
  <1>6. PICK c : /\ Proceed(w, c) /\ c.reply = NewToken
                 /\ c.at = "answered" \/ (c.at = "retiring" /\ c.old = d.old /\ d.old # Nobody)
    BY <1>1, IssueIs
  <1>7. \A t \in TokenIds : tokens'[t] = tokens[t] \/ tokens'[t] = k
    BY <1>5 DEF IInv, Types
  <1>8. tokens' \in [TokenIds -> Token \cup {NoToken}] /\ KnownIds \subseteq KnownIds'
    <2>1. tokens' \in [TokenIds -> Token \cup {NoToken}]
      BY <1>5 DEF IInv, Types
    <2> QED BY <1>5, <1>7, <2>1 DEF KnownIds
  <1>9. Shape(c)' /\ ~Cuts(c) /\ Fits(c)'
    BY <1>3, <1>4, <1>6, <1>8 DEF Shape, Cuts, Fits, Opens
  <1>10. Types'
    <2>1. user' \in Renters \cup {NoUser} /\ cuts' \in Nat /\ cuts <= cuts'
      BY <1>2, <1>3
    <2> QED BY <1>6, <1>8, <1>9, <2>1, TypesStep DEF IInv
  <1>11. NoAccount'
    BY <1>2, <1>3 DEF NoAccount
  <1>12. /\ calls'[w] = c
         /\ \A v \in Workers \ {w} : calls'[v] = calls[v]
    BY <1>6, Stepping, Others DEF IInv
  <1>13. ASSUME Settled' PROVE AllFit'
    <2>1. Settled
      BY <1>1, <1>2, <1>12, <1>13 DEF Settled
    <2>2. AllFit
      BY <2>1 DEF IInv
    <2>3. Stale(d) \/ (user.status = "active" /\ Matches(d))
      BY <1>1, <1>2, <2>2 DEF AllFit, Fits, Opens
    <2>4. (k.late \/ user.status = "active") /\ (k.astray \/ k.password = user.password)
      BY <1>2, <1>5, <2>3 DEF Matches
    <2>5. \A t \in TokenIds : TokenFits(t)'
      BY <1>2, <1>7, <2>2, <2>4 DEF AllFit, TokenFits
    <2>6. \A v \in Workers : Fits(calls[v])'
      <3> SUFFICES ASSUME NEW v \in Workers PROVE Fits(calls[v])'
        OBVIOUS
      <3>1. CASE v = w
        BY <1>6, <1>12, <3>1 DEF Fits, Opens
      <3>2. CASE v # w
        <4>1. Fits(calls[v]) /\ calls'[v] = calls[v] /\ Shape(calls[v])
          BY <1>12, <2>2, <3>2 DEF AllFit, IInv, Types
        <4>2. calls[v].at = "issuing" /\ calls[v].old # Nobody =>
                  \/ tokens'[calls[v].old] = tokens[calls[v].old]
                  \/ tokens'[calls[v].old] = k
          BY <1>7, <4>1 DEF Shape, KnownIds
        <4> QED BY <1>2, <2>4, <4>1, <4>2 DEF Fits, Opens, Stale, Matches
      <3> QED BY <3>1, <3>2
    <2> QED BY <2>5, <2>6 DEF AllFit
  <1> QED BY <1>10, <1>11, <1>13 DEF IInv

---------------------------------------------------------------------------
(* The numbers of the tokens. *)

\* A request is made, or a call goes on and will not issue a token if it
\* would not have.
Advances(w) ==
    \E c : Begin(w, c) \/ (Proceed(w, c) /\ (MayIssue(c) => MayIssue(calls[w])))

LEMMA AdvancesNumbered ==
    ASSUME Types, Numbered, NEW w \in Workers, Advances(w),
           \A t \in TokenIds : Known(t)' <=> Known(t)
    PROVE  Numbered'
  <1>1. PICK c : Begin(w, c) \/ (Proceed(w, c) /\ (MayIssue(c) => MayIssue(calls[w])))
    BY DEF Advances
  <1>2. PICK n \in Nat : /\ \A t \in TokenIds : Known(t) <=> t <= n
                         /\ n + Cardinality(Issuers) <= started + 1
    BY DEF Numbered
  <1>3. /\ calls'[w] = c
        /\ \A v \in Workers \ {w} : calls'[v] = calls[v]
    BY <1>1, Stepping, Others
  <1>4. IsFiniteSet(Issuers') /\ n + Cardinality(Issuers') <= started' + 1
    <2>1. started \in Int /\ IsFiniteSet(Issuers) /\ Cardinality(Issuers) \in Nat
      BY FS_CardinalityType DEF Types, Numbered
    <2>2. CASE Begin(w, c)
      <3>1. Issuers' \in SUBSET (Issuers \cup {w})
        BY <1>3 DEF Issuers, MayIssue
      <3>2. /\ IsFiniteSet(Issuers \cup {w})
            /\ Cardinality(Issuers \cup {w}) <= Cardinality(Issuers) + 1
        <4>1. /\ IsFiniteSet(Issuers \cup {w})
              /\ Cardinality(Issuers \cup {w})
                     = IF w \in Issuers THEN Cardinality(Issuers) ELSE Cardinality(Issuers) + 1
          BY <2>1, FS_AddElement
        <4> QED BY <2>1, <4>1
      <3>3. IsFiniteSet(Issuers') /\ Cardinality(Issuers') <= Cardinality(Issuers \cup {w})
        BY <3>1, <3>2, FS_Subset
      <3>4. Cardinality(Issuers') \in Nat /\ Cardinality(Issuers \cup {w}) \in Nat
        BY <3>2, <3>3, FS_CardinalityType
      <3>5. started' = started + 1
        BY <2>2 DEF Begin
      <3> QED BY <1>2, <2>1, <3>2, <3>3, <3>4, <3>5
    <2>3. CASE Proceed(w, c) /\ (MayIssue(c) => MayIssue(calls[w]))
      <3>1. Issuers' \in SUBSET Issuers
        BY <1>3, <2>3 DEF Issuers, MayIssue
      <3>2. IsFiniteSet(Issuers') /\ Cardinality(Issuers') <= Cardinality(Issuers)
        BY <2>1, <3>1, FS_Subset
      <3>3. Cardinality(Issuers') \in Nat
        BY <3>2, FS_CardinalityType
      <3>4. started' = started
        BY <2>3 DEF Proceed
      <3> QED BY <1>2, <2>1, <3>2, <3>3, <3>4
    <2> QED BY <1>1, <2>2, <2>3
  <1> QED BY <1>2, <1>4 DEF Numbered

LEMMA RequestsAdvance ==
    ASSUME NEW w \in Workers,
           \/ Login(w) \/ updateProfile(w) \/ createProfile(w) \/ removeAsAdmin(w) \/ Logout(w)
           \/ RequestPasswordReset(w) \/ ResetPassword(w) \/ RequestOtp(w) \/ WrongOtp(w)
           \/ VerifyOtp(w, "verified") \/ VerifyOtp(w, "resetting") \/ RevokeInvite(w) \/ InviteAdmin(w)
           \/ \E t : Refresh(w, t)
           \/ \E R : setRoles(w, R) \/ Signup(w, R)
           \/ \E s : setStatus(w, s)
    PROVE  Advances(w) /\ UNCHANGED tokens
  BY Zenon DEF Advances, Login, updateProfile, createProfile, removeAsAdmin, Logout, RequestPasswordReset,
     ResetPassword, RequestOtp, WrongOtp, VerifyOtp, RevokeInvite, InviteAdmin, Refresh, setRoles, Signup,
     setStatus, accountVars, rowVars

LEMMA IdleAdvances == ASSUME NEW w \in Workers, Proceed(w, Idle) PROVE Advances(w)
  <1>1. ~MayIssue(Idle)
    BY DEF MayIssue, Idle
  <1> QED BY <1>1 DEF Advances

LEMMA InitNumbered == Init => Numbered
  <1> SUFFICES ASSUME Init PROVE Numbered
    OBVIOUS
  <1>1. Issuers = {}
    BY DEF Init, Issuers, MayIssue, Idle
  <1>2. IsFiniteSet(Issuers) /\ Cardinality(Issuers) = 0
    BY <1>1, FS_EmptySet
  <1>3. CASE tokens = [t \in TokenIds |-> NoToken]
    <2>1. \A t \in TokenIds : Known(t) <=> t <= 0
      BY <1>3 DEF Known, TokenIds
    <2> QED BY <1>2, <2>1 DEF Numbered, Init
  <1>4. CASE tokens = [t \in TokenIds |->
                 IF t = FirstToken THEN [active |-> TRUE, password |-> 0, late |-> FALSE, astray |-> FALSE]
                                   ELSE NoToken]
    <2>1. [active |-> TRUE, password |-> 0, late |-> FALSE, astray |-> FALSE] # NoToken
      <3>1. [active |-> TRUE, password |-> 0, late |-> FALSE, astray |-> FALSE] \in Token
        BY RequestsAssumption DEF Token, Passwords
      <3> QED BY <3>1, RowsAreThere
    <2>2. \A t \in TokenIds : Known(t) <=> t <= 1
      BY <1>4, <2>1 DEF Known, TokenIds, FirstToken
    <2> QED BY <1>2, <2>2 DEF Numbered, Init
  <1> QED BY <1>3, <1>4 DEF Init, AccountInit

LEMMA RestartNumbered == ASSUME IInv, Numbered, Restart PROVE Numbered'
  <1>1. ~MayIssue([at |-> "answered", reply |-> Nobody])
    BY DEF MayIssue
  <1>2. Issuers' \in SUBSET Issuers
    BY <1>1 DEF Restart, Issuers
  <1>3. IsFiniteSet(Issuers') /\ Cardinality(Issuers') <= Cardinality(Issuers)
    BY <1>2, FS_Subset DEF Numbered
  <1>4. /\ Cardinality(Issuers) \in Nat /\ Cardinality(Issuers') \in Nat
        /\ started \in Int /\ started' = started /\ tokens' = tokens
    BY <1>3, FS_CardinalityType DEF Numbered, IInv, Types, Restart
  <1>5. \A t \in TokenIds : Known(t)' <=> Known(t)
    BY <1>4 DEF Known
  <1>6. PICK n \in Nat : /\ \A t \in TokenIds : Known(t) <=> t <= n
                         /\ n + Cardinality(Issuers) <= started + 1
    BY DEF Numbered
  <1>7. n + Cardinality(Issuers') <= started' + 1
    BY <1>3, <1>4, <1>6
  <1> QED BY <1>3, <1>5, <1>6, <1>7 DEF Numbered

\* An answer, or a call in which no token is in sight.
LEMMA AnswersAdvance ==
    ASSUME NEW w \in Workers, NEW reply, Answer(w, reply)
    PROVE  Advances(w)
  <1>1. ~MayIssue([at |-> "answered", reply |-> reply])
    BY DEF MayIssue
  <1> QED BY <1>1 DEF Answer, Advances

LEMMA SavesAdvance ==
    ASSUME NEW w \in Workers, NEW set, NEW then \in {"done", "spending", "cutting"}, NEW cause,
           Proceed(w, Saving(set, then, cause))
    PROVE  Advances(w)
  <1>1. ~MayIssue(Saving(set, then, cause))
    BY DEF MayIssue, Saving
  <1> QED BY <1>1 DEF Advances

LEMMA HandlersAdvance ==
    ASSUME IInv, NEW w \in Workers, Handle(w), ~Issue(w), ~RevokeAllForUser(w), ~Retire(w)
    PROVE  Advances(w) /\ UNCHANGED tokens
  <1>1. CASE Save(w)
    <2>1. SaveShape(calls[w]) /\ calls[w].at = "saving"
      BY <1>1 DEF IInv, Types, Shape, Save, At
    <2>2. MayIssue(After(calls[w])) => MayIssue(calls[w])
      BY <2>1 DEF After, SaveShape, MayIssue
    <2> QED BY <1>1, <2>2 DEF Save, Advances
  <1>2. CASE CheckUser(w)
    <2>1. MayIssue(calls[w])
      BY <1>2 DEF CheckUser, At, MayIssue
    <2> QED BY <1>2, <2>1 DEF CheckUser, Advances, accountVars, rowVars
  <1>3. CASE Rotate(w)
    <2>1. MayIssue(calls[w])
      BY <1>3 DEF Rotate, At, MayIssue
    <2> QED BY <1>3, <2>1, Zenon DEF Rotate, Advances, accountVars, rowVars
  <1>4. CASE ReadForReset(w)
    BY <1>4, SavesAdvance, AnswersAdvance DEF ReadForReset, accountVars, rowVars
  <1>5. CASE SpendLink(w)
    <2>1. ~MayIssue([at |-> "cutting", cause |-> "password"])
      BY DEF MayIssue
    <2> QED BY <1>5, <2>1 DEF SpendLink, Advances
  <1>6. CASE ReadAfterOtp(w)
    BY <1>6, SavesAdvance, AnswersAdvance DEF ReadAfterOtp, accountVars, rowVars
  <1>7. CASE FindInvite(w)
    <2>1. MayIssue(calls[w])
      BY <1>7 DEF FindInvite, At, MayIssue
    <2> QED BY <1>7, <2>1, Zenon DEF FindInvite, Advances, accountVars, rowVars
  <1>8. CASE InsertUser(w)
    <2>1. MayIssue(calls[w])
      BY <1>8 DEF InsertUser, At, MayIssue
    <2> QED BY <1>8, <2>1, AnswersAdvance, Zenon DEF InsertUser, Advances
  <1>9. CASE AcceptInvite(w) \/ TextCode(w)
    <2>1. MayIssue(calls[w])
      BY <1>9 DEF AcceptInvite, TextCode, At, MayIssue
    <2> QED BY <1>9, <2>1, Zenon DEF AcceptInvite, TextCode, Advances
  <1>10. CASE InsertInvite(w) \/ SaveRevoked(w)
    BY <1>10, AnswersAdvance DEF InsertInvite, SaveRevoked
  <1> QED BY <1>1, <1>2, <1>3, <1>4, <1>5, <1>6, <1>7, <1>8, <1>9, <1>10 DEF Handle

\* A revocation leaves the numbers as they are.
LEMMA RevocationsNumbered ==
    ASSUME IInv, Numbered, NEW w \in Workers, RevokeAllForUser(w) \/ Retire(w)
    PROVE  Numbered'
  <1>1. Advances(w)
    BY AnswersAdvance DEF RevokeAllForUser, Retire
  <1>2. ASSUME NEW k \in Token PROVE [k EXCEPT !.active = FALSE] # NoToken
    <2>1. [k EXCEPT !.active = FALSE] \in Token
      BY DEF Token
    <2> QED BY <2>1, RowsAreThere
  <1>3. \A t \in TokenIds : Known(t)' <=> Known(t)
    <2> SUFFICES ASSUME NEW t \in TokenIds PROVE Known(t)' <=> Known(t)
      OBVIOUS
    <2>1. tokens[t] \in Token \cup {NoToken} /\ (Known(t) => tokens[t] \in Token)
      BY DEF IInv, Types, Known
    <2>2. CASE RevokeAllForUser(w)
      <3>1. tokens'[t] = IF Known(t) THEN [tokens[t] EXCEPT !.active = FALSE] ELSE NoToken
        BY <2>2 DEF RevokeAllForUser, AllRevoked
      <3> QED BY <1>2, <2>1, <3>1 DEF Known
    <2>3. CASE Retire(w)
      <3>1. calls[w].old \in KnownIds
        BY <2>3 DEF Retire, At, IInv, Types, Shape
      <3>2. tokens'[t] = IF t = calls[w].old THEN [tokens[t] EXCEPT !.active = FALSE] ELSE tokens[t]
        BY <2>3 DEF Retire, IInv, Types
      <3> QED BY <1>2, <2>1, <3>1, <3>2, RowsAreThere DEF Known, KnownIds
    <2> QED BY <2>2, <2>3
  <1> QED BY <1>1, <1>3, AdvancesNumbered DEF IInv

\* A new token takes the next number, and its call issues no other.
LEMMA IssueNumbered ==
    ASSUME IInv, Numbered, NEW w \in Workers, Issue(w)
    PROVE  Numbered'
  <1>1. calls[w].at = "issuing" /\ MayIssue(calls[w])
    BY DEF Issue, At, MayIssue
  <1>2. NewToken \in TokenIds /\ \A t \in TokenIds : Known(t) <=> t < NewToken
    BY <1>1, NextNumber DEF IInv
  <1>3. PICK k \in Token : tokens' = [tokens EXCEPT ![NewToken] = k]
    BY IssueIs
  <1>4. PICK c : Proceed(w, c) /\ c.at \in {"answered", "retiring"}
    BY IssueIs
  <1>5. PICK n \in Nat : /\ \A t \in TokenIds : Known(t) <=> t <= n
                         /\ n + Cardinality(Issuers) <= started + 1
    BY DEF Numbered
  <1>6. /\ calls'[w] = c
        /\ \A v \in Workers \ {w} : calls'[v] = calls[v]
    BY <1>4, Stepping, Others DEF IInv
  <1>7. Issuers' \in SUBSET (Issuers \ {w}) /\ w \in Issuers
    BY <1>1, <1>4, <1>6 DEF Issuers, MayIssue
  <1>8. IsFiniteSet(Issuers \ {w}) /\ Cardinality(Issuers \ {w}) = Cardinality(Issuers) - 1
    <2>1. /\ IsFiniteSet(Issuers \ {w})
          /\ Cardinality(Issuers \ {w}) = IF w \in Issuers THEN Cardinality(Issuers) - 1 ELSE Cardinality(Issuers)
      BY FS_RemoveElement DEF Numbered
    <2> QED BY <1>7, <2>1
  <1>9. IsFiniteSet(Issuers') /\ Cardinality(Issuers') <= Cardinality(Issuers \ {w})
    BY <1>7, <1>8, FS_Subset
  <1>10. /\ Cardinality(Issuers) \in Nat /\ Cardinality(Issuers') \in Nat
         /\ started \in Int /\ started' = started
    BY <1>4, <1>9, FS_CardinalityType DEF Numbered, IInv, Types, Proceed
  <1>11. NewToken \in Nat /\ NewToken - 1 \in Nat
    BY <1>2 DEF TokenIds
  <1>12. n >= NewToken - 1
    <2>1. CASE NewToken = 1
      BY <1>5, <2>1
    <2>2. CASE NewToken # 1
      <3>1. NewToken - 1 \in TokenIds /\ NewToken - 1 < NewToken
        BY <1>2, <1>11, <2>2, RequestsAssumption DEF TokenIds
      <3>2. Known(NewToken - 1)
        BY <1>2, <3>1
      <3>3. NewToken - 1 <= n
        BY <1>5, <3>1, <3>2
      <3> QED BY <1>5, <1>11, <3>3
    <2> QED BY <2>1, <2>2
  <1>13. \A t \in TokenIds : Known(t)' <=> t <= NewToken
    <2> SUFFICES ASSUME NEW t \in TokenIds PROVE Known(t)' <=> t <= NewToken
      OBVIOUS
    <2>1. CASE t = NewToken
      BY <1>2, <1>3, <2>1, RowsAreThere DEF Known, IInv, Types, TokenIds
    <2>2. CASE t # NewToken
      <3>1. Known(t)' <=> Known(t)
        BY <1>3, <2>2 DEF Known, IInv, Types
      <3> QED BY <1>2, <2>2, <3>1 DEF TokenIds
    <2> QED BY <2>1, <2>2
  <1>14. NewToken + Cardinality(Issuers') <= started' + 1
    BY <1>5, <1>8, <1>9, <1>10, <1>11, <1>12
  <1> QED BY <1>9, <1>11, <1>13, <1>14 DEF Numbered

---------------------------------------------------------------------------
(* The specification. *)

LEMMA InitHolds == Init => IInv
  <1> SUFFICES ASSUME Init PROVE IInv
    OBVIOUS
  <1>1. \A w \in Workers : calls[w].at = "idle"
    BY DEF Init, Idle
  <1>2. \A w \in Workers : Shape(calls[w]) /\ Fits(calls[w]) /\ calls[w].at \notin OfAccount
    BY <1>1 DEF Shape, Fits, Opens, OfAccount
  <1>3. DOMAIN calls = Workers /\ started \in 0..MaxCalls /\ cuts \in Nat
    BY RequestsAssumption DEF Init, AccountInit
  <1>4. CASE user = NoUser /\ tokens = [t \in TokenIds |-> NoToken]
    BY <1>2, <1>3, <1>4 DEF IInv, Types, NoAccount, AllFit, TokenFits, NoToken
  <1>5. CASE /\ user = [status |-> "active", roles |-> {"renter"}, password |-> 0, deleted |-> FALSE]
             /\ tokens = [t \in TokenIds |->
                    IF t = FirstToken THEN [active |-> TRUE, password |-> 0, late |-> FALSE, astray |-> FALSE]
                                      ELSE NoToken]
    <2>1. 0 \in Passwords
      BY RequestsAssumption DEF Passwords
    <2>2. user \in Renters
      BY <1>5, <2>1 DEF Renters, User, Roles, AccountStatuses
    <2>3. tokens \in [TokenIds -> Token \cup {NoToken}]
      BY <1>5, <2>1 DEF Token
    <2>4. \A t \in TokenIds : TokenFits(t)
      BY <1>5 DEF TokenFits, NoToken
    <2> QED BY <1>2, <1>3, <2>2, <2>3, <2>4, RowsAreThere DEF IInv, Types, NoAccount, AllFit, Renters
  <1> QED BY <1>4, <1>5 DEF Init, AccountInit

\* A browser's step that asks nothing of the server.
LEMMA Browsing ==
    ASSUME IInv, UNCHANGED <<calls, started, user, tokens, cuts, clobbered, failed>>
    PROVE  IInv'
  BY DEF IInv, Types, Shape, SaveShape, Reads, KnownIds, NoAccount, Settled, AllFit, Fits, Opens, Stale,
         Matches, TokenFits

LEMMA Idling ==
    ASSUME IInv, NEW w \in Workers, Proceed(w, Idle), At(w, "answered"), UNCHANGED accountVars
    PROVE  IInv'
  <1>1. Quiet(Idle) /\ ~Cuts(calls[w])
    BY DEF Quiet, Idle, At, Cuts
  <1> QED BY <1>1, QuietStep DEF accountVars, rowVars, historyVars

\* The steps of a page: without a call, with the answer to one, or with a
\* request.
Page(t) ==
    \/ SignIn(t) \/ Open(t) \/ RefreshAccessToken(t) \/ FindSessionGone(t) \/ SignOut(t)
    \/ BecomeProvider(t) \/ RefreshSession(t) \/ Reload(t) \/ StayHere(t) \/ SaveSettings(t)
    \/ Receive(t) \/ LoseConnection(t) \/ Leave(t) \/ UseForm(t)

PageHears(t) == At(t, "answered") /\ Proceed(t, Idle) /\ UNCHANGED accountVars

PageAsks(t) ==
    \/ Login(t) \/ Logout(t) \/ updateProfile(t) \/ createProfile(t)
    \/ RequestPasswordReset(t) \/ ResetPassword(t) \/ RequestOtp(t) \/ WrongOtp(t)
    \/ VerifyOtp(t, "verified") \/ VerifyOtp(t, "resetting")
    \/ \E token \in TokenIds : Refresh(t, token)
    \/ \E roles \in SelfService : Signup(t, roles)

\* What the browser keeps is of its type, its tokens ones the server issued.
BrowserTyped ==
    /\ page \in [Tabs -> {"closed", "open", "becoming", "reloading"} \cup Waiting]
    /\ held \in TokenIds \cup {Nobody}
    /\ read \in [Tabs -> TokenIds \cup {Nobody}] /\ fresh \in [Tabs -> TokenIds \cup {Nobody}]
    /\ slips \subseteq Slips

LEMMA PageSteps ==
    ASSUME BrowserTyped, NEW t \in Tabs, Page(t)
    PROVE  NoCall \/ PageHears(t) \/ PageAsks(t)
  <1>1. CASE SignIn(t) \/ SignOut(t) \/ SaveSettings(t) \/ UseForm(t)
    BY <1>1, Zenon DEF SignIn, SignOut, SaveSettings, UseForm, PageAsks
  <1>5. CASE RefreshAccessToken(t) \/ RefreshSession(t)
    <2>1. held \in TokenIds /\ Refresh(t, held)
      BY <1>5 DEF RefreshAccessToken, RefreshSession, Refreshes, BrowserTyped
    <2> QED BY <2>1, Zenon DEF PageAsks
  <1>2. CASE \/ Open(t) \/ FindSessionGone(t) \/ Reload(t) \/ StayHere(t) \/ LoseConnection(t) \/ Leave(t)
    BY <1>2, Zenon DEF Open, FindSessionGone, Reload, StayHere, LoseConnection, Leave
  <1>3. CASE BecomeProvider(t)
    BY <1>3, Zenon DEF BecomeProvider, PageAsks
  <1>4. CASE Receive(t)
    BY <1>4, Zenon DEF Receive, SignedIn, Refreshed, Renewed, Saved, SignedOut, Hears, Answered, PageHears
  <1> QED BY <1>1, <1>2, <1>3, <1>4, <1>5 DEF Page

LEMMA PageKeepsTypes ==
    ASSUME IInv, BrowserTyped, NEW t \in Tabs, Page(t)
    PROVE  BrowserTyped'
  <1> DEFINE Kept == TokenIds \cup {Nobody}
             States == {"closed", "open", "becoming", "reloading"} \cup Waiting
  <1>1. t \in Workers /\ Nobody \in Kept /\ held \in Kept /\ read[t] \in Kept /\ fresh[t] \in Kept
    BY BrowserAssumption DEF BrowserTyped
  <1>2. Answered(t) => calls[t].reply \in Kept
    BY <1>1 DEF Answered, At, IInv, Types, Shape
  <1>3. ASSUME NEW to \in States, NEW own \in Kept, NEW got \in Kept, Becomes(t, to, own, got)
        PROVE  page' \in [Tabs -> States] /\ read' \in [Tabs -> Kept] /\ fresh' \in [Tabs -> Kept]
    BY <1>3 DEF Becomes, BrowserTyped
  <1>4. ASSUME NEW to \in States, Turn(t, to)
        PROVE  page' \in [Tabs -> States] /\ read' \in [Tabs -> Kept] /\ fresh' \in [Tabs -> Kept]
    BY <1>1, <1>3, <1>4 DEF Turn
  <1>5. Closes(t) => page' \in [Tabs -> States] /\ read' \in [Tabs -> Kept] /\ fresh' \in [Tabs -> Kept]
    BY <1>1, <1>3 DEF Closes
  <1>6. \A to \in {"open", "becoming", "reloading", "signing in", "signing out", "saving", "refreshing", "renewing"} :
            to \in States
    BY DEF Waiting, Refreshing
  <1>7. /\ UNCHANGED slips => slips' \subseteq Slips
        /\ \A ways \in SUBSET Slips : Slipped(ways) => slips' \subseteq Slips
    BY DEF Slipped, BrowserTyped
  <1>8. {} \in SUBSET Slips /\ \A slip \in Slips : {slip} \in SUBSET Slips
    OBVIOUS
  <1>9. "overlapped" \in Slips /\ "left" \in Slips /\ "kept" \in Slips /\ "restored" \in Slips
    BY DEF Slips
  <1>10. \A token \in Kept : WriteBack(token) => held' \in Kept /\ slips' \subseteq Slips
    BY <1>7, <1>8, <1>9 DEF WriteBack
  <1> HIDE DEF Kept, States
  <1>11. CASE SignIn(t) \/ SignOut(t) \/ BecomeProvider(t) \/ SaveSettings(t) \/ StayHere(t)
    <2>1. \E to \in States : Turn(t, to)
      BY <1>6, <1>11 DEF SignIn, SignOut, BecomeProvider, SaveSettings, StayHere
    <2>2. UNCHANGED <<held, slips>>
      BY <1>11, Zenon DEF SignIn, SignOut, BecomeProvider, SaveSettings, StayHere
    <2> QED BY <1>1, <1>4, <1>7, <2>1, <2>2 DEF BrowserTyped, Kept, States
  <1>12. CASE RefreshAccessToken(t) \/ RefreshSession(t)
    <2>1. PICK to \in States : Refreshes(t, to)
      BY <1>6, <1>12, Zenon DEF RefreshAccessToken, RefreshSession
    <2>2. Turn(t, to) /\ UNCHANGED held /\ \E ways \in SUBSET Slips : Slipped(ways)
      BY <1>8, <1>9, <2>1, Zenon DEF Refreshes
    <2> QED BY <1>1, <1>4, <1>7, <2>2 DEF BrowserTyped, Kept, States
  <1>13. CASE Open(t)
    <2>1. Becomes(t, "open", held, Nobody) /\ UNCHANGED <<held, slips>>
      BY <1>13, Zenon DEF Open
    <2> QED BY <1>1, <1>3, <1>6, <1>7, <2>1 DEF BrowserTyped, Kept, States
  <1>14. CASE FindSessionGone(t)
    BY <1>1, <1>5, <1>7, <1>14 DEF FindSessionGone, BrowserTyped, Kept, States
  <1>15. CASE Reload(t)
    <2>1. held' \in Kept /\ slips' \subseteq Slips
      BY <1>1, <1>7, <1>10, <1>15 DEF Reload
    <2>2. Closes(t) \/ Turn(t, "open")
      BY <1>15, Zenon DEF Reload
    <2> QED BY <1>4, <1>5, <1>6, <2>1, <2>2 DEF BrowserTyped, Kept, States
  <1>16. CASE Receive(t)
    <2>1. calls[t].reply \in Kept
      BY <1>2, <1>16, Zenon DEF Receive, SignedIn, Refreshed, Renewed, Saved, SignedOut, Hears
    <2>2. held' \in Kept /\ slips' \subseteq Slips
      BY <1>1, <1>7, <1>10, <1>16, <2>1 DEF Receive, SignedIn, Refreshed, Renewed, Saved, SignedOut
    <2>3. Closes(t) \/ Turn(t, "open") \/ Becomes(t, "reloading", read[t], calls[t].reply)
      BY <1>16, Zenon DEF Receive, SignedIn, Refreshed, Renewed, Saved, SignedOut
    <2> QED BY <1>1, <1>3, <1>4, <1>5, <1>6, <2>1, <2>2, <2>3 DEF BrowserTyped, Kept, States
  <1>17. CASE LoseConnection(t)
    <2>1. held' \in Kept
      BY <1>1, <1>17 DEF LoseConnection
    <2>2. slips' \subseteq Slips
      BY <1>7, <1>8, <1>9, <1>17, Zenon DEF LoseConnection
    <2>3. Closes(t) \/ Turn(t, "open")
      BY <1>17, Zenon DEF LoseConnection
    <2> QED BY <1>4, <1>5, <1>6, <2>1, <2>2, <2>3 DEF BrowserTyped, Kept, States
  <1>18. CASE Leave(t)
    <2>1. Closes(t) /\ UNCHANGED held /\ \E ways \in SUBSET Slips : Slipped(ways)
      BY <1>8, <1>9, <1>18, Zenon DEF Leave
    <2> QED BY <1>1, <1>5, <1>7, <2>1 DEF BrowserTyped, Kept, States
  <1>19. CASE UseForm(t)
    BY <1>19 DEF UseForm, browserVars, BrowserTyped
  <1> QED BY <1>11, <1>12, <1>13, <1>14, <1>15, <1>16, <1>17, <1>18, <1>19 DEF Page

LEMMA PageKeeps ==
    ASSUME IInv, BrowserTyped, NEW t \in Tabs, Page(t)
    PROVE  IInv'
  <1>1. t \in Workers
    BY BrowserAssumption
  <1>2. CASE NoCall
    BY <1>2, Browsing DEF NoCall, accountVars, rowVars, historyVars
  <1>3. CASE PageHears(t)
    BY <1>1, <1>3, Idling DEF PageHears
  <1>4. CASE PageAsks(t)
    BY <1>1, <1>4, LoginKeeps, SignupKeeps, RefreshKeeps, LogoutKeeps, UpdateProfileKeeps, CreateProfileKeeps,
       QuietRequests DEF PageAsks
  <1> QED BY <1>2, <1>3, <1>4, PageSteps

LEMMA AdministerKeeps == ASSUME IInv, NEW s \in Staff, Administer(s) PROVE IInv'
  <1>1. s \in Workers
    BY BrowserAssumption
  <1> QED BY <1>1, SetRolesKeeps, SetStatusKeeps, RemoveKeeps, QuietRequests, InviteAdminKeeps DEF Administer

LEMMA HandleKeeps == ASSUME IInv, Numbered, NEW w \in Workers, Handle(w) PROVE IInv'
  BY SaveKeeps, RevokeKeeps, IssueKeeps, CheckUserKeeps, RotateKeeps, RetireKeeps, ReadForResetKeeps,
     SpendLinkKeeps, ReadAfterOtpKeeps, FindInviteKeeps, InsertUserKeeps, SigningUpKeeps, InvitesKeep
     DEF Handle

LEMMA NextKeeps ==
    ASSUME IInv, Numbered, BrowserTyped, [Next]_vars
    PROVE  IInv' /\ BrowserTyped'
  <1>0. UNCHANGED browserVars => BrowserTyped'
    BY DEF browserVars, BrowserTyped
  <1>1. CASE UNCHANGED vars
    BY <1>0, <1>1, Browsing DEF vars, accountVars, rowVars, historyVars
  <1>2. ASSUME NEW w \in Workers, Done(w) PROVE IInv' /\ BrowserTyped'
    BY <1>0, <1>2, Idling DEF Done
  <1>3. ASSUME NEW s \in Staff, Administer(s) PROVE IInv' /\ BrowserTyped'
    BY <1>0, <1>3, AdministerKeeps DEF Administer
  <1>4. ASSUME NEW w \in Workers, Handle(w) \/ Fail(w), UNCHANGED browserVars
        PROVE  IInv' /\ BrowserTyped'
    BY <1>0, <1>4, HandleKeeps, FailKeeps
  <1>5. CASE Restart /\ UNCHANGED browserVars
    BY <1>0, <1>5, RestartKeeps
  <1>6. ASSUME NEW t \in Tabs, Page(t) PROVE IInv' /\ BrowserTyped'
    BY <1>6, PageKeeps, PageKeepsTypes
  <1> QED BY <1>1, <1>2, <1>3, <1>4, <1>5, <1>6 DEF Next, Page

LEMMA NextNumbered ==
    ASSUME IInv, Numbered, BrowserTyped, [Next]_vars
    PROVE  Numbered'
  <1>1. ASSUME NEW w \in Workers, Advances(w), UNCHANGED tokens PROVE Numbered'
    <2>1. \A t \in TokenIds : Known(t)' <=> Known(t)
      BY <1>1 DEF Known
    <2> QED BY <1>1, <2>1, AdvancesNumbered DEF IInv
  <1>2. ASSUME UNCHANGED <<calls, started, tokens>> PROVE Numbered'
    BY <1>2 DEF Numbered, Issuers, Known
  <1>3. CASE UNCHANGED vars
    BY <1>2, <1>3 DEF vars, accountVars, rowVars
  <1>4. ASSUME NEW t \in Tabs, Page(t) PROVE Numbered'
    <2>1. t \in Workers
      BY BrowserAssumption
    <2>2. CASE PageAsks(t)
      BY <1>1, <2>1, <2>2, RequestsAdvance DEF PageAsks
    <2>3. CASE NoCall
      BY <1>2, <2>3 DEF NoCall, accountVars, rowVars
    <2>4. CASE PageHears(t)
      BY <1>1, <2>1, <2>4, IdleAdvances DEF PageHears, accountVars, rowVars
    <2> QED BY <1>4, <2>2, <2>3, <2>4, PageSteps
  <1>5. ASSUME NEW s \in Staff, Administer(s) PROVE Numbered'
    <2>1. s \in Workers
      BY BrowserAssumption
    <2> QED BY <1>1, <1>5, <2>1, RequestsAdvance DEF Administer
  <1>6. ASSUME NEW w \in Workers, Handle(w) PROVE Numbered'
    BY <1>1, <1>6, HandlersAdvance, IssueNumbered, RevocationsNumbered
  <1>7. ASSUME NEW w \in Workers, Fail(w) PROVE Numbered'
    BY <1>1, <1>7, AnswersAdvance DEF Fail, rowVars
  <1>8. ASSUME NEW w \in Workers, Done(w) PROVE Numbered'
    BY <1>1, <1>8, IdleAdvances DEF Done, accountVars, rowVars
  <1>9. CASE Restart
    BY <1>9, RestartNumbered
  <1> QED BY <1>3, <1>4, <1>5, <1>6, <1>7, <1>8, <1>9 DEF Next, Page

LEMMA Inductive == Spec => [](IInv /\ Numbered /\ BrowserTyped)
  <1>1. Init => IInv /\ Numbered /\ BrowserTyped
    <2>1. Init => BrowserTyped
      BY RequestsAssumption DEF Init, BrowserTyped, FirstToken, TokenIds
    <2> QED BY <2>1, InitHolds, InitNumbered
  <1>2. (IInv /\ Numbered /\ BrowserTyped) /\ [Next]_vars => (IInv /\ Numbered /\ BrowserTyped)'
    BY NextKeeps, NextNumbered DEF BrowserTyped
  <1> QED BY <1>1, <1>2, PTL DEF Spec

\* Whatever order logins, rotations and retries come in, a session outlives a
\* suspension or a password only if it was opened by a handler already on
\* its way (UsersService.setStatus, AuthService.resetPassword,
\* TokenService.revokeAllForUser and rotateRefreshToken).
THEOREM CutOff == Spec => []SessionsCutOff
  <1>1. IInv => SessionsCutOff
    <2> SUFFICES ASSUME IInv, ~clobbered, ~failed, \A w \in Workers : ~Busy(w),
                        NEW t \in TokenIds, tokens[t].active
                 PROVE  /\ tokens[t].late \/ user.status = "active"
                        /\ tokens[t].astray \/ tokens[t].password = user.password
      BY DEF SessionsCutOff
    <2>1. \A w \in Workers : ~Cuts(calls[w])
      <3>1. Idle.at = "idle"
        BY DEF Idle
      <3>2. \A w \in Workers : calls[w] = Idle \/ calls[w].at = "answered"
        BY DEF Busy, At
      <3> QED BY <3>1, <3>2 DEF Cuts
    <2>2. TokenFits(t)
      BY <2>1 DEF IInv, Settled, AllFit
    <2> QED BY <2>2 DEF TokenFits
  <1> QED BY <1>1, Inductive, PTL

---------------------------------------------------------------------------
(* What a step may do to the account. *)

StepStands ==
    user # NoUser =>
        /\ "renter" \in user'.roles
        /\ clobbered' \/ user.roles \subseteq user'.roles
              \/ \E w \in Workers : At(w, "saving") /\ "roles" \in DOMAIN calls[w].set
        /\ clobbered' \/ user.status = user'.status
              \/ \E w \in Workers : At(w, "saving") /\ "status" \in DOMAIN calls[w].set
        /\ clobbered' \/ (user.deleted => user'.deleted)

LEMMA SaveStands == ASSUME IInv, NEW w \in Workers, Save(w) PROVE StepStands
  <1>1. PICK d : d = calls[w]
    OBVIOUS
  <1>2. d.at = "saving" /\ user' = Merge(d.copy, d.set)
    BY <1>1 DEF Save, At
  <1>3. SaveShape(d)
    BY <1>1, <1>2 DEF IInv, Types, Shape
  <1>4. /\ d.copy \in User /\ "renter" \in d.copy.roles
        /\ user'.deleted = d.copy.deleted
        /\ "status" \notin DOMAIN d.set => user'.status = d.copy.status
        /\ "roles" \notin DOMAIN d.set => user'.roles = d.copy.roles
        /\ "roles" \in DOMAIN d.set => "renter" \in user'.roles
    BY <1>2, <1>3, MergeIs DEF SaveShape, Reads, Renters
  <1>5. clobbered' \/ user = d.copy
    BY <1>1, Zenon DEF Save
  <1>6. "renter" \in user'.roles
    BY <1>4
  <1>7. CASE user = d.copy
    BY <1>1, <1>2, <1>4, <1>6, <1>7 DEF StepStands, At
  <1>8. CASE clobbered'
    BY <1>6, <1>8, Zenon DEF StepStands
  <1> QED BY <1>5, <1>7, <1>8

LEMMA RemoveStands == ASSUME IInv, NEW w \in Workers, removeAsAdmin(w) PROVE StepStands
  <1>1. user \in Renters
    BY RowsAreThere DEF removeAsAdmin, IInv, Types
  <1>2. user'.roles = user.roles /\ user'.status = user.status /\ user'.deleted
    BY <1>1 DEF removeAsAdmin, Renters, User
  <1>3. "renter" \in user'.roles
    BY <1>1, <1>2 DEF Renters
  <1> QED BY <1>2, <1>3 DEF StepStands

\* Everyone stays a renter; only setStatus lifts a suspension and only
\* setRoles takes a role away, and nothing undoes a removal, but for a save of
\* an outdated copy (UsersService, AuthService, ProviderProfileService).
THEOREM AccountsStand == Spec => AccountStands
  <1>1. IInv /\ BrowserTyped /\ [Next]_vars => [StepStands]_user
    <2> SUFFICES ASSUME IInv, BrowserTyped, [Next]_vars, user' # user PROVE StepStands
      OBVIOUS
    <2>1. \E w \in Workers : Save(w) \/ removeAsAdmin(w) \/ InsertUser(w)
      <3>1. ~(UNCHANGED vars) /\ ~Restart
        BY DEF vars, accountVars, rowVars, Restart
      <3>2. ASSUME NEW t \in Tabs, Page(t) PROVE user' = user
        BY <3>2, PageSteps DEF NoCall, PageHears, PageAsks, Login, Signup, Refresh, Logout, updateProfile,
                    createProfile, VerifyOtp, ResetPassword, RequestPasswordReset, RequestOtp, WrongOtp,
                    accountVars, rowVars
      <3>3. ASSUME NEW s \in Staff, Administer(s) PROVE user' = user \/ removeAsAdmin(s)
        BY <3>3 DEF Administer, setRoles, setStatus, RequestPasswordReset, InviteAdmin, RevokeInvite,
                    accountVars, rowVars
      <3>4. ASSUME NEW w \in Workers, Handle(w) PROVE user' = user \/ Save(w) \/ InsertUser(w)
        BY <3>4 DEF Handle, RevokeAllForUser, Issue, CheckUser, Rotate, Retire, ReadForReset, SpendLink,
                    ReadAfterOtp, FindInvite, AcceptInvite, TextCode, InsertInvite, SaveRevoked,
                    accountVars, rowVars
      <3>5. ASSUME NEW w \in Workers, Fail(w) \/ Done(w) PROVE user' = user
        BY <3>5 DEF Fail, Done, accountVars, rowVars
      <3>6. Staff \subseteq Workers
        BY BrowserAssumption
      <3> QED BY <3>1, <3>2, <3>3, <3>4, <3>5, <3>6 DEF Next, Page
    <2>2. ASSUME NEW w \in Workers, InsertUser(w) PROVE user = NoUser
      BY <2>2 DEF InsertUser
    <2> QED BY <2>1, <2>2, SaveStands, RemoveStands DEF StepStands
  <1> QED BY <1>1, Inductive, PTL DEF Spec, AccountStands, StepStands

---------------------------------------------------------------------------
(* The types. *)

AllCalls == {Idle} \cup AccountCall

\* What a handler holds besides its shape.
LEMMA CallKinds ==
    ASSUME TypeOK, NEW w \in Workers
    PROVE  /\ calls[w] \in AllCalls
           /\ calls[w].at \in {"saving", "cutting"} => calls[w].cause \in Causes
           /\ calls[w].at = "registering" => calls[w].candidate \in {"redeem", "none"}
           /\ calls[w].at \in {"inserting", "accepting"} => calls[w].candidate \in Invite
           /\ calls[w].at = "revoking invite" => calls[w].copy \in Invite
  <1>1. calls[w] \in AllCalls
    BY DEF TypeOK, AllCalls
  <1>2. CASE calls[w] = Idle
    BY <1>1, <1>2 DEF Idle
  <1>3. CASE calls[w] \in AccountCall
    BY <1>1, <1>3 DEF AccountCall
  <1> QED BY <1>1, <1>2, <1>3 DEF AllCalls

\* The stages.
LEMMA SavingIsCall ==
    ASSUME NEW set \in Changes, NEW then \in {"done", "issuing", "spending", "cutting"},
           NEW cause \in Causes, user \in User, cuts \in Nat
    PROVE  Saving(set, then, cause) \in AllCalls
  BY DEF Saving, AllCalls, AccountCall

LEMMA CallsAre ==
    /\ \A t \in TokenIds \cup {Nobody} : [at |-> "answered", reply |-> t] \in AllCalls
    /\ \A t \in TokenIds : [at |-> "refreshing", old |-> t] \in AllCalls
    /\ \A t, r \in TokenIds : [at |-> "retiring", old |-> t, reply |-> r] \in AllCalls
    /\ \A a \in {"spending", "redeeming", "verified", "resetting", "inviting"} : [at |-> a] \in AllCalls
    /\ \A cause \in Causes : [at |-> "cutting", cause |-> cause] \in AllCalls
    /\ \A R \in SUBSET Roles, c \in {"redeem", "none"} :
           [at |-> "registering", roles |-> R, candidate |-> c] \in AllCalls
    /\ \A R \in SUBSET Roles, i \in Invite : [at |-> "inserting", roles |-> R, candidate |-> i] \in AllCalls
    /\ \A i \in Invite : [at |-> "revoking invite", copy |-> i] \in AllCalls
    /\ \A u \in User, n \in Nat :
           /\ \A t \in TokenIds : [at |-> "rotating", old |-> t, copy |-> u, since |-> n] \in AllCalls
           /\ \A t \in TokenIds \cup {Nobody} :
                  [at |-> "issuing", old |-> t, copy |-> u, since |-> n] \in AllCalls
           /\ \A i \in Invite : [at |-> "accepting", copy |-> u, candidate |-> i, since |-> n] \in AllCalls
           /\ [at |-> "texting", copy |-> u, since |-> n] \in AllCalls
  <1>1. \A t \in TokenIds \cup {Nobody} : [at |-> "answered", reply |-> t] \in AllCalls
    BY DEF AllCalls, AccountCall
  <1>2. /\ \A t \in TokenIds : [at |-> "refreshing", old |-> t] \in AllCalls
        /\ \A t, r \in TokenIds : [at |-> "retiring", old |-> t, reply |-> r] \in AllCalls
    BY DEF AllCalls, AccountCall
  <1>3. \A a \in {"spending", "redeeming", "verified", "resetting", "inviting"} : [at |-> a] \in AllCalls
    BY DEF AllCalls, AccountCall
  <1>4. \A cause \in Causes : [at |-> "cutting", cause |-> cause] \in AllCalls
    BY DEF AllCalls, AccountCall
  <1>5. \A R \in SUBSET Roles, c \in {"redeem", "none"} :
            [at |-> "registering", roles |-> R, candidate |-> c] \in AllCalls
    BY DEF AllCalls, AccountCall
  <1>6. \A R \in SUBSET Roles, i \in Invite :
            [at |-> "inserting", roles |-> R, candidate |-> i] \in AllCalls
    BY DEF AllCalls, AccountCall
  <1>7. \A i \in Invite : [at |-> "revoking invite", copy |-> i] \in AllCalls
    BY DEF AllCalls, AccountCall
  <1>8. \A u \in User, n \in Nat, t \in TokenIds :
            [at |-> "rotating", old |-> t, copy |-> u, since |-> n] \in AllCalls
    BY DEF AllCalls, AccountCall
  <1>9. \A u \in User, n \in Nat, t \in TokenIds \cup {Nobody} :
            [at |-> "issuing", old |-> t, copy |-> u, since |-> n] \in AllCalls
    BY DEF AllCalls, AccountCall
  <1>10. \A u \in User, n \in Nat, i \in Invite :
             [at |-> "accepting", copy |-> u, candidate |-> i, since |-> n] \in AllCalls
    BY DEF AllCalls, AccountCall
  <1>11. \A u \in User, n \in Nat : [at |-> "texting", copy |-> u, since |-> n] \in AllCalls
    BY DEF AllCalls, AccountCall
  <1> QED BY <1>1, <1>2, <1>3, <1>4, <1>5, <1>6, <1>7, <1>8, <1>9, <1>10, <1>11

\* A step that keeps the types of calls and of what the invariant leaves out.
OneTyped(w) == \E c \in AllCalls : Begin(w, c) \/ Proceed(w, c)

RestTyped ==
    /\ link \in Links /\ code \in {NoCode} \cup 0..MaxAttempts /\ invite \in Invite
    /\ causes \subseteq Causes
    /\ linkUses \in Nat /\ codeUses \in Nat /\ codesSent \in Nat
    /\ shared \in BOOLEAN /\ clobbered \in BOOLEAN /\ failed \in BOOLEAN

LEMMA InvitesAre ==
    /\ NoInvite \in Invite
    /\ [accepted |-> FALSE, revoked |-> FALSE] \in Invite
    /\ \A i \in Invite : Merge(i, [accepted |-> TRUE]) \in Invite /\ Merge(i, [revoked |-> TRUE]) \in Invite
  <1>1. NoInvite \in Invite /\ [accepted |-> FALSE, revoked |-> FALSE] \in Invite
    BY DEF NoInvite, Invite
  <1>2. ASSUME NEW i \in Invite
        PROVE  Merge(i, [accepted |-> TRUE]) \in Invite /\ Merge(i, [revoked |-> TRUE]) \in Invite
    BY DEF Merge, Invite
  <1> QED BY <1>1, <1>2

\* What the invariant says of the account.
LEMMA InvariantTypes ==
    ASSUME IInv
    PROVE  /\ user \in User \cup {NoUser} /\ (Found => user \in User)
           /\ cuts \in Nat /\ started \in Passwords
           /\ \A w \in Workers : Shape(calls[w])
  BY RowsAreThere DEF IInv, Types, Renters, Passwords

LEMMA ReadsTyped ==
    ASSUME TypeOK, IInv, NEW w \in Workers,
           \/ Login(w) \/ updateProfile(w) \/ createProfile(w)
           \/ \E R \in RoleSets : setRoles(w, R)
           \/ \E s \in AccountStatuses : setStatus(w, s)
           \/ InviteAdmin(w) \/ ReadForReset(w) \/ ReadAfterOtp(w)
    PROVE  OneTyped(w) /\ UNCHANGED accountVars
  <1> USE DEF OneTyped
  <1>1. ASSUME Found, NEW set \in Changes, NEW then \in {"done", "issuing", "spending", "cutting"},
               NEW cause \in {"logout", "suspended", "password"}
        PROVE  Saving(set, then, cause) \in AllCalls
    BY <1>1, SavingIsCall, InvariantTypes DEF Causes
  <1>2. Found => user.roles \in SUBSET Roles
    BY UserRoles
  <1>3. CASE Login(w) \/ updateProfile(w)
    BY <1>1, <1>3, ChangesAre DEF Login, updateProfile
  <1>4. CASE createProfile(w)
    <2>1. [roles |-> user.roles \cup {"provider"}] \in Changes
      BY <1>2, <1>4, ChangesAre DEF createProfile, Roles
    <2> QED BY <1>1, <1>4, <2>1 DEF createProfile
  <1>5. ASSUME NEW R \in RoleSets, setRoles(w, R) PROVE OneTyped(w) /\ UNCHANGED accountVars
    <2>1. [roles |-> R \cup {"renter"}] \in Changes
      BY ChangesAre DEF Roles, RoleSets
    <2> QED BY <1>1, <1>5, <2>1 DEF setRoles
  <1>6. ASSUME NEW s \in AccountStatuses, setStatus(w, s) PROVE OneTyped(w) /\ UNCHANGED accountVars
    <2>1. [status |-> s] \in Changes
      BY ChangesAre
    <2> QED BY <1>1, <1>6, <2>1 DEF setStatus
  <1>7. CASE InviteAdmin(w)
    <2>1. CASE Found
      <3>1. [roles |-> user.roles \cup {"admin"}] \in Changes
        BY <1>2, <2>1, ChangesAre DEF Roles
      <3> QED BY <1>1, <1>7, <2>1, <3>1 DEF InviteAdmin, addRole
    <2>2. CASE ~Found
      BY <1>7, <2>2, CallsAre DEF InviteAdmin
    <2> QED BY <2>1, <2>2
  <1>8. CASE ReadForReset(w) \/ ReadAfterOtp(w)
    <2>1. [password |-> started] \in Changes /\ Keep \in Changes
      BY InvariantTypes, ChangesAre
    <2>2. [at |-> "answered", reply |-> Nobody] \in AllCalls
      BY CallsAre
    <2> QED BY <1>1, <1>8, <2>1, <2>2 DEF ReadForReset, ReadAfterOtp, Answer
  <1> QED BY <1>3, <1>4, <1>5, <1>6, <1>7, <1>8

LEMMA RestStays ==
    ASSUME TypeOK, UNCHANGED accountVars
    PROVE  RestTyped'
  BY DEF TypeOK, AccountTypeOK, RestTyped, accountVars, rowVars, historyVars

\* The requests that do not read the account first.
LEMMA RequestsTyped ==
    ASSUME TypeOK, IInv, NEW w \in Workers,
           \/ removeAsAdmin(w) \/ Logout(w) \/ \E t \in TokenIds : Refresh(w, t)
           \/ RequestPasswordReset(w) \/ ResetPassword(w) \/ RequestOtp(w) \/ WrongOtp(w)
           \/ VerifyOtp(w, "verified") \/ VerifyOtp(w, "resetting") \/ RevokeInvite(w)
           \/ \E R \in SelfService : Signup(w, R)
    PROVE  OneTyped(w) /\ RestTyped'
  <1> USE DEF OneTyped
  <1>1. CASE Logout(w)
    <2>1. [at |-> "cutting", cause |-> "logout"] \in AllCalls
      BY CallsAre DEF Causes
    <2> QED BY <1>1, <2>1, RestStays DEF Logout
  <1>2. ASSUME NEW t \in TokenIds, Refresh(w, t) PROVE OneTyped(w) /\ RestTyped'
    BY <1>2, CallsAre, RestStays DEF Refresh
  <1>3. ASSUME NEW R \in SelfService, Signup(w, R) PROVE OneTyped(w) /\ RestTyped'
    <2>1. R \cup {"renter"} \in SUBSET Roles
      BY DEF SelfService, Roles
    <2>2. \A c \in {"redeem", "none"} :
              [at |-> "registering", roles |-> R \cup {"renter"}, candidate |-> c] \in AllCalls
      BY <2>1, CallsAre
    <2> QED BY <1>3, <2>2, RestStays DEF Signup
  <1>4. CASE RevokeInvite(w)
    <2>1. [at |-> "revoking invite", copy |-> invite] \in AllCalls
      BY CallsAre DEF TypeOK, AccountTypeOK
    <2> QED BY <1>4, <2>1, RestStays DEF RevokeInvite
  <1>5. [at |-> "answered", reply |-> Nobody] \in AllCalls
    BY CallsAre
  <1>6. CASE removeAsAdmin(w) \/ RequestPasswordReset(w)
    BY <1>5, <1>6 DEF removeAsAdmin, RequestPasswordReset, TypeOK, AccountTypeOK, RestTyped, historyVars, Links
  <1>7. CASE ResetPassword(w)
    <2>1. [at |-> "redeeming"] \in AllCalls
      BY CallsAre
    <2>2. shared' \in BOOLEAN
      BY <1>7, Zenon DEF ResetPassword
    <2> QED BY <1>7, <2>1, <2>2 DEF ResetPassword, TypeOK, AccountTypeOK, RestTyped, rowVars
  <1>8. CASE RequestOtp(w)
    BY <1>5, <1>8, AccountsAssumption DEF RequestOtp, TypeOK, AccountTypeOK, RestTyped
  <1>9. CASE WrongOtp(w)
    BY <1>5, <1>9, AccountsAssumption DEF WrongOtp, TypeOK, AccountTypeOK, RestTyped, historyVars, NoCode
  <1>10. CASE VerifyOtp(w, "verified") \/ VerifyOtp(w, "resetting")
    <2>1. [at |-> "verified"] \in AllCalls /\ [at |-> "resetting"] \in AllCalls
      BY CallsAre
    <2> QED BY <1>10, <2>1 DEF VerifyOtp, TypeOK, AccountTypeOK, RestTyped, historyVars
  <1> QED BY <1>1, <1>2, <1>3, <1>4, <1>6, <1>7, <1>8, <1>9, <1>10

LEMMA HandlersTyped ==
    ASSUME TypeOK, IInv, Numbered, NEW w \in Workers, Handle(w)
    PROVE  OneTyped(w) /\ RestTyped'
  <1> USE DEF OneTyped
  <1> DEFINE d == calls[w]
  <1>0. [at |-> "answered", reply |-> Nobody] \in AllCalls
    BY CallsAre
  <1>1. CASE Save(w)
    <2>1. SaveShape(d) /\ d.cause \in Causes
      BY <1>1, CallKinds DEF Save, At, IInv, Types, Shape
    <2>2. Merge(d.copy, d.set) \in User /\ d.since \in Nat
      BY <2>1, MergeIs DEF SaveShape, Reads, Renters
    <2>3. After(d) \in AllCalls
      BY <1>0, <2>1, <2>2, CallsAre DEF After, SaveShape
    <2>4. clobbered' \in BOOLEAN
      BY <1>1, Zenon DEF Save
    <2> QED BY <1>1, <2>3, <2>4 DEF Save, TypeOK, AccountTypeOK, RestTyped
  <1>2. CASE RevokeAllForUser(w)
    <2>1. d.cause \in Causes
      BY <1>2, CallKinds DEF RevokeAllForUser, At
    <2> QED BY <1>0, <1>2, <2>1 DEF RevokeAllForUser, Answer, TypeOK, AccountTypeOK, RestTyped
  <1>3. CASE Issue(w)
    <2>1. d.old \in KnownIds \cup {Nobody}
      BY <1>3 DEF Issue, At, IInv, Types, Shape
    <2>2. PICK r \in TokenIds :
              Proceed(w, IF d.old = Nobody THEN [at |-> "answered", reply |-> r]
                                           ELSE [at |-> "retiring", old |-> d.old, reply |-> r])
      <3>1. NewToken \in TokenIds
        BY <1>3, IssueIs
      <3> QED BY <1>3, <3>1, Zenon DEF Issue, Answer, NewToken, Least
    <2>3. OneTyped(w)
      BY <2>1, <2>2, CallsAre DEF KnownIds
    <2> QED BY <1>3, <2>3 DEF Issue, TypeOK, AccountTypeOK, RestTyped, historyVars
  <1>4. CASE CheckUser(w)
    <2>1. d.old \in TokenIds
      BY <1>4 DEF CheckUser, At, IInv, Types, Shape, KnownIds
    <2>2. Found => [at |-> "rotating", old |-> d.old, copy |-> user, since |-> cuts] \in AllCalls
      BY <2>1, CallsAre, InvariantTypes
    <2> QED BY <1>0, <1>4, <2>2, RestStays DEF CheckUser, ReadActiveUser
  <1>5. CASE Rotate(w)
    <2>1. d.old \in TokenIds /\ d.copy \in User /\ d.since \in Nat
      BY <1>5 DEF Rotate, At, IInv, Types, Shape, KnownIds, Reads, Renters
    <2>2. [at |-> "issuing", old |-> d.old, copy |-> d.copy, since |-> d.since] \in AllCalls
      BY <2>1, CallsAre
    <2>3. [at |-> "cutting", cause |-> "reuse"] \in AllCalls
      BY CallsAre DEF Causes
    <2> QED BY <1>5, <2>2, <2>3, RestStays DEF Rotate
  <1>6. CASE Retire(w)
    <2>1. d.reply \in TokenIds
      BY <1>6 DEF Retire, At, IInv, Types, Shape
    <2> QED BY <1>6, <2>1, CallsAre DEF Retire, Answer, TypeOK, AccountTypeOK, RestTyped, historyVars
  <1>7. CASE ReadForReset(w) \/ ReadAfterOtp(w)
    BY <1>7, ReadsTyped, RestStays
  <1>8. CASE SpendLink(w)
    <2>1. [at |-> "cutting", cause |-> "password"] \in AllCalls
      BY CallsAre DEF Causes
    <2> QED BY <1>8, <2>1 DEF SpendLink, TypeOK, AccountTypeOK, RestTyped, historyVars, Links
  <1>9. CASE FindInvite(w)
    <2>1. d.roles \in SUBSET Roles /\ invite \in Invite
      BY <1>9 DEF FindInvite, At, IInv, Types, Shape, TypeOK, AccountTypeOK
    <2>2. \A extra \in {{}, {"admin"}}, candidate \in {invite, NoInvite} :
              [at |-> "inserting", roles |-> d.roles \cup extra, candidate |-> candidate] \in AllCalls
      <3>1. \A extra \in {{}, {"admin"}} : d.roles \cup extra \in SUBSET Roles
        BY <2>1 DEF Roles
      <3> QED BY <2>1, <3>1, CallsAre, InvitesAre
    <2>3. OneTyped(w)
      BY <1>9, <2>2 DEF FindInvite
    <2> QED BY <1>9, <2>3, RestStays DEF FindInvite
  <1>10. CASE InsertUser(w)
    <2> DEFINE new == [status |-> "active", roles |-> d.roles, password |-> 0, deleted |-> FALSE]
    <2>1. new \in User /\ d.candidate \in Invite /\ cuts \in Nat
      <3>1. d.roles \in SUBSET Roles /\ d.candidate \in Invite /\ cuts \in Nat
        BY <1>10, CallKinds DEF InsertUser, At, IInv, Types, Shape
      <3>2. 0 \in Passwords
        BY RequestsAssumption DEF Passwords
      <3> QED BY <3>1, <3>2 DEF User, AccountStatuses
    <2>2. /\ [at |-> "texting", copy |-> new, since |-> cuts] \in AllCalls
          /\ [at |-> "accepting", copy |-> new, candidate |-> d.candidate, since |-> cuts] \in AllCalls
      BY <2>1, CallsAre
    <2> HIDE DEF new
    <2>3. OneTyped(w)
      BY <1>0, <1>10, <2>2, Zenon DEF InsertUser, Answer, new
    <2> QED BY <1>10, <2>3 DEF InsertUser, TypeOK, AccountTypeOK, RestTyped, historyVars
  <1>11. CASE AcceptInvite(w) \/ TextCode(w)
    <2>1. d.copy \in User /\ d.since \in Nat
      BY <1>11 DEF AcceptInvite, TextCode, At, IInv, Types, Shape, Reads, Renters
    <2>2. /\ [at |-> "texting", copy |-> d.copy, since |-> d.since] \in AllCalls
          /\ [at |-> "issuing", old |-> Nobody, copy |-> d.copy, since |-> d.since] \in AllCalls
      BY <2>1, CallsAre
    <2>3. OneTyped(w)
      BY <1>11, <2>2 DEF AcceptInvite, TextCode
    <2>4. clobbered' \in BOOLEAN
      BY <1>11, Zenon DEF AcceptInvite, TextCode, TypeOK, AccountTypeOK
    <2>5. invite' \in Invite
      BY <1>11, CallKinds, InvitesAre DEF AcceptInvite, TextCode, At, TypeOK, AccountTypeOK
    <2> QED BY <1>11, <2>3, <2>4, <2>5, AccountsAssumption
            DEF AcceptInvite, TextCode, TypeOK, AccountTypeOK, RestTyped
  <1>12. CASE InsertInvite(w) \/ SaveRevoked(w)
    <2>1. invite' \in Invite
      BY <1>12, CallKinds, InvitesAre DEF InsertInvite, SaveRevoked, At, TypeOK, AccountTypeOK
    <2>2. clobbered' \in BOOLEAN
      BY <1>12, Zenon DEF InsertInvite, SaveRevoked, historyVars, TypeOK, AccountTypeOK
    <2> QED BY <1>0, <1>12, <2>1, <2>2
            DEF InsertInvite, SaveRevoked, Answer, TypeOK, AccountTypeOK, RestTyped, historyVars
  <1> QED BY <1>1, <1>2, <1>3, <1>4, <1>5, <1>6, <1>7, <1>8, <1>9, <1>10, <1>11, <1>12 DEF Handle

\* All handlers, and what the pages keep.
LEMMA OneIsTyped ==
    ASSUME TypeOK, NEW w \in Workers, OneTyped(w)
    PROVE  calls' \in [Workers -> AllCalls]
  BY DEF TypeOK, OneTyped, Begin, Proceed, Goto, AllCalls

LEMMA TypedStep ==
    ASSUME TypeOK, IInv, Numbered, BrowserTyped, [Next]_vars
    PROVE  calls' \in [Workers -> AllCalls] /\ RestTyped'
  <1>1. ASSUME NEW w \in Workers, Proceed(w, Idle), UNCHANGED accountVars
        PROVE  calls' \in [Workers -> AllCalls] /\ RestTyped'
    <2>1. OneTyped(w)
      BY <1>1 DEF OneTyped, AllCalls
    <2> QED BY <1>1, <2>1, OneIsTyped, RestStays
  <1>2. ASSUME UNCHANGED <<calls, accountVars>> PROVE calls' \in [Workers -> AllCalls] /\ RestTyped'
    BY <1>2, RestStays DEF TypeOK, AllCalls
  <1>4. ASSUME NEW w \in Workers, OneTyped(w) /\ (RestTyped' \/ UNCHANGED accountVars)
        PROVE  calls' \in [Workers -> AllCalls] /\ RestTyped'
    BY <1>4, OneIsTyped, RestStays
  <1>5. CASE UNCHANGED vars
    BY <1>2, <1>5 DEF vars
  <1>6. ASSUME NEW t \in Tabs, Page(t)
        PROVE  calls' \in [Workers -> AllCalls] /\ RestTyped'
    <2>1. t \in Workers
      BY BrowserAssumption
    <2>2. CASE PageAsks(t)
      BY <1>4, <2>1, <2>2, ReadsTyped, RequestsTyped DEF PageAsks
    <2>3. CASE NoCall
      BY <1>2, <2>3 DEF NoCall
    <2>4. CASE PageHears(t)
      BY <1>1, <2>1, <2>4 DEF PageHears
    <2> QED BY <1>6, <2>2, <2>3, <2>4, PageSteps
  <1>7. ASSUME NEW s \in Staff, Administer(s)
        PROVE  calls' \in [Workers -> AllCalls] /\ RestTyped'
    <2>1. s \in Workers
      BY BrowserAssumption
    <2> QED BY <1>4, <1>7, <2>1, ReadsTyped, RequestsTyped DEF Administer
  <1>8. ASSUME NEW w \in Workers, Handle(w), UNCHANGED browserVars
        PROVE  calls' \in [Workers -> AllCalls] /\ RestTyped'
    BY <1>4, <1>8, HandlersTyped
  <1>9. [at |-> "answered", reply |-> Nobody] \in AllCalls
    BY CallsAre
  <1>10. ASSUME NEW w \in Workers, Fail(w), UNCHANGED browserVars
         PROVE  calls' \in [Workers -> AllCalls] /\ RestTyped'
    <2>1. OneTyped(w)
      BY <1>9, <1>10 DEF Fail, Answer, OneTyped
    <2>2. RestTyped'
      BY <1>10 DEF Fail, TypeOK, AccountTypeOK, RestTyped, rowVars
    <2> QED BY <1>4, <1>10, <2>1, <2>2
  <1>11. ASSUME NEW w \in Workers, Done(w)
         PROVE  calls' \in [Workers -> AllCalls] /\ RestTyped'
    BY <1>1, <1>11 DEF Done
  <1>12. CASE Restart /\ UNCHANGED browserVars
    <2>1. RestTyped'
      BY <1>12, AccountsAssumption DEF Restart, TypeOK, AccountTypeOK, RestTyped, NoCode
    <2>2. calls' \in [Workers -> AllCalls]
      BY <1>9, <1>12 DEF Restart, TypeOK, AllCalls
    <2> QED BY <1>12, <2>1, <2>2
  <1> QED BY <1>5, <1>6, <1>7, <1>8, <1>10, <1>11, <1>12 DEF Next, Page

\* Every variable of the composition keeps to its type; with `Numbered', the
\* number that issueTokenPair takes is one.
THEOREM Typed == Spec => []TypeOK
  <1>1. Init => TypeOK
    <2> SUFFICES ASSUME Init PROVE TypeOK
      OBVIOUS
    <2>1. /\ user \in User \cup {NoUser} /\ tokens \in [TokenIds -> Token \cup {NoToken}]
          /\ cuts \in Nat /\ started \in 0..MaxCalls /\ BrowserTyped
      BY InitHolds, RequestsAssumption
         DEF IInv, Types, Renters, Init, BrowserTyped, FirstToken, TokenIds
    <2>2. calls \in [Workers -> {Idle} \cup AccountCall]
      BY DEF Init
    <2>3. RestTyped
      BY InvitesAre DEF Init, AccountInit, RestTyped, Links
    <2> QED BY <2>1, <2>2, <2>3 DEF TypeOK, AccountTypeOK, RestTyped, BrowserTyped
  <1>2. (IInv /\ Numbered /\ BrowserTyped)' /\ TypeOK /\ (IInv /\ Numbered /\ BrowserTyped) /\ [Next]_vars => TypeOK'
    <2> SUFFICES ASSUME (IInv /\ BrowserTyped)', TypeOK, IInv, Numbered, BrowserTyped, [Next]_vars PROVE TypeOK'
      OBVIOUS
    <2>1. calls' \in [Workers -> {Idle} \cup AccountCall] /\ RestTyped'
      BY TypedStep DEF AllCalls
    <2>2. /\ user' \in User \cup {NoUser} /\ tokens' \in [TokenIds -> Token \cup {NoToken}]
          /\ cuts' \in Nat /\ started' \in 0..MaxCalls
      BY DEF IInv, Types, Renters
    <2> QED BY <2>1, <2>2 DEF TypeOK, AccountTypeOK, RestTyped, BrowserTyped
  <1> QED BY <1>1, <1>2, Inductive, PTL DEF Spec

---------------------------------------------------------------------------
(* Passwords by link and by code. *)

WithLink(c) == c.at \in {"redeeming", "spending"} \/ (c.at = "saving" /\ c.then = "spending")

\* One call uses the link at a time: before its save no password was set by
\* it, between the save and `used_at' one was.
LinkInv ==
    ~shared /\ ~failed =>
        /\ \A v, w \in Workers : WithLink(calls[v]) /\ WithLink(calls[w]) => v = w
        /\ \A w \in Workers : WithLink(calls[w]) =>
               link = "active" /\ linkUses = (IF calls[w].at = "spending" THEN 1 ELSE 0)
        /\ link # "used" /\ (\A w \in Workers : ~WithLink(calls[w])) => linkUses = 0
        /\ linkUses <= 1

\* A code that was sent is in the store, or with a call that will set a
\* password, or was used, or is lost.
Redeems(c) == c.at = "resetting" \/ (c.at = "saving" /\ c.then = "cutting" /\ c.cause = "password")
Redeemers == {w \in Workers : Redeems(calls[w])}
InStore == IF code = NoCode THEN 0 ELSE 1
CodeInv ==
    /\ IsFiniteSet(Redeemers)
    /\ codeUses + Cardinality(Redeemers) + InStore <= codesSent

ResetInv == LinkInv /\ CodeInv

Minus(c) == IF Redeems(c) THEN 1 ELSE 0

\* How a step of a call changes the number of those with a code.
LEMMA RedeemersChange ==
    ASSUME Types, IsFiniteSet(Redeemers), NEW w \in Workers, NEW c, calls' = [calls EXCEPT ![w] = c]
    PROVE  /\ IsFiniteSet(Redeemers') /\ Cardinality(Redeemers) \in Nat /\ Cardinality(Redeemers') \in Nat
           /\ Cardinality(Redeemers') = Cardinality(Redeemers) - Minus(calls[w]) + Minus(c)
  <1>1. /\ calls'[w] = c
        /\ \A v \in Workers \ {w} : calls'[v] = calls[v]
    BY Others
  <1> DEFINE others == Redeemers \ {w}
  <1>2. IsFiniteSet(others) /\ Cardinality(others) = Cardinality(Redeemers) - Minus(calls[w])
    <2>1. /\ IsFiniteSet(others)
          /\ Cardinality(others) = IF w \in Redeemers THEN Cardinality(Redeemers) - 1 ELSE Cardinality(Redeemers)
      BY FS_RemoveElement
    <2>2. w \in Redeemers <=> Redeems(calls[w])
      BY DEF Redeemers
    <2>3. Cardinality(Redeemers) \in Nat
      BY FS_CardinalityType
    <2> HIDE DEF others
    <2> QED BY <2>1, <2>2, <2>3 DEF Minus
  <1>3. Redeemers' = IF Redeems(c) THEN others \cup {w} ELSE others
    BY <1>1 DEF Redeemers, Redeems
  <1>4. w \notin others
    OBVIOUS
  <1> HIDE DEF others
  <1>5. /\ IsFiniteSet(others \cup {w})
        /\ Cardinality(others \cup {w}) = IF w \in others THEN Cardinality(others) ELSE Cardinality(others) + 1
    BY <1>2, FS_AddElement
  <1>6. Cardinality(Redeemers) \in Nat /\ Cardinality(others) \in Nat /\ IsFiniteSet(Redeemers')
    BY <1>2, <1>3, <1>5, FS_CardinalityType
  <1>7. Cardinality(Redeemers') \in Nat
    BY <1>6, FS_CardinalityType
  <1>8. Cardinality(Redeemers') = Cardinality(others) + Minus(c)
    BY <1>3, <1>4, <1>5, <1>6 DEF Minus
  <1> QED BY <1>2, <1>6, <1>7, <1>8

LEMMA CodeStep ==
    ASSUME Types, TypeOK, CodeInv, NEW w \in Workers, NEW c, calls' = [calls EXCEPT ![w] = c],
           codeUses' \in Int, codesSent' \in Int,
           codeUses' - codeUses + Minus(c) - Minus(calls[w]) + InStore' - InStore <= codesSent' - codesSent
    PROVE  CodeInv'
  <1>1. /\ codeUses \in Int /\ codesSent \in Int /\ InStore \in Int /\ InStore' \in Int
        /\ Minus(c) \in Int /\ Minus(calls[w]) \in Int
    BY DEF TypeOK, AccountTypeOK, InStore, Minus
  <1>2. /\ IsFiniteSet(Redeemers') /\ Cardinality(Redeemers) \in Nat /\ Cardinality(Redeemers') \in Nat
        /\ Cardinality(Redeemers') = Cardinality(Redeemers) - Minus(calls[w]) + Minus(c)
    BY RedeemersChange DEF CodeInv
  <1> QED BY <1>1, <1>2 DEF CodeInv

LEMMA LinkStep ==
    ASSUME Types, LinkInv, NEW w \in Workers, NEW c, calls' = [calls EXCEPT ![w] = c],
           ~WithLink(c), ~WithLink(calls[w]), UNCHANGED <<link, linkUses, shared>>, failed => failed'
    PROVE  LinkInv'
  <1>1. /\ calls'[w] = c
        /\ \A v \in Workers \ {w} : calls'[v] = calls[v]
    BY Others
  <1> SUFFICES ASSUME ~shared', ~failed' PROVE LinkInv'
    BY DEF LinkInv
  <1>2. \A v \in Workers : WithLink(calls'[v]) => v # w /\ calls'[v] = calls[v]
    BY <1>1
  <1>3. \A v \in Workers : WithLink(calls[v]) => v # w /\ calls'[v] = calls[v]
    BY <1>1
  <1>4. ~shared /\ ~failed
    OBVIOUS
  <1> QED BY <1>2, <1>3, <1>4 DEF LinkInv, WithLink

\* A step that uses neither.
Aside(w) ==
    /\ \E c : /\ calls' = [calls EXCEPT ![w] = c]
              /\ ~WithLink(c) /\ ~WithLink(calls[w]) /\ (Redeems(c) => Redeems(calls[w]))
    /\ UNCHANGED <<link, linkUses, shared, codeUses, codesSent>>
    /\ code' = NoCode \/ code # NoCode
    /\ failed => failed'

LEMMA AsideKeeps ==
    ASSUME Types, TypeOK, ResetInv, NEW w \in Workers, Aside(w)
    PROVE  ResetInv'
  <1>1. PICK c : /\ calls' = [calls EXCEPT ![w] = c]
                 /\ ~WithLink(c) /\ ~WithLink(calls[w]) /\ (Redeems(c) => Redeems(calls[w]))
    BY DEF Aside
  <1>2. LinkInv'
    BY <1>1, LinkStep, Zenon DEF Aside, ResetInv
  <1>3. codeUses \in Int /\ codesSent \in Int
    BY DEF TypeOK, AccountTypeOK
  <1>4. InStore' <= InStore /\ InStore \in Int /\ InStore' \in Int
    BY DEF Aside, InStore
  <1>5. Minus(c) <= Minus(calls[w]) /\ Minus(c) \in Int /\ Minus(calls[w]) \in Int
    BY <1>1 DEF Minus
  <1>6. codeUses' = codeUses /\ codesSent' = codesSent
    BY DEF Aside
  <1>7. codeUses' - codeUses + Minus(c) - Minus(calls[w]) + InStore' - InStore <= codesSent' - codesSent
    BY <1>3, <1>4, <1>5, <1>6
  <1>8. CodeInv'
    BY <1>1, <1>3, <1>6, <1>7, CodeStep DEF ResetInv
  <1> QED BY <1>2, <1>8 DEF ResetInv

\* The calls that are neither.
LEMMA NeitherIs ==
    /\ ~WithLink(Idle) /\ ~Redeems(Idle)
    /\ \A c : c.at \notin {"redeeming", "spending", "saving", "resetting"} => ~WithLink(c) /\ ~Redeems(c)
    /\ \A set, then, cause : /\ then # "spending" => ~WithLink(Saving(set, then, cause))
                             /\ then # "cutting" \/ cause # "password" => ~Redeems(Saving(set, then, cause))
  BY DEF WithLink, Redeems, Idle, Saving

LEMMA RequestsAside ==
    ASSUME TypeOK, NEW w \in Workers,
           \/ Login(w) \/ updateProfile(w) \/ createProfile(w) \/ removeAsAdmin(w) \/ Logout(w)
           \/ WrongOtp(w) \/ VerifyOtp(w, "verified") \/ RevokeInvite(w) \/ InviteAdmin(w)
           \/ \E t : Refresh(w, t)
           \/ \E R : setRoles(w, R) \/ Signup(w, R)
           \/ \E s : setStatus(w, s)
    PROVE  Aside(w)
  <1>1. PICK c : Begin(w, c) /\ ~WithLink(c) /\ ~Redeems(c)
    <2>1. CASE Login(w) \/ updateProfile(w) \/ createProfile(w) \/ (\E R : setRoles(w, R))
      <3>1. \E set, then : then \in {"done", "issuing"} /\ Begin(w, Saving(set, then, "logout"))
        BY <2>1, Zenon DEF Login, updateProfile, createProfile, setRoles
      <3> QED BY <3>1, NeitherIs
    <2>2. CASE \E s : setStatus(w, s)
      <3>1. PICK set, then : then \in {"done", "cutting"} /\ Begin(w, Saving(set, then, "suspended"))
        BY <2>2 DEF setStatus
      <3> QED BY <3>1, NeitherIs
    <2>3. CASE InviteAdmin(w)
      <3>1. ~WithLink([at |-> "inviting"]) /\ ~Redeems([at |-> "inviting"])
        BY NeitherIs
      <3> QED BY <2>3, <3>1, NeitherIs DEF InviteAdmin, addRole
    <2>4. CASE removeAsAdmin(w) \/ Logout(w) \/ WrongOtp(w) \/ VerifyOtp(w, "verified") \/ RevokeInvite(w)
               \/ \E t : Refresh(w, t)
      <3> DEFINE Far(c) == c.at \in {"answered", "cutting", "verified", "revoking invite", "refreshing"}
      <3>1. /\ Far([at |-> "answered", reply |-> Nobody]) /\ Far([at |-> "cutting", cause |-> "logout"])
            /\ Far([at |-> "verified"]) /\ Far([at |-> "revoking invite", copy |-> invite])
            /\ \A t : Far([at |-> "refreshing", old |-> t])
        OBVIOUS
      <3> HIDE DEF Far
      <3>2. PICK c : Begin(w, c) /\ Far(c)
        BY <2>4, <3>1, Zenon DEF removeAsAdmin, Logout, WrongOtp, VerifyOtp, RevokeInvite, Refresh
      <3> QED BY <3>2, NeitherIs DEF Far
    <2>5. CASE \E R : Signup(w, R)
      <3>1. PICK c : Begin(w, c) /\ c.at = "registering"
        BY <2>5 DEF Signup
      <3> QED BY <3>1, NeitherIs
    <2> QED BY <2>1, <2>2, <2>3, <2>4, <2>5
  <1>2. calls' = [calls EXCEPT ![w] = c] /\ calls[w] = Idle
    BY <1>1 DEF Begin, Goto
  <1>3. UNCHANGED <<link, linkUses, shared, codeUses, codesSent, failed>>
    BY DEF Login, updateProfile, createProfile, removeAsAdmin, Logout, WrongOtp, VerifyOtp, RevokeInvite,
           InviteAdmin, Refresh, setRoles, Signup, setStatus, accountVars, rowVars, historyVars
  <1>4. code' = NoCode \/ code # NoCode
    BY DEF Login, updateProfile, createProfile, removeAsAdmin, Logout, WrongOtp, VerifyOtp, RevokeInvite,
           InviteAdmin, Refresh, setRoles, Signup, setStatus, accountVars, rowVars
  <1> QED BY <1>1, <1>2, <1>3, <1>4, NeitherIs DEF Aside

\* A save that sets no password.
PlainSave(w) == Save(w) /\ ~WithLink(calls[w]) /\ ~Redeems(calls[w])

LEMMA HandlersAside ==
    ASSUME TypeOK, IInv, NEW w \in Workers,
           \/ PlainSave(w) \/ RevokeAllForUser(w) \/ Issue(w) \/ CheckUser(w) \/ Rotate(w) \/ Retire(w)
           \/ ReadAfterOtp(w) \/ FindInvite(w) \/ InsertUser(w) \/ AcceptInvite(w)
           \/ InsertInvite(w) \/ SaveRevoked(w)
    PROVE  Aside(w)
  <1> DEFINE d == calls[w]
  <1>1. UNCHANGED <<link, linkUses, shared, codesSent, failed, code>>
    <2>1. CASE PlainSave(w)
      <3>1. d.then # "spending"
        BY <2>1 DEF PlainSave, Save, At, WithLink
      <3> QED BY <2>1, <3>1 DEF PlainSave, Save, TypeOK, AccountTypeOK
    <2>2. CASE RevokeAllForUser(w) \/ Issue(w) \/ CheckUser(w) \/ Rotate(w) \/ Retire(w)
      BY <2>2 DEF RevokeAllForUser, Issue, CheckUser, Rotate, Retire, accountVars, rowVars, historyVars
    <2>3. CASE ReadAfterOtp(w) \/ FindInvite(w) \/ InsertUser(w)
      BY <2>3 DEF ReadAfterOtp, FindInvite, InsertUser, accountVars, rowVars, historyVars
    <2>4. CASE AcceptInvite(w) \/ InsertInvite(w) \/ SaveRevoked(w)
      BY <2>4 DEF AcceptInvite, InsertInvite, SaveRevoked, historyVars
    <2> QED BY <2>1, <2>2, <2>3, <2>4
  <1>2. codeUses' = codeUses
    <2>1. CASE PlainSave(w)
      <3>1. ~(d.then = "cutting" /\ d.cause = "password")
        BY <2>1 DEF PlainSave, Save, At, Redeems
      <3> QED BY <2>1, <3>1 DEF PlainSave, Save, TypeOK, AccountTypeOK
    <2>2. CASE ~PlainSave(w)
      BY <2>2 DEF RevokeAllForUser, Issue, CheckUser, Rotate, Retire, ReadAfterOtp, FindInvite,
         InsertUser, AcceptInvite, InsertInvite, SaveRevoked, accountVars, historyVars
    <2> QED BY <2>1, <2>2
  <1>4. ~WithLink(d)
    BY DEF PlainSave, RevokeAllForUser, Issue, CheckUser, Rotate, Retire, ReadAfterOtp, FindInvite,
           InsertUser, AcceptInvite, InsertInvite, SaveRevoked, At, WithLink
  <1>5. PICK c : Proceed(w, c) /\ ~WithLink(c) /\ (Redeems(c) => Redeems(d))
    <2>1. CASE PlainSave(w)
      <3>1. SaveShape(d) /\ d.at = "saving" /\ d.then # "spending"
        BY <2>1 DEF PlainSave, Save, At, IInv, Types, Shape, WithLink
      <3>2. After(d).at \in {"answered", "issuing", "cutting"}
        BY <3>1 DEF After, SaveShape
      <3> QED BY <2>1, <3>2, NeitherIs DEF PlainSave, Save
    <2>2. CASE RevokeAllForUser(w) \/ Retire(w) \/ InsertInvite(w) \/ SaveRevoked(w)
      <3>1. PICK c : Proceed(w, c) /\ c.at = "answered"
        <4>1. \E r : Answer(w, r)
          BY <2>2, Zenon DEF RevokeAllForUser, Retire, InsertInvite, SaveRevoked
        <4> QED BY <4>1 DEF Answer
      <3> QED BY <3>1, NeitherIs
    <2>3. CASE Issue(w)
      <3>1. PICK r : Proceed(w, IF d.old = Nobody THEN [at |-> "answered", reply |-> r]
                                ELSE [at |-> "retiring", old |-> d.old, reply |-> r])
        BY <2>3, Zenon DEF Issue, Answer
      <3>2. PICK c : Proceed(w, c) /\ c.at \in {"answered", "retiring"}
        BY <3>1
      <3> QED BY <3>2, NeitherIs
    <2>4. CASE CheckUser(w) \/ Rotate(w)
      <3>1. PICK c : Proceed(w, c) /\ c.at \in {"rotating", "answered", "issuing", "cutting"}
        BY <2>4 DEF CheckUser, ReadActiveUser, Rotate
      <3> QED BY <3>1, NeitherIs
    <2>5. CASE FindInvite(w)
      <3>1. PICK c : Proceed(w, c) /\ c.at = "inserting"
        BY <2>5 DEF FindInvite
      <3> QED BY <3>1, NeitherIs
    <2>6. CASE InsertUser(w)
      <3>1. PICK c : Proceed(w, c) /\ c.at \in {"answered", "texting", "accepting"}
        <4> DEFINE new == [status |-> "active", roles |-> d.roles, password |-> 0, deleted |-> FALSE]
                   c1 == [at |-> "texting", copy |-> new, since |-> cuts]
                   c2 == [at |-> "accepting", copy |-> new, candidate |-> d.candidate, since |-> cuts]
                   c3 == [at |-> "answered", reply |-> Nobody]
        <4>1. Proceed(w, c1) \/ Proceed(w, c2) \/ Proceed(w, c3)
          BY <2>6, Zenon DEF InsertUser, Answer
        <4>2. c1.at = "texting" /\ c2.at = "accepting" /\ c3.at = "answered"
          OBVIOUS
        <4> HIDE DEF c1, c2, c3
        <4> QED BY <4>1, <4>2
      <3> QED BY <3>1, NeitherIs
    <2>7. CASE AcceptInvite(w)
      <3>1. PICK c : Proceed(w, c) /\ c.at = "texting"
        BY <2>7 DEF AcceptInvite
      <3> QED BY <3>1, NeitherIs
    <2>8. CASE ReadAfterOtp(w)
      <3>1. CASE At(w, "resetting")
        <4>1. Redeems(d)
          BY <3>1 DEF At, Redeems
        <4>2. PICK c : Proceed(w, c) /\ (c.at = "answered"
                                         \/ c = Saving([password |-> started], "cutting", "password"))
          BY <2>8, <3>1 DEF ReadAfterOtp, Answer, At
        <4> QED BY <4>1, <4>2, NeitherIs
      <3>2. CASE At(w, "verified")
        <4>1. PICK c : Proceed(w, c) /\ (c.at = "answered" \/ c = Saving(Keep, "done", "logout"))
          BY <2>8, <3>2 DEF ReadAfterOtp, Answer, At
        <4> QED BY <4>1, NeitherIs
      <3> QED BY <2>8, <3>1, <3>2 DEF ReadAfterOtp
    <2> QED BY <2>1, <2>2, <2>3, <2>4, <2>5, <2>6, <2>7, <2>8
  <1>6. calls' = [calls EXCEPT ![w] = c]
    BY <1>5 DEF Proceed, Goto
  <1> HIDE DEF d
  <1> QED BY <1>1, <1>2, <1>4, <1>5, <1>6 DEF Aside, d

\* A code is sent, to replace the one in the store.
LEMMA SendingKeeps ==
    ASSUME Types, TypeOK, ResetInv, NEW w \in Workers, RequestOtp(w) \/ TextCode(w)
    PROVE  ResetInv'
  <1>1. PICK c : /\ calls' = [calls EXCEPT ![w] = c] /\ ~WithLink(c) /\ ~Redeems(c)
    <2>1. PICK c : (Begin(w, c) \/ Proceed(w, c)) /\ c.at \in {"answered", "issuing"}
      BY DEF RequestOtp, TextCode
    <2> QED BY <2>1, NeitherIs DEF Begin, Proceed, Goto
  <1>2. ~WithLink(calls[w])
    BY NeitherIs DEF RequestOtp, TextCode, Begin, At
  <1>3. /\ UNCHANGED <<link, linkUses, shared, failed>>
        /\ codeUses' = codeUses /\ codesSent' = codesSent + 1
    BY DEF RequestOtp, TextCode
  <1>4. LinkInv'
    BY <1>1, <1>2, <1>3, LinkStep DEF ResetInv
  <1>5. /\ codeUses \in Int /\ codesSent \in Int /\ InStore \in {0, 1} /\ InStore' \in {0, 1}
        /\ Minus(c) = 0 /\ Minus(calls[w]) \in {0, 1}
    BY <1>1 DEF TypeOK, AccountTypeOK, InStore, Minus
  <1>6. codeUses' - codeUses + Minus(c) - Minus(calls[w]) + InStore' - InStore <= codesSent' - codesSent
    BY <1>3, <1>5
  <1>7. codeUses' \in Int /\ codesSent' \in Int
    BY <1>3, <1>5
  <1> QED BY <1>1, <1>4, <1>6, <1>7, CodeStep DEF ResetInv

\* The code is taken out of the store by the call that will use it.
LEMMA VerifyOtpKeeps ==
    ASSUME Types, TypeOK, ResetInv, NEW w \in Workers, VerifyOtp(w, "resetting")
    PROVE  ResetInv'
  <1>1. PICK c : Begin(w, c) /\ c = [at |-> "resetting"]
    BY DEF VerifyOtp
  <1>2. ~WithLink(c) /\ Redeems(c) /\ ~WithLink(calls[w]) /\ calls' = [calls EXCEPT ![w] = c]
    BY <1>1, NeitherIs DEF WithLink, Redeems, Begin, Goto
  <1>3. UNCHANGED <<link, linkUses, shared, failed, codeUses, codesSent>> /\ code # NoCode /\ code' = NoCode
    BY DEF VerifyOtp, historyVars
  <1>4. LinkInv'
    BY <1>2, <1>3, LinkStep DEF ResetInv
  <1>5. /\ codeUses \in Int /\ codesSent \in Int /\ InStore = 1 /\ InStore' = 0
        /\ Minus(c) = 1 /\ Minus(calls[w]) \in {0, 1}
    BY <1>2, <1>3 DEF TypeOK, AccountTypeOK, InStore, Minus
  <1>6. codeUses' - codeUses + Minus(c) - Minus(calls[w]) + InStore' - InStore <= codesSent' - codesSent
    BY <1>3, <1>5
  <1> QED BY <1>2, <1>3, <1>4, <1>5, <1>6, CodeStep DEF ResetInv

\* The new password is saved: by a code, or by the link.
LEMMA SavePassword ==
    ASSUME Types, TypeOK, ResetInv, NEW w \in Workers, Save(w), ~PlainSave(w)
    PROVE  ResetInv'
  <1>1. PICK d, c : d = calls[w] /\ c = After(d)
    OBVIOUS
  <1>2. /\ d.at = "saving" /\ calls' = [calls EXCEPT ![w] = c]
        /\ UNCHANGED <<link, code, codesSent, shared, failed>>
        /\ linkUses' = linkUses + (IF d.then = "spending" THEN 1 ELSE 0)
        /\ codeUses' = codeUses + (IF d.then = "cutting" /\ d.cause = "password" THEN 1 ELSE 0)
    BY <1>1 DEF Save, At, Proceed, Goto
  <1>3. d.then = "spending" \/ (d.then = "cutting" /\ d.cause = "password")
    BY <1>1, <1>2 DEF PlainSave, WithLink, Redeems
  <1>4. codeUses \in Int /\ codesSent \in Int /\ linkUses \in Int /\ InStore' = InStore /\ InStore \in {0, 1}
    BY <1>2 DEF TypeOK, AccountTypeOK, InStore
  <1>5. c.at = (IF d.then = "spending" THEN "spending" ELSE "cutting")
    BY <1>1, <1>3 DEF After
  <1>6. Minus(c) = 0 /\ Minus(d) = (IF d.then = "spending" THEN 0 ELSE 1)
    BY <1>2, <1>3, <1>5 DEF Minus, Redeems
  <1>7. codeUses' - codeUses + Minus(c) - Minus(calls[w]) + InStore' - InStore <= codesSent' - codesSent
    BY <1>1, <1>2, <1>3, <1>4, <1>6
  <1>8. codeUses' \in Int /\ codesSent' \in Int
    BY <1>2, <1>4
  <1>9. CodeInv'
    BY <1>2, <1>7, <1>8, CodeStep DEF ResetInv
  <1>10. LinkInv'
    <2>1. CASE d.then # "spending"
      <3>1. ~WithLink(c) /\ ~WithLink(d) /\ linkUses' = linkUses
        BY <1>2, <1>4, <1>5, <2>1 DEF WithLink
      <3> QED BY <1>1, <1>2, <3>1, LinkStep DEF ResetInv
    <2>2. CASE d.then = "spending"
      <3> SUFFICES ASSUME ~shared', ~failed' PROVE LinkInv'
        BY DEF LinkInv
      <3>1. ~shared /\ ~failed
        BY <1>2
      <3>2. WithLink(d) /\ WithLink(c) /\ c.at = "spending"
        BY <1>2, <1>5, <2>2 DEF WithLink
      <3>3. \A v \in Workers : WithLink(calls[v]) => v = w
        BY <1>1, <3>1, <3>2 DEF ResetInv, LinkInv
      <3>4. link = "active" /\ linkUses = 0
        BY <1>1, <1>2, <3>1, <3>2 DEF ResetInv, LinkInv
      <3>5. calls'[w] = c /\ \A v \in Workers \ {w} : calls'[v] = calls[v]
        BY <1>2, Others
      <3>6. linkUses' = 1 /\ link' = "active"
        BY <1>2, <2>2, <3>4
      <3>7. \A v \in Workers : WithLink(calls'[v]) <=> v = w
        BY <3>2, <3>3, <3>5
      <3> QED BY <3>2, <3>5, <3>6, <3>7 DEF LinkInv, WithLink
    <2> QED BY <2>1, <2>2
  <1> QED BY <1>9, <1>10 DEF ResetInv

\* The steps on the link leave codes alone.
LEMMA LinkLeavesCodes ==
    ASSUME Types, TypeOK, CodeInv, NEW w \in Workers, NEW c, calls' = [calls EXCEPT ![w] = c], ~Redeems(c),
           UNCHANGED <<code, codeUses, codesSent>>
    PROVE  CodeInv'
  <1>1. /\ codeUses \in Int /\ codesSent \in Int /\ InStore' = InStore /\ InStore \in {0, 1}
        /\ Minus(c) = 0 /\ Minus(calls[w]) \in {0, 1} /\ codeUses' = codeUses /\ codesSent' = codesSent
    BY DEF TypeOK, AccountTypeOK, InStore, Minus
  <1>2. codeUses' - codeUses + Minus(c) - Minus(calls[w]) + InStore' - InStore <= codesSent' - codesSent
    BY <1>1
  <1> QED BY <1>1, <1>2, CodeStep

LEMMA LinkKeeps ==
    ASSUME Types, TypeOK, ResetInv, NEW w \in Workers,
           RequestPasswordReset(w) \/ ResetPassword(w) \/ ReadForReset(w) \/ SpendLink(w)
    PROVE  ResetInv'
  <1>1. ASSUME NEW c, calls' = [calls EXCEPT ![w] = c], ~Redeems(c),
               UNCHANGED <<code, codeUses, codesSent, failed>>, shared => shared',
               ASSUME ~shared', ~shared, ~failed,
                      calls'[w] = c /\ \A v \in Workers \ {w} : calls'[v] = calls[v]
               PROVE  LinkInv'
        PROVE  ResetInv'
    <2>1. CodeInv'
      BY <1>1, LinkLeavesCodes DEF ResetInv
    <2>2. calls'[w] = c /\ \A v \in Workers \ {w} : calls'[v] = calls[v]
      BY <1>1, Others
    <2>3. LinkInv'
      <3>1. CASE ~shared' /\ ~failed'
        BY <1>1, <2>2, <3>1
      <3>2. CASE shared' \/ failed'
        BY <3>2, Zenon DEF LinkInv
      <3> QED BY <3>1, <3>2
    <2> QED BY <2>1, <2>3 DEF ResetInv
  <1>2. CASE RequestPasswordReset(w)
    <2>1. PICK c : Begin(w, c) /\ c = [at |-> "answered", reply |-> Nobody]
      BY <1>2 DEF RequestPasswordReset
    <2>2. ~WithLink(c) /\ ~Redeems(c) /\ ~WithLink(calls[w]) /\ calls' = [calls EXCEPT ![w] = c]
      BY <2>1, NeitherIs DEF Begin, Goto
    <2>3. UNCHANGED <<code, codeUses, codesSent, failed, shared, linkUses>> /\ link = "none" /\ link' = "active"
      BY <1>2 DEF RequestPasswordReset, historyVars
    <2>4. ASSUME ~shared', ~shared, ~failed,
                 calls'[w] = c /\ \A v \in Workers \ {w} : calls'[v] = calls[v]
          PROVE  LinkInv'
      <3>1. \A v \in Workers : ~WithLink(calls[v])
        BY <2>3, <2>4 DEF ResetInv, LinkInv
      <3>2. linkUses = 0
        BY <2>3, <2>4, <3>1 DEF ResetInv, LinkInv
      <3>3. \A v \in Workers : ~WithLink(calls'[v])
        BY <2>2, <2>4, <3>1
      <3> QED BY <2>3, <3>2, <3>3 DEF LinkInv, WithLink
    <2> QED BY <1>1, <2>2, <2>3, <2>4
  <1>3. CASE ResetPassword(w)
    <2>1. PICK c : Begin(w, c) /\ c = [at |-> "redeeming"]
      BY <1>3 DEF ResetPassword
    <2>2. /\ WithLink(c) /\ ~Redeems(c) /\ ~WithLink(calls[w]) /\ c.at = "redeeming"
          /\ calls' = [calls EXCEPT ![w] = c]
      BY <2>1, NeitherIs DEF WithLink, Redeems, Begin, Goto
    <2>3. UNCHANGED <<code, codeUses, codesSent, failed, linkUses, link>> /\ link = "active"
      BY <1>3 DEF ResetPassword, LinkActive, rowVars
    <2>4. (shared => shared') /\ (~shared' => \A v \in Workers : ~UsesLink(v))
      BY <1>3, Zenon DEF ResetPassword
    <2>5. ASSUME ~shared', ~shared, ~failed,
                 calls'[w] = c /\ \A v \in Workers \ {w} : calls'[v] = calls[v]
          PROVE  LinkInv'
      <3>1. \A v \in Workers : ~WithLink(calls[v])
        BY <2>4, <2>5 DEF UsesLink, WithLink, At
      <3>2. linkUses = 0
        BY <2>3, <2>5, <3>1 DEF ResetInv, LinkInv
      <3>3. \A v \in Workers : WithLink(calls'[v]) => v = w
        BY <2>2, <2>5, <3>1
      <3> QED BY <2>2, <2>3, <2>5, <3>2, <3>3 DEF LinkInv, WithLink
    <2> QED BY <1>1, <2>2, <2>3, <2>4, <2>5
  <1>4. CASE ReadForReset(w)
    <2>1. PICK c : /\ Proceed(w, c)
                   /\ \/ c = Saving([password |-> started], "spending", "password")
                      \/ c = [at |-> "answered", reply |-> Nobody]
      BY <1>4 DEF ReadForReset, Answer
    <2>2. /\ ~Redeems(c) /\ c.at # "spending" /\ calls' = [calls EXCEPT ![w] = c]
          /\ WithLink(calls[w]) /\ calls[w].at = "redeeming"
      BY <1>4, <2>1 DEF ReadForReset, Saving, Redeems, Proceed, Goto, At, WithLink
    <2>3. UNCHANGED <<code, codeUses, codesSent, failed, shared, linkUses, link>>
      BY <1>4 DEF ReadForReset, accountVars, rowVars, historyVars
    <2>4. ASSUME ~shared', ~shared, ~failed,
                 calls'[w] = c /\ \A v \in Workers \ {w} : calls'[v] = calls[v]
          PROVE  LinkInv'
      <3>1. link = "active" /\ linkUses = 0 /\ \A v \in Workers : WithLink(calls[v]) => v = w
        BY <2>2, <2>4 DEF ResetInv, LinkInv
      <3>2. \A v \in Workers : WithLink(calls'[v]) => v = w
        BY <2>4, <3>1
      <3> QED BY <2>2, <2>3, <2>4, <3>1, <3>2 DEF LinkInv, WithLink
    <2> QED BY <1>1, <2>2, <2>3, <2>4
  <1>5. CASE SpendLink(w)
    <2>1. PICK c : Proceed(w, c) /\ c = [at |-> "cutting", cause |-> "password"]
      BY <1>5 DEF SpendLink
    <2>2. /\ ~Redeems(c) /\ ~WithLink(c) /\ calls' = [calls EXCEPT ![w] = c]
          /\ WithLink(calls[w]) /\ calls[w].at = "spending"
      BY <1>5, <2>1 DEF SpendLink, Redeems, Proceed, Goto, At, WithLink
    <2>3. UNCHANGED <<code, codeUses, codesSent, failed, shared, linkUses>> /\ link' = "used"
      BY <1>5 DEF SpendLink, historyVars
    <2>4. ASSUME ~shared', ~shared, ~failed,
                 calls'[w] = c /\ \A v \in Workers \ {w} : calls'[v] = calls[v]
          PROVE  LinkInv'
      <3>1. linkUses = 1 /\ \A v \in Workers : WithLink(calls[v]) => v = w
        BY <2>2, <2>4 DEF ResetInv, LinkInv
      <3>2. \A v \in Workers : ~WithLink(calls'[v])
        BY <2>2, <2>4, <3>1
      <3> QED BY <2>3, <3>1, <3>2 DEF LinkInv, WithLink
    <2> QED BY <1>1, <2>2, <2>3, <2>4
  <1> QED BY <1>2, <1>3, <1>4, <1>5

LEMMA FailResets ==
    ASSUME Types, TypeOK, ResetInv, NEW w \in Workers, Fail(w)
    PROVE  ResetInv'
  <1>1. PICK c : Proceed(w, c) /\ c = [at |-> "answered", reply |-> Nobody]
    BY DEF Fail, Answer
  <1>2. ~Redeems(c) /\ calls' = [calls EXCEPT ![w] = c]
    BY <1>1, NeitherIs DEF Proceed, Goto
  <1>3. UNCHANGED <<code, codeUses, codesSent>> /\ failed'
    BY DEF Fail, rowVars
  <1>4. CodeInv'
    BY <1>2, <1>3, LinkLeavesCodes DEF ResetInv
  <1> QED BY <1>3, <1>4 DEF ResetInv, LinkInv

LEMMA RestartResets ==
    ASSUME Types, TypeOK, ResetInv, Restart
    PROVE  ResetInv'
  <1>1. ~Redeems([at |-> "answered", reply |-> Nobody])
    BY NeitherIs
  <1>2. Redeemers' \in SUBSET Redeemers
    BY <1>1 DEF Restart, Redeemers
  <1>3. IsFiniteSet(Redeemers') /\ Cardinality(Redeemers') <= Cardinality(Redeemers)
    BY <1>2, FS_Subset DEF ResetInv, CodeInv
  <1>4. Cardinality(Redeemers) \in Nat /\ Cardinality(Redeemers') \in Nat
    BY <1>3, FS_CardinalityType DEF ResetInv, CodeInv
  <1>5. /\ codeUses' = codeUses /\ codesSent' = codesSent /\ InStore' = 0 /\ InStore \in {0, 1} /\ failed'
        /\ codeUses \in Int /\ codesSent \in Int
    BY DEF Restart, InStore, TypeOK, AccountTypeOK
  <1>6. CodeInv'
    BY <1>3, <1>4, <1>5 DEF ResetInv, CodeInv
  <1> QED BY <1>5, <1>6 DEF ResetInv, LinkInv

LEMMA SamePasswords ==
    ASSUME ResetInv, UNCHANGED <<calls, accountVars>>
    PROVE  ResetInv'
  <1>1. UNCHANGED <<calls, link, linkUses, shared, failed, code, codeUses, codesSent>>
    BY DEF accountVars, rowVars, historyVars
  <1>2. Redeemers' = Redeemers /\ InStore' = InStore
    BY <1>1 DEF Redeemers, Redeems, InStore
  <1> QED BY <1>1, <1>2 DEF ResetInv, LinkInv, CodeInv, WithLink

LEMMA IdleAside ==
    ASSUME NEW w \in Workers, Proceed(w, Idle), At(w, "answered"), UNCHANGED accountVars
    PROVE  Aside(w)
  <1>1. ~WithLink(Idle) /\ ~Redeems(Idle) /\ ~WithLink(calls[w]) /\ calls' = [calls EXCEPT ![w] = Idle]
    BY NeitherIs DEF At, Proceed, Goto
  <1> QED BY <1>1 DEF Aside, accountVars, rowVars, historyVars

LEMMA NextResets ==
    ASSUME IInv, BrowserTyped, TypeOK, ResetInv, [Next]_vars
    PROVE  ResetInv'
  <1>0. Types
    BY DEF IInv
  <1>1. CASE UNCHANGED vars
    BY <1>1, SamePasswords DEF vars
  <1>2. ASSUME NEW t \in Tabs, Page(t) PROVE ResetInv'
    <2>1. t \in Workers
      BY BrowserAssumption
    <2>2. CASE PageAsks(t)
      BY <1>0, <2>1, <2>2, RequestsAside, AsideKeeps, LinkKeeps, SendingKeeps, VerifyOtpKeeps DEF PageAsks
    <2>3. CASE NoCall
      BY <2>3, SamePasswords DEF NoCall
    <2>4. CASE PageHears(t)
      BY <1>0, <2>1, <2>4, IdleAside, AsideKeeps DEF PageHears
    <2> QED BY <1>2, <2>2, <2>3, <2>4, PageSteps
  <1>3. ASSUME NEW s \in Staff, Administer(s) PROVE ResetInv'
    <2>1. s \in Workers
      BY BrowserAssumption
    <2> QED BY <1>0, <1>3, <2>1, RequestsAside, AsideKeeps, LinkKeeps DEF Administer
  <1>4. ASSUME NEW w \in Workers, Handle(w) PROVE ResetInv'
    BY <1>0, <1>4, HandlersAside, AsideKeeps, SavePassword, LinkKeeps, SendingKeeps DEF Handle
  <1>5. ASSUME NEW w \in Workers, Done(w) PROVE ResetInv'
    BY <1>0, <1>5, IdleAside, AsideKeeps DEF Done
  <1> QED BY <1>0, <1>1, <1>2, <1>3, <1>4, <1>5, FailResets, RestartResets DEF Next, Page

\* The link that was mailed sets one password, unless two calls use it at a
\* time or a failure leaves it unspent; the codes never set more passwords
\* than were sent (AuthService.resetPassword and resetPasswordWithOtp,
\* OtpService).
THEOREM ResetsOnce == Spec => []OneResetEach
  <1>1. Init => ResetInv
    <2> SUFFICES ASSUME Init PROVE ResetInv
      OBVIOUS
    <2>1. \A w \in Workers : ~WithLink(calls[w]) /\ ~Redeems(calls[w])
      BY NeitherIs DEF Init
    <2>2. Redeemers = {}
      BY <2>1 DEF Redeemers
    <2>3. IsFiniteSet(Redeemers) /\ Cardinality(Redeemers) = 0
      BY <2>2, FS_EmptySet
    <2> QED BY <2>1, <2>3 DEF Init, AccountInit, ResetInv, LinkInv, CodeInv, InStore
  <1>2. (IInv /\ Numbered /\ BrowserTyped) /\ TypeOK /\ ResetInv /\ [Next]_vars => ResetInv'
    BY NextResets
  <1>3. TypeOK /\ ResetInv => OneResetEach
    <2> SUFFICES ASSUME TypeOK, ResetInv PROVE OneResetEach
      OBVIOUS
    <2>1. /\ codeUses \in Int /\ codesSent \in Int /\ InStore \in {0, 1}
          /\ codeUses + Cardinality(Redeemers) + InStore <= codesSent
          /\ Cardinality(Redeemers) \in Nat
      BY FS_CardinalityType DEF TypeOK, AccountTypeOK, InStore, ResetInv, CodeInv
    <2>2. codeUses <= codesSent
      BY <2>1
    <2> QED BY <2>2 DEF OneResetEach, ResetInv, LinkInv
  <1> QED BY <1>1, <1>2, <1>3, Inductive, Typed, PTL DEF Spec

---------------------------------------------------------------------------
(* The alarm. *)

\* A call to which a token was presented; one that brings a token back; and
\* one that ends every session because of a token that was used before.
Presents(c) == c.at \in {"refreshing", "rotating", "retiring"} \/ (c.at = "issuing" /\ c.old # Nobody)
Brings(c) == c.at \in {"retiring", "answered"} /\ c.reply # Nobody
Alarms(c) == c.at \in {"saving", "cutting"} /\ c.cause = "reuse"

\* A page waits for the successor of the token in localStorage.
Awaits(t) ==
    /\ page[t] \in Refreshing
    /\ \/ Presents(calls[t]) /\ calls[t].old = held
       \/ Answered(t) /\ calls[t].reply # Nobody
TokenAwaited == \E t \in Tabs : Awaits(t)

\* No page has given cause for the alarm, and nothing else ended a session.
Innocent == slips = {} /\ causes = {}

\* A token is presented to one call, and before it is revoked.
Presented ==
    /\ \A w \in Workers : ~Alarms(calls[w])
    /\ \A w \in Workers : Presents(calls[w]) => tokens[calls[w].old].active
    /\ \A v, w \in Workers :
           Presents(calls[v]) /\ Presents(calls[w]) /\ calls[v].old = calls[w].old => v = w

\* What is on its way back is new to the browser.
Returned ==
    \A w \in Workers : Brings(calls[w]) =>
        /\ tokens[calls[w].reply].active /\ calls[w].reply # held
        /\ \A v \in Workers : Presents(calls[v]) => calls[v].old # calls[w].reply
        /\ \A v \in Workers : Brings(calls[v]) /\ calls[v].reply = calls[w].reply => v = w

\* The token in localStorage is in use, or a page waits for its successor.
HeldIsFresh ==
    held # Nobody =>
        /\ Known(held)
        /\ \/ TokenAwaited
           \/ /\ tokens[held].active
              /\ \A v \in Workers : Presents(calls[v]) => calls[v].old # held

AlarmInv ==
    /\ Innocent => Presented /\ Returned /\ HeldIsFresh
    /\ slips = {} => causes = {} \/ \E cause \in causes : cause # "reuse"

\* A call that goes on without a token, or with the one it had.
Harmless(c) == ~Presents(c) /\ ~Brings(c) /\ ~Alarms(c)
Calm(d, c) ==
    /\ Presents(c) => Presents(d) /\ c.old = d.old
    /\ Brings(c) => Brings(d) /\ c.reply = d.reply
    /\ Alarms(c) => Alarms(d)

LEMMA HarmlessIsCalm ==
    /\ \A c, d : Harmless(c) => Calm(d, c)
    /\ \A d : Calm(d, d)
  BY DEF Harmless, Calm, Presents

\* With a slip there is nothing to show.
LEMMA SlipStep == ASSUME slips' # {} PROVE AlarmInv'
  BY DEF AlarmInv, Innocent

\* A page goes on waiting, unless its call has given up.
Patient ==
    \A t \in Tabs : Awaits(t) => Awaits(t)' \/ (Presents(calls[t]) /\ ~Presents(calls'[t]))

LEMMA CalmStep ==
    ASSUME AlarmInv, UNCHANGED <<tokens, held, causes>>, slips \subseteq slips',
           Innocent => Patient /\ \A w \in Workers : Calm(calls[w], calls'[w])
    PROVE  AlarmInv'
  <1>1. CASE ~Innocent'
    BY <1>1 DEF AlarmInv, Innocent
  <1>2. CASE Innocent'
    <2>1. Innocent /\ slips' = {}
      BY <1>2 DEF Innocent
    <2>2. Presented /\ Returned /\ HeldIsFresh
      BY <2>1 DEF AlarmInv
    <2>3. Patient /\ \A w \in Workers : Calm(calls[w], calls'[w])
      BY <2>1
    <2>4. Presented'
      BY <2>2, <2>3 DEF Presented, Calm
    <2>5. Returned'
      BY <2>2, <2>3 DEF Returned, Calm
    <2>6. HeldIsFresh'
      <3> SUFFICES ASSUME held # Nobody PROVE HeldIsFresh'
        BY DEF HeldIsFresh
      <3>1. Known(held) /\ Known(held)'
        BY <2>2 DEF HeldIsFresh, Known
      <3>2. \A v \in Workers : Presents(calls'[v]) => Presents(calls[v]) /\ calls'[v].old = calls[v].old
        BY <2>3 DEF Calm
      <3>3. CASE TokenAwaited'
        BY <3>1, <3>3 DEF HeldIsFresh
      <3>4. CASE ~TokenAwaited
        BY <2>2, <3>1, <3>2, <3>4 DEF HeldIsFresh, Known
      <3>5. CASE TokenAwaited /\ ~TokenAwaited'
        <4>1. PICK t \in Tabs : Awaits(t) /\ Presents(calls[t]) /\ ~Presents(calls'[t])
          BY <2>3, <3>5 DEF TokenAwaited, Patient
        <4>2. t \in Workers /\ calls[t].old = held
          BY <4>1, BrowserAssumption DEF Awaits, Answered, At, Presents
        <4>3. tokens[held].active /\ \A v \in Workers \ {t} : Presents(calls[v]) => calls[v].old # held
          BY <2>2, <4>1, <4>2 DEF Presented
        <4>4. \A v \in Workers : Presents(calls'[v]) => calls'[v].old # held'
          BY <3>2, <4>1, <4>3
        <4> QED BY <3>1, <4>3, <4>4 DEF HeldIsFresh
      <3> QED BY <3>3, <3>4, <3>5
    <2> QED BY <1>2, <2>4, <2>5, <2>6 DEF AlarmInv, Innocent
  <1> QED BY <1>1, <1>2

\* The pages that refresh stay.
Steady == \A t \in Tabs : page[t] \in Refreshing => page'[t] = page[t]

LEMMA StandingStep ==
    ASSUME AlarmInv, UNCHANGED <<calls, tokens, held, causes, slips>>, Steady
    PROVE  AlarmInv'
  <1>1. Patient
    BY DEF Steady, Patient, Awaits, Answered, At
  <1> QED BY <1>1, HarmlessIsCalm, CalmStep

\* A step of one call that leaves the tokens and the pages' hopes alone.
Soothes(w) ==
    /\ \E c : calls' = [calls EXCEPT ![w] = c] /\ (Innocent => Calm(calls[w], c))
    /\ UNCHANGED <<tokens, causes>>

LEMMA SoothingStep ==
    ASSUME Types, AlarmInv, NEW w \in Workers, Soothes(w), UNCHANGED <<held, slips>>, Steady,
           At(w, "answered") /\ w \in Tabs => page[w] \notin Refreshing
    PROVE  AlarmInv'
  <1>1. PICK c : calls' = [calls EXCEPT ![w] = c] /\ (Innocent => Calm(calls[w], c))
    BY DEF Soothes
  <1>2. calls'[w] = c /\ \A v \in Workers \ {w} : calls'[v] = calls[v]
    BY <1>1, Others
  <1>3. Innocent => \A v \in Workers : Calm(calls[v], calls'[v])
    BY <1>1, <1>2, HarmlessIsCalm
  <1>4. ASSUME Innocent, NEW t \in Tabs, Awaits(t)
        PROVE  Awaits(t)' \/ (Presents(calls[t]) /\ ~Presents(calls'[t]))
    <2>1. t \in Workers /\ page'[t] = page[t]
      BY <1>4, BrowserAssumption DEF Steady, Awaits
    <2>2. CASE t # w
      BY <1>2, <1>4, <2>1, <2>2 DEF Awaits, Answered, At
    <2>3. CASE t = w
      <3>1. Presents(calls[t]) /\ calls[t].old = held
        BY <1>4, <2>3 DEF Awaits, Answered
      <3>2. Presents(calls'[t]) => calls'[t].old = held'
        BY <1>3, <1>4, <2>1, <3>1 DEF Calm
      <3> QED BY <1>4, <2>1, <3>1, <3>2 DEF Awaits
    <2> QED BY <2>2, <2>3
  <1> QED BY <1>3, <1>4, CalmStep DEF Soothes, Patient

LEMMA HarmlessSoothes ==
    ASSUME NEW w \in Workers, NEW c, Begin(w, c) \/ Proceed(w, c), Harmless(c), UNCHANGED <<tokens, causes>>
    PROVE  Soothes(w)
  BY HarmlessIsCalm DEF Soothes, Begin, Proceed, Goto

\* The requests but for the refresh.
LEMMA HarmlessAre == Harmless(Idle) /\ Harmless([at |-> "answered", reply |-> Nobody])
  BY DEF Harmless, Presents, Brings, Alarms, Idle

LEMMA RequestsSoothe ==
    ASSUME NEW w \in Workers,
           \/ Login(w) \/ updateProfile(w) \/ createProfile(w) \/ removeAsAdmin(w) \/ Logout(w)
           \/ RequestPasswordReset(w) \/ ResetPassword(w) \/ RequestOtp(w) \/ WrongOtp(w)
           \/ VerifyOtp(w, "verified") \/ VerifyOtp(w, "resetting") \/ RevokeInvite(w) \/ InviteAdmin(w)
           \/ \E R : setRoles(w, R) \/ Signup(w, R)
           \/ \E s : setStatus(w, s)
    PROVE  Soothes(w) /\ calls[w] = Idle
  <1>1. PICK c : Begin(w, c) /\ Harmless(c)
    <2>1. CASE Login(w) \/ updateProfile(w) \/ createProfile(w) \/ (\E R : setRoles(w, R)) \/ \E s : setStatus(w, s)
      <3>1. \E set, then : \E cause \in {"logout", "suspended"} : Begin(w, Saving(set, then, cause))
        BY <2>1, Zenon DEF Login, updateProfile, createProfile, setRoles, setStatus
      <3>2. \A set, then, cause : Saving(set, then, cause).at = "saving" /\ Saving(set, then, cause).cause = cause
        BY DEF Saving
      <3>3. PICK c, set, then, cause : c = Saving(set, then, cause) /\ cause # "reuse" /\ Begin(w, c)
        BY <3>1
      <3>4. c.at = "saving" /\ c.cause # "reuse"
        BY <3>2, <3>3
      <3> QED BY <3>3, <3>4 DEF Harmless, Presents, Brings, Alarms
    <2>2. CASE InviteAdmin(w)
      <3>1. Harmless([at |-> "inviting"])
        BY DEF Harmless, Presents, Brings, Alarms
      <3>2. Harmless(addRole(w, "admin"))
        BY DEF addRole, Saving, Harmless, Presents, Brings, Alarms
      <3> QED BY <2>2, <3>1, <3>2 DEF InviteAdmin
    <2>3. CASE \/ removeAsAdmin(w) \/ Logout(w) \/ RequestPasswordReset(w) \/ ResetPassword(w) \/ RequestOtp(w)
               \/ WrongOtp(w) \/ VerifyOtp(w, "verified") \/ VerifyOtp(w, "resetting") \/ RevokeInvite(w)
      <3>1. /\ Harmless([at |-> "cutting", cause |-> "logout"]) /\ Harmless([at |-> "redeeming"])
            /\ Harmless([at |-> "verified"]) /\ Harmless([at |-> "resetting"])
            /\ Harmless([at |-> "revoking invite", copy |-> invite])
        BY DEF Harmless, Presents, Brings, Alarms
      <3> QED BY <2>3, <3>1, HarmlessAre, Zenon DEF removeAsAdmin, Logout, RequestPasswordReset, ResetPassword,
                 RequestOtp, WrongOtp, VerifyOtp, RevokeInvite
    <2>4. CASE \E R : Signup(w, R)
      <3>1. PICK c : Begin(w, c) /\ c.at = "registering"
        BY <2>4 DEF Signup
      <3> QED BY <3>1 DEF Harmless, Presents, Brings, Alarms
    <2> QED BY <2>1, <2>2, <2>3, <2>4
  <1>2. UNCHANGED <<tokens, causes>>
    BY DEF Login, updateProfile, createProfile, removeAsAdmin, Logout, RequestPasswordReset, ResetPassword,
           RequestOtp, WrongOtp, VerifyOtp, RevokeInvite, InviteAdmin, setRoles, Signup, setStatus,
           accountVars, rowVars, historyVars
  <1> QED BY <1>1, <1>2, HarmlessSoothes DEF Begin

LEMMA SavesSoothe ==
    ASSUME Types, Innocent => Presented, NEW w \in Workers, Save(w)
    PROVE  Soothes(w)
  <1>1. PICK d, c : d = calls[w] /\ c = After(d)
    OBVIOUS
  <1>2. d.at = "saving" /\ Proceed(w, c) /\ SaveShape(d) /\ UNCHANGED <<tokens, causes>>
    BY <1>1 DEF Save, At, Types, Shape
  <1>3. /\ d.then = "done" => c = [at |-> "answered", reply |-> Nobody]
        /\ d.then = "issuing" => c.at = "issuing" /\ c.old = Nobody
        /\ d.then = "spending" => c = [at |-> "spending"]
        /\ d.then = "cutting" => c = [at |-> "cutting", cause |-> d.cause]
    BY <1>1 DEF After
  <1>4. d.then # "cutting" => Harmless(c)
    BY <1>2, <1>3 DEF SaveShape, Harmless, Presents, Brings, Alarms
  <1>5. d.then = "cutting" => Calm(d, c)
    BY <1>2, <1>3 DEF Calm, Presents, Brings, Alarms
  <1> QED BY <1>1, <1>2, <1>4, <1>5, HarmlessIsCalm DEF Soothes, Proceed, Goto

LEMMA HandlersSoothe ==
    ASSUME Types, Innocent => Presented, NEW w \in Workers,
           \/ Save(w) \/ CheckUser(w) \/ Rotate(w) \/ ReadForReset(w) \/ SpendLink(w) \/ ReadAfterOtp(w)
           \/ FindInvite(w) \/ InsertUser(w) \/ AcceptInvite(w) \/ TextCode(w)
           \/ InsertInvite(w) \/ SaveRevoked(w)
    PROVE  Soothes(w)
  <1>1. CASE CheckUser(w)
    <2>1. PICK c : /\ Proceed(w, c)
                   /\ \/ c = [at |-> "rotating", old |-> calls[w].old, copy |-> user, since |-> cuts]
                      \/ c = [at |-> "answered", reply |-> Nobody]
      BY <1>1 DEF CheckUser, ReadActiveUser
    <2>2. calls[w].at = "refreshing" /\ UNCHANGED <<tokens, causes>>
      BY <1>1 DEF CheckUser, At, accountVars, rowVars, historyVars
    <2>3. Calm(calls[w], c)
      BY <2>1, <2>2 DEF Calm, Presents, Brings, Alarms
    <2> QED BY <2>1, <2>2, <2>3 DEF Soothes, Proceed, Goto
  <1>2. CASE Rotate(w)
    <2>1. PICK d : d = calls[w]
      OBVIOUS
    <2>2. d.at = "rotating" /\ UNCHANGED <<tokens, causes>>
      BY <1>2, <2>1 DEF Rotate, At, accountVars, rowVars, historyVars
    <2>3. PICK c : /\ Proceed(w, c)
                   /\ tokens[d.old].active =>
                          c = [at |-> "issuing", old |-> d.old, copy |-> d.copy, since |-> d.since]
      BY <1>2, <2>1 DEF Rotate
    <2>4. ASSUME Innocent PROVE Calm(d, c)
      <3>1. tokens[d.old].active
        BY <2>1, <2>2, <2>4 DEF Presented, Presents
      <3>2. c.at = "issuing" /\ c.old = d.old
        BY <2>3, <3>1
      <3> QED BY <2>2, <3>2 DEF Calm, Presents, Brings, Alarms
    <2> QED BY <2>1, <2>2, <2>3, <2>4 DEF Soothes, Proceed, Goto
  <1>3. CASE ReadForReset(w) \/ ReadAfterOtp(w)
    <2>1. PICK c : /\ Proceed(w, c)
                   /\ \/ c = [at |-> "answered", reply |-> Nobody]
                      \/ \E set, then : \E cause \in {"password", "logout"} : c = Saving(set, then, cause)
      <3>1. CASE ReadForReset(w)
        BY <3>1 DEF ReadForReset, Answer
      <3>2. CASE ReadAfterOtp(w)
        BY <3>2, Zenon DEF ReadAfterOtp, Answer
      <3> QED BY <1>3, <3>1, <3>2
    <2>2. Harmless(c)
      <3>1. CASE c = [at |-> "answered", reply |-> Nobody]
        BY <3>1, HarmlessAre
      <3>2. CASE \E set, then : \E cause \in {"password", "logout"} : c = Saving(set, then, cause)
        <4>1. c.at = "saving" /\ c.cause # "reuse"
          BY <3>2 DEF Saving
        <4> QED BY <4>1 DEF Harmless, Presents, Brings, Alarms
      <3> QED BY <2>1, <3>1, <3>2
    <2>3. UNCHANGED <<tokens, causes>>
      BY <1>3 DEF ReadForReset, ReadAfterOtp, accountVars, rowVars, historyVars
    <2> QED BY <2>1, <2>2, <2>3, HarmlessSoothes
  <1>4. CASE SpendLink(w) \/ InsertInvite(w) \/ SaveRevoked(w)
    <2>1. Harmless([at |-> "cutting", cause |-> "password"])
      BY DEF Harmless, Presents, Brings, Alarms
    <2>2. PICK c : Proceed(w, c) /\ Harmless(c)
      BY <1>4, <2>1, HarmlessAre, Zenon DEF SpendLink, InsertInvite, SaveRevoked, Answer
    <2>3. UNCHANGED <<tokens, causes>>
      BY <1>4 DEF SpendLink, InsertInvite, SaveRevoked, historyVars
    <2> QED BY <2>2, <2>3, HarmlessSoothes
  <1>5. CASE FindInvite(w) \/ AcceptInvite(w) \/ TextCode(w)
    <2>1. PICK c : /\ Proceed(w, c)
                   /\ c.at \in {"inserting", "texting"} \/ (c.at = "issuing" /\ c.old = Nobody)
      BY <1>5 DEF FindInvite, AcceptInvite, TextCode
    <2>2. Harmless(c)
      BY <2>1 DEF Harmless, Presents, Brings, Alarms
    <2>3. UNCHANGED <<tokens, causes>>
      BY <1>5 DEF FindInvite, AcceptInvite, TextCode, accountVars, rowVars, historyVars
    <2> QED BY <2>1, <2>2, <2>3, HarmlessSoothes
  <1>6. CASE InsertUser(w)
    <2> DEFINE new == [status |-> "active", roles |-> calls[w].roles, password |-> 0, deleted |-> FALSE]
               c1 == [at |-> "texting", copy |-> new, since |-> cuts]
               c2 == [at |-> "accepting", copy |-> new, candidate |-> calls[w].candidate, since |-> cuts]
               c3 == [at |-> "answered", reply |-> Nobody]
    <2>1. Proceed(w, c1) \/ Proceed(w, c2) \/ Proceed(w, c3)
      BY <1>6, Zenon DEF InsertUser, Answer
    <2>2. Harmless(c1) /\ Harmless(c2) /\ Harmless(c3)
      BY DEF Harmless, Presents, Brings, Alarms
    <2>3. UNCHANGED <<tokens, causes>>
      BY <1>6 DEF InsertUser, historyVars
    <2> HIDE DEF c1, c2, c3
    <2> QED BY <2>1, <2>2, <2>3, HarmlessSoothes
  <1> QED BY <1>1, <1>2, <1>3, <1>4, <1>5, <1>6, SavesSoothe

LEMMA HandlersAreBusy == ASSUME NEW w, Handle(w) PROVE ~At(w, "answered")
  BY DEF Handle, Save, RevokeAllForUser, Issue, CheckUser, Rotate, Retire, ReadForReset, SpendLink, ReadAfterOtp,
         FindInvite, InsertUser, AcceptInvite, TextCode, InsertInvite, SaveRevoked, At

---------------------------------------------------------------------------
(* The tokens that come and go. *)

LEMMA IssueAlarmless ==
    ASSUME IInv, Numbered, BrowserTyped, AlarmInv, NEW w \in Workers, Issue(w), UNCHANGED browserVars
    PROVE  AlarmInv'
  <1>1. PICK d, new : d = calls[w] /\ new = NewToken
    OBVIOUS
  <1>2. d.at = "issuing" /\ new \in TokenIds
    BY <1>1, IssueIs
  <1>3. PICK k \in Token : tokens' = [tokens EXCEPT ![new] = k] /\ k.active
    BY <1>1, IssueIs
  <1>4. PICK c : /\ Proceed(w, c) /\ c.reply = new
                 /\ c.at = "answered" \/ (c.at = "retiring" /\ c.old = d.old /\ d.old # Nobody)
    BY <1>1, IssueIs
  <1>5. calls'[w] = c /\ \A v \in Workers \ {w} : calls'[v] = calls[v]
    BY <1>4, Stepping, Others DEF IInv
  <1>6. UNCHANGED <<held, page, slips, causes>>
    BY DEF Issue, historyVars, browserVars
  <1>7. \A t \in TokenIds : tokens[t].active \/ Known(t) => t # new
    <2>1. new \in Int /\ (Known(new) <=> new < new)
      BY <1>1, <1>2, NextNumber DEF IInv, MayIssue, TokenIds
    <2>2. ~NoToken.active
      BY DEF NoToken
    <2>3. ~Known(new) /\ ~tokens[new].active
      <3>1. ~Known(new)
        BY <2>1
      <3> QED BY <2>2, <3>1, Zenon DEF Known
    <2> QED BY <2>3
  <1>8. /\ tokens'[new] = k /\ Known(new)'
        /\ \A t \in TokenIds \ {new} : tokens'[t] = tokens[t]
    <2>1. tokens'[new] = k /\ \A t \in TokenIds \ {new} : tokens'[t] = tokens[t]
      BY <1>2, <1>3 DEF IInv, Types
    <2>2. k # NoToken
      BY RowsAreThere
    <2> QED BY <2>1, <2>2 DEF Known
  <1>9. Nobody \notin TokenIds
    BY RequestsAssumption DEF Nobody, TokenIds
  <1>10. \A v \in Workers : Presents(calls[v]) => calls[v].old \in TokenIds /\ calls[v].old # new
    <2>1. \A v \in Workers : Presents(calls[v]) => calls[v].old \in KnownIds
      BY DEF IInv, Types, Shape, Presents
    <2>2. \A t \in KnownIds : Known(t)
      BY RowsAreThere DEF KnownIds, Known
    <2> QED BY <1>7, <2>1, <2>2 DEF KnownIds
  <1>11. \A v \in Workers : Presents(calls'[v]) => Presents(calls[v]) /\ calls'[v].old = calls[v].old
    BY <1>1, <1>2, <1>4, <1>5 DEF Presents
  <1>12. \A v \in Workers : Brings(calls[v]) => calls[v].reply \in TokenIds
    BY DEF IInv, Types, Shape, Brings
  <1>13. \A v \in Workers \ {w} : calls'[v].at = calls[v].at
    BY <1>5
  <1>14. ASSUME Innocent' PROVE Presented' /\ Returned' /\ HeldIsFresh'
    <2>1. Presented /\ Returned /\ HeldIsFresh
      BY <1>6, <1>14 DEF AlarmInv, Innocent
    <2>2. \A t \in TokenIds : tokens[t].active => tokens'[t].active
      BY <1>3, <1>8
    <2>3. Presented'
      <3>1. \A v \in Workers : ~Alarms(calls'[v])
        BY <1>4, <1>5, <2>1 DEF Presented, Alarms
      <3>2. \A v \in Workers : Presents(calls'[v]) => tokens'[calls'[v].old].active
        BY <1>10, <1>11, <2>1, <2>2 DEF Presented
      <3> QED BY <1>11, <2>1, <3>1, <3>2 DEF Presented
    <2>4. Returned'
      <3> SUFFICES ASSUME NEW u \in Workers, Brings(calls'[u])
                   PROVE  /\ tokens'[calls'[u].reply].active /\ calls'[u].reply # held'
                          /\ \A v \in Workers : Presents(calls'[v]) => calls'[v].old # calls'[u].reply
                          /\ \A v \in Workers : Brings(calls'[v]) /\ calls'[v].reply = calls'[u].reply => v = u
        BY DEF Returned
      <3>1. \A v \in Workers \ {w} : Brings(calls[v]) => calls[v].reply # new
        BY <1>7, <1>12, <2>1 DEF Returned
      <3>2. CASE u = w
        <4>1. calls'[u].reply = new /\ held # new
          BY <1>2, <1>4, <1>5, <1>7, <1>9, <2>1, <3>2 DEF HeldIsFresh, BrowserTyped
        <4> QED BY <1>3, <1>5, <1>6, <1>8, <1>10, <1>11, <3>1, <3>2, <4>1
      <3>3. CASE u # w
        <4>1. Brings(calls[u]) /\ calls'[u] = calls[u] /\ calls[u].reply # new /\ calls[u].reply \in TokenIds
          BY <1>5, <1>12, <3>1, <3>3
        <4>2. calls'[w].reply = new
          BY <1>4, <1>5
        <4> QED BY <1>5, <1>6, <1>11, <2>1, <2>2, <4>1, <4>2 DEF Returned
      <3> QED BY <3>2, <3>3
    <2>5. HeldIsFresh'
      <3> SUFFICES ASSUME held # Nobody PROVE HeldIsFresh'
        BY <1>6 DEF HeldIsFresh
      <3>1. held \in TokenIds /\ Known(held) /\ held # new
        BY <1>7, <2>1 DEF HeldIsFresh, BrowserTyped
      <3>2. tokens'[held] = tokens[held] /\ (TokenAwaited => TokenAwaited')
        <4>1. ASSUME NEW t \in Tabs, Awaits(t) PROVE Awaits(t)'
          <5>1. t \in Workers /\ page'[t] = page[t] /\ held' = held
            BY <1>6, BrowserAssumption
          <5>2. CASE t # w
            BY <1>5, <4>1, <5>1, <5>2 DEF Awaits, Answered, At
          <5>3. CASE t = w
            <6>1. d.old = held
              BY <1>1, <1>2, <4>1, <5>3 DEF Awaits, Answered, At
            <6>2. calls'[t] = c /\ ((c.at = "answered" /\ c.reply # Nobody) \/ (Presents(c) /\ c.old = held))
              BY <1>2, <1>4, <1>5, <1>9, <5>3, <6>1 DEF Presents
            <6> QED BY <4>1, <5>1, <6>2 DEF Awaits, Answered, At
          <5> QED BY <5>2, <5>3
        <4> QED BY <1>8, <3>1, <4>1 DEF TokenAwaited
      <3> QED BY <1>6, <1>11, <2>1, <3>1, <3>2 DEF HeldIsFresh, Known
    <2> QED BY <2>3, <2>4, <2>5
  <1> QED BY <1>6, <1>14 DEF AlarmInv

LEMMA RetireAlarmless ==
    ASSUME IInv, BrowserTyped, AlarmInv, NEW w \in Workers, Retire(w), UNCHANGED browserVars
    PROVE  AlarmInv'
  <1>1. PICK d, c, old : d = calls[w] /\ c = [at |-> "answered", reply |-> d.reply] /\ old = d.old
    OBVIOUS
  <1>2. /\ Proceed(w, c) /\ c.at = "answered" /\ c.reply = d.reply /\ d.at = "retiring"
        /\ tokens' = [tokens EXCEPT ![old].active = FALSE]
        /\ UNCHANGED <<held, page, slips, causes>>
    BY <1>1 DEF Retire, Answer, At, historyVars, browserVars
  <1>3. calls'[w] = c /\ \A v \in Workers \ {w} : calls'[v] = calls[v]
    BY <1>2, Stepping, Others DEF IInv
  <1>4. old \in KnownIds /\ Presents(d)
    BY <1>1, <1>2 DEF IInv, Types, Shape, Presents
  <1>5. /\ \A t \in TokenIds \ {old} : tokens'[t] = tokens[t]
        /\ tokens'[old].password = tokens[old].password /\ "password" \in DOMAIN tokens'[old]
    <2>1. tokens \in [TokenIds -> Token \cup {NoToken}] /\ old \in TokenIds /\ tokens[old] \in Token
      BY <1>4 DEF KnownIds, IInv, Types
    <2>2. tokens'[old] = [tokens[old] EXCEPT !.active = FALSE] /\ "password" \in DOMAIN tokens[old]
      BY <1>2, <2>1 DEF Token
    <2> QED BY <1>2, <2>1, <2>2
  <1>6. \A t \in TokenIds : Known(t) => Known(t)'
    <2>1. DOMAIN NoToken = {"active"}
      BY Zenon DEF NoToken
    <2> QED BY <1>5, <2>1 DEF Known
  <1>7. \A v \in Workers : /\ Presents(calls[v]) => calls[v].old \in TokenIds
                           /\ Brings(calls[v]) => calls[v].reply \in TokenIds
    BY DEF IInv, Types, Shape, Presents, Brings, KnownIds
  <1>8. ASSUME Innocent' PROVE Presented' /\ Returned' /\ HeldIsFresh'
    <2>1. Presented /\ Returned /\ HeldIsFresh
      BY <1>2, <1>8 DEF AlarmInv, Innocent
    <2>2. \A v \in Workers : /\ Presents(calls'[v]) => v # w /\ Presents(calls[v]) /\ calls'[v] = calls[v]
                             /\ Brings(calls'[v]) => Brings(calls[v]) /\ calls'[v].reply = calls[v].reply
                             /\ Alarms(calls'[v]) => Alarms(calls[v])
      BY <1>1, <1>2, <1>3 DEF Presents, Brings, Alarms
    <2>3. \A v \in Workers \ {w} : Presents(calls[v]) => calls[v].old # old
      BY <1>1, <1>4, <2>1 DEF Presented
    <2>4. Presented'
      <3>1. \A v \in Workers : Presents(calls'[v]) => tokens'[calls'[v].old].active
        <4>1. \A v \in Workers : Presents(calls'[v]) => calls'[v] = calls[v] /\ calls[v].old \in TokenIds \ {old}
          BY <2>2, <2>3, <1>7
        <4> QED BY <1>5, <2>1, <2>2, <4>1 DEF Presented
      <3> QED BY <2>1, <2>2, <3>1 DEF Presented
    <2>5. Returned'
      <3>1. \A v \in Workers : Brings(calls[v]) => calls[v].reply # old
        BY <1>1, <1>4, <2>1 DEF Returned
      <3>2. \A v \in Workers : Brings(calls[v]) => tokens'[calls[v].reply] = tokens[calls[v].reply]
        BY <1>5, <1>7, <3>1
      <3> SUFFICES ASSUME NEW u \in Workers, Brings(calls'[u])
                   PROVE  /\ tokens'[calls'[u].reply].active /\ calls'[u].reply # held'
                          /\ \A v \in Workers : Presents(calls'[v]) => calls'[v].old # calls'[u].reply
                          /\ \A v \in Workers : Brings(calls'[v]) /\ calls'[v].reply = calls'[u].reply => v = u
        BY DEF Returned
      <3>3. Brings(calls[u]) /\ calls'[u].reply = calls[u].reply
        BY <2>2
      <3>4. tokens'[calls'[u].reply].active /\ calls'[u].reply # held'
        BY <1>2, <2>1, <3>2, <3>3 DEF Returned
      <3> QED BY <2>1, <2>2, <3>3, <3>4 DEF Returned
    <2>6. HeldIsFresh'
      <3> SUFFICES ASSUME held # Nobody PROVE HeldIsFresh'
        BY <1>2 DEF HeldIsFresh
      <3>1. held \in TokenIds /\ Known(held)' /\ held' = held
        BY <1>2, <1>6, <2>1 DEF HeldIsFresh, BrowserTyped
      <3>2. CASE TokenAwaited
        <4>1. PICK t \in Tabs : Awaits(t)
          BY <3>2 DEF TokenAwaited
        <4>2. t \in Workers /\ page'[t] = page[t]
          BY <1>2, BrowserAssumption
        <4>3. CASE t # w
          BY <1>3, <3>1, <4>1, <4>2, <4>3 DEF Awaits, Answered, At, TokenAwaited, HeldIsFresh
        <4>4. CASE t = w
          <5>1. c.reply # Nobody
            BY <1>1, <1>2, RequestsAssumption DEF IInv, Types, Shape, Nobody, TokenIds
          <5>2. Awaits(t)'
            BY <1>2, <1>3, <4>1, <4>2, <4>4, <5>1 DEF Awaits, Answered, At
          <5> QED BY <3>1, <5>2 DEF TokenAwaited, HeldIsFresh
        <4> QED BY <4>3, <4>4
      <3>3. CASE ~TokenAwaited
        <4>1. held # old /\ tokens[held].active
          BY <1>1, <1>4, <2>1, <3>3 DEF HeldIsFresh
        <4>2. tokens'[held].active /\ \A v \in Workers : Presents(calls'[v]) => calls'[v].old # held
          BY <1>5, <2>1, <2>2, <3>1, <3>3, <4>1 DEF HeldIsFresh
        <4> QED BY <3>1, <4>2 DEF HeldIsFresh
      <3> QED BY <3>2, <3>3
    <2> QED BY <2>4, <2>5, <2>6
  <1> QED BY <1>2, <1>8 DEF AlarmInv

LEMMA RevokeAlarmless ==
    ASSUME AlarmInv, NEW w \in Workers, RevokeAllForUser(w), UNCHANGED browserVars
    PROVE  AlarmInv'
  <1>1. /\ causes' = causes \cup {calls[w].cause} /\ calls[w].at = "cutting"
        /\ UNCHANGED slips
    BY DEF RevokeAllForUser, At, browserVars
  <1>2. ~Innocent'
    BY <1>1 DEF Innocent
  <1>3. Innocent => calls[w].cause # "reuse"
    BY <1>1 DEF AlarmInv, Presented, Alarms
  <1> QED BY <1>1, <1>2, <1>3 DEF AlarmInv, Innocent

---------------------------------------------------------------------------
(* The pages. *)

\* A page that does not refresh turns to something else.
LEMMA Turning ==
    ASSUME BrowserTyped, NEW t \in Tabs, NEW to, NEW own, NEW got, Becomes(t, to, own, got),
           page[t] \notin Refreshing
    PROVE  Steady
  BY DEF Becomes, Steady, BrowserTyped

LEMMA Turnings ==
    ASSUME BrowserTyped, NEW t \in Tabs, page[t] \notin Refreshing,
           Closes(t) \/ \E to : Turn(t, to) \/ \E own, got : Becomes(t, to, own, got)
    PROVE  Steady
  BY Turning DEF Closes, Turn

LEMMA RefreshAlarmless ==
    ASSUME Types, BrowserTyped, AlarmInv, NEW t \in Tabs, RefreshAccessToken(t) \/ RefreshSession(t), slips' = {}
    PROVE  AlarmInv'
  <1>0. PICK to \in Refreshing : Refreshes(t, to) /\ page[t] \notin Refreshing
    BY DEF RefreshAccessToken, RefreshSession, Refreshing
  <1>1. PICK c : Begin(t, c) /\ c = [at |-> "refreshing", old |-> held]
    BY <1>0 DEF Refreshes, Refresh
  <1>2. t \in Workers /\ c.at = "refreshing" /\ c.old = held /\ Presents(c) /\ ~Brings(c) /\ ~Alarms(c)
    BY <1>1, BrowserAssumption DEF Presents, Brings, Alarms
  <1>3. calls'[t] = c /\ \A v \in Workers \ {t} : calls'[v] = calls[v]
    BY <1>1, <1>2, Stepping, Others
  <1>4. UNCHANGED <<tokens, held, causes>> /\ Turn(t, to) /\ held # Nobody
    BY <1>0 DEF Refreshes, Refresh, accountVars, rowVars, historyVars
  <1>5. TokenAwaited'
    <2>1. page'[t] = to
      BY <1>4 DEF BrowserTyped, Turn, Becomes
    <2>2. Awaits(t)'
      BY <1>0, <1>2, <1>3, <1>4, <2>1 DEF Awaits
    <2> QED BY <2>2 DEF TokenAwaited
  <1>6. slips = {} /\ ~TokenAwaited
    <2>1. slips = {} /\ ~\E v \in Tabs \ {t} : page[v] \in Refreshing
      BY <1>0, Zenon DEF Refreshes, Slipped
    <2> QED BY <1>0, <2>1 DEF TokenAwaited, Awaits
  <1>7. ASSUME Innocent' PROVE Presented' /\ Returned' /\ HeldIsFresh'
    <2>1. Presented /\ Returned /\ HeldIsFresh
      BY <1>4, <1>6, <1>7 DEF AlarmInv, Innocent
    <2>2. tokens[held].active /\ Known(held) /\ \A v \in Workers : Presents(calls[v]) => calls[v].old # held
      BY <1>4, <1>6, <2>1 DEF HeldIsFresh
    <2>3. Presented'
      BY <1>2, <1>3, <1>4, <2>1, <2>2 DEF Presented
    <2>4. Returned'
      BY <1>2, <1>3, <1>4, <2>1 DEF Returned
    <2>5. HeldIsFresh'
      BY <1>4, <1>5, <2>2 DEF HeldIsFresh, Known
    <2> QED BY <2>3, <2>4, <2>5
  <1> QED BY <1>4, <1>6, <1>7 DEF AlarmInv

\* What an answer may do to localStorage.
LEMMA ReceiveIs ==
    ASSUME NEW t \in Tabs, Receive(t), slips' = {}
    PROVE  /\ slips = {} /\ At(t, "answered") /\ Proceed(t, Idle) /\ UNCHANGED accountVars
           /\ \E to, own, got : Becomes(t, to, own, got)
           /\ \/ held' = Nobody
              \/ held' = calls[t].reply
              \/ held' = held /\ (page[t] \notin Refreshing \/ calls[t].reply = Nobody)
  <1>1. CASE SignedIn(t)
    BY <1>1 DEF SignedIn, Hears, Answered, Closes, Refreshing
  <1>2. CASE Refreshed(t)
    <2>1. \E to, own, got : Becomes(t, to, own, got)
      BY <1>2 DEF Refreshed, Closes, Turn
    <2> QED BY <1>2, <2>1 DEF Refreshed, Hears, Answered
  <1>3. CASE Renewed(t)
    <2>1. \E to, own, got : Becomes(t, to, own, got)
      BY <1>3, Zenon DEF Renewed, Turn
    <2>2. held' = calls[t].reply \/ (held' = held /\ calls[t].reply = Nobody)
      BY <1>3, Zenon DEF Renewed
    <2> QED BY <1>3, <2>1, <2>2 DEF Renewed, Hears, Answered
  <1>4. CASE Saved(t)
    <2>1. slips = {} /\ held' = held
      BY <1>4 DEF Saved, WriteBack, Slipped
    <2> QED BY <1>4, <2>1 DEF Saved, Hears, Answered, Turn, Refreshing
  <1>5. CASE SignedOut(t)
    BY <1>5 DEF SignedOut, Hears, Answered, Closes
  <1> QED BY <1>1, <1>2, <1>3, <1>4, <1>5 DEF Receive

LEMMA ReceiveAlarmless ==
    ASSUME Types, BrowserTyped, AlarmInv, NEW t \in Tabs, Receive(t), slips' = {}
    PROVE  AlarmInv'
  <1>1. PICK reply : reply = calls[t].reply
    OBVIOUS
  <1>2. t \in Workers /\ calls[t].at = "answered" /\ Proceed(t, Idle)
    BY ReceiveIs, BrowserAssumption DEF At
  <1>3. calls'[t] = Idle /\ \A v \in Workers \ {t} : calls'[v] = calls[v]
    BY <1>2, Stepping, Others
  <1>4. UNCHANGED <<tokens, causes, slips>> /\ slips = {}
    BY ReceiveIs DEF accountVars, rowVars, historyVars
  <1>5. PICK to, own, got : Becomes(t, to, own, got)
    BY ReceiveIs
  <1>6. \/ held' = Nobody
        \/ held' = reply /\ reply # Nobody
        \/ held' = held /\ (page[t] \notin Refreshing \/ reply = Nobody)
    BY <1>1, ReceiveIs
  <1>7. ASSUME Innocent' PROVE Presented' /\ Returned' /\ HeldIsFresh'
    <2>1. Presented /\ Returned /\ HeldIsFresh
      BY <1>4, <1>7 DEF AlarmInv, Innocent
    <2>2. \A v \in Workers : /\ Presents(calls'[v]) => v # t /\ calls'[v] = calls[v]
                             /\ Brings(calls'[v]) => v # t /\ calls'[v] = calls[v]
                             /\ Alarms(calls'[v]) => v # t /\ calls'[v] = calls[v]
      BY <1>3, HarmlessAre DEF Harmless
    <2>3. Presented'
      BY <1>4, <2>1, <2>2 DEF Presented
    <2>4. ASSUME reply # Nobody
          PROVE  /\ tokens[reply].active /\ \A v \in Workers : Presents(calls[v]) => calls[v].old # reply
                 /\ \A v \in Workers : Brings(calls[v]) /\ calls[v].reply = reply => v = t
      <3>1. Brings(calls[t])
        BY <1>1, <1>2, <2>4 DEF Brings
      <3> QED BY <1>1, <1>2, <2>1, <3>1 DEF Returned
    <2>5. Returned'
      <3>1. \A v \in Workers : Brings(calls'[v]) => calls'[v].reply # held' /\ calls'[v].reply # Nobody
        BY <1>6, <2>1, <2>2, <2>4 DEF Returned, Brings
      <3> QED BY <1>4, <2>1, <2>2, <3>1 DEF Returned
    <2>6. HeldIsFresh'
      <3>1. CASE held' = Nobody
        BY <3>1 DEF HeldIsFresh
      <3>2. CASE held' = reply /\ reply # Nobody
        <4>1. ~NoToken.active
          BY DEF NoToken
        <4>2. tokens[reply] # NoToken
          BY <2>4, <3>2, <4>1, Zenon
        <4> QED BY <1>4, <2>2, <2>4, <3>2, <4>2 DEF HeldIsFresh, Known
      <3>3. CASE held' = held /\ (page[t] \notin Refreshing \/ reply = Nobody)
        <4>1. ~Awaits(t)
          BY <1>1, <1>2, <3>3 DEF Awaits, Presents
        <4>2. ASSUME NEW v \in Tabs, Awaits(v) PROVE Awaits(v)'
          <5>1. v # t /\ v \in Workers
            BY <4>1, <4>2, BrowserAssumption
          <5>2. page'[v] = page[v] /\ calls'[v] = calls[v]
            BY <1>3, <1>5, <5>1 DEF Becomes, BrowserTyped
          <5> QED BY <3>3, <4>2, <5>2 DEF Awaits, Answered, At
        <4>3. TokenAwaited => TokenAwaited'
          BY <4>2 DEF TokenAwaited
        <4> QED BY <1>4, <2>1, <2>2, <3>3, <4>3 DEF HeldIsFresh, Known
      <3> QED BY <1>6, <3>1, <3>2, <3>3
    <2> QED BY <2>3, <2>5, <2>6
  <1> QED BY <1>4, <1>7 DEF AlarmInv

\* The session is cleared.
LEMMA ClearingStep ==
    ASSUME AlarmInv, UNCHANGED <<calls, tokens, causes, slips>>, held' = Nobody
    PROVE  AlarmInv'
  <1>1. \A v \in Workers : Brings(calls[v]) => calls[v].reply # Nobody
    BY DEF Brings
  <1> QED BY <1>1 DEF AlarmInv, Innocent, Presented, Returned, HeldIsFresh

LEMMA StandingAlarmless ==
    ASSUME BrowserTyped, AlarmInv, NEW t \in Tabs, slips' = {}, NoCall,
           \/ Open(t) \/ FindSessionGone(t) \/ BecomeProvider(t) \/ Reload(t) \/ StayHere(t)
           \/ LoseConnection(t) \/ Leave(t)
    PROVE  AlarmInv'
  <1>1. UNCHANGED <<calls, tokens, causes>>
    BY DEF NoCall, accountVars, rowVars, historyVars
  <1>2. CASE Open(t)
    BY <1>1, <1>2, Turnings, StandingStep DEF Open, Refreshing
  <1>3. CASE FindSessionGone(t) \/ BecomeProvider(t) \/ StayHere(t)
    <2>1. UNCHANGED <<held, slips>> /\ page[t] \notin Refreshing
      BY <1>3 DEF FindSessionGone, BecomeProvider, StayHere, Refreshing
    <2>2. Steady
      BY <1>3, <2>1, Turnings, Zenon DEF FindSessionGone, BecomeProvider, StayHere
    <2> QED BY <1>1, <2>1, <2>2, StandingStep
  <1>4. CASE Reload(t)
    <2>1. UNCHANGED <<held, slips>> /\ page[t] \notin Refreshing
      BY <1>4 DEF Reload, WriteBack, Slipped, Refreshing
    <2>2. Steady
      BY <1>4, <2>1, Turnings, Zenon DEF Reload
    <2> QED BY <1>1, <2>1, <2>2, StandingStep
  <1>5. CASE LoseConnection(t)
    <2>1. \/ held' = Nobody /\ UNCHANGED slips
          \/ UNCHANGED <<held, slips>> /\ page[t] \in {"signing in", "saving"} /\ (Closes(t) \/ Turn(t, "open"))
      BY <1>5, Zenon DEF LoseConnection, Slipped
    <2>2. CASE held' = Nobody /\ UNCHANGED slips
      BY <1>1, <2>2, ClearingStep
    <2>3. CASE UNCHANGED <<held, slips>> /\ page[t] \in {"signing in", "saving"} /\ (Closes(t) \/ Turn(t, "open"))
      <3>1. page[t] \notin Refreshing
        BY <2>3 DEF Refreshing
      <3>2. Steady
        BY <2>3, <3>1, Turnings, Zenon
      <3> QED BY <1>1, <2>3, <3>2, StandingStep
    <2> QED BY <2>1, <2>2, <2>3
  <1>6. CASE Leave(t)
    <2>1. page[t] \notin Refreshing /\ UNCHANGED <<held, slips>>
      BY <1>6 DEF Leave, Slipped
    <2> QED BY <1>1, <1>6, <2>1, Turnings, StandingStep DEF Leave
  <1> QED BY <1>2, <1>3, <1>4, <1>5, <1>6

LEMMA PageAlarmless ==
    ASSUME IInv, BrowserTyped, AlarmInv, NEW t \in Tabs, Page(t)
    PROVE  AlarmInv'
  <1> SUFFICES ASSUME slips' = {} PROVE AlarmInv'
    BY SlipStep
  <1>1. t \in Workers /\ Types
    BY BrowserAssumption DEF IInv
  <1>2. CASE SignIn(t) \/ SignOut(t) \/ SaveSettings(t) \/ (BecomeProvider(t) /\ createProfile(t))
    <2>1. Soothes(t) /\ calls[t] = Idle
      BY <1>1, <1>2, RequestsSoothe DEF SignIn, SignOut, SaveSettings
    <2>2. PICK to : Turn(t, to) /\ page[t] \notin Refreshing /\ UNCHANGED <<held, slips>>
      BY <1>2 DEF SignIn, SignOut, SaveSettings, BecomeProvider, Refreshing
    <2>3. Steady
      BY <2>2, Turnings
    <2> QED BY <1>1, <2>1, <2>2, <2>3, SoothingStep
  <1>3. CASE BecomeProvider(t) /\ ~createProfile(t)
    <2>1. NoCall
      BY <1>3, Zenon DEF BecomeProvider
    <2> QED BY <1>3, <2>1, StandingAlarmless
  <1>4. CASE UseForm(t)
    <2>1. Soothes(t) /\ calls[t] = Idle /\ UNCHANGED browserVars
      BY <1>1, <1>4, RequestsSoothe DEF UseForm
    <2>2. Steady /\ ~At(t, "answered") /\ UNCHANGED <<held, slips>>
      BY <2>1 DEF browserVars, Steady, At, Idle
    <2> QED BY <1>1, <2>1, <2>2, SoothingStep
  <1>5. CASE Open(t) \/ FindSessionGone(t) \/ Reload(t) \/ StayHere(t) \/ LoseConnection(t) \/ Leave(t)
    <2>1. NoCall
      BY <1>5, Zenon DEF Open, FindSessionGone, Reload, StayHere, LoseConnection, Leave
    <2> QED BY <1>5, <2>1, StandingAlarmless
  <1> QED BY <1>1, <1>2, <1>3, <1>4, <1>5, RefreshAlarmless, ReceiveAlarmless DEF Page

LEMMA RestartAlarmless ==
    ASSUME AlarmInv, Restart, UNCHANGED browserVars
    PROVE  AlarmInv'
  <1>1. \A w \in Workers : calls'[w] = IF Busy(w) THEN [at |-> "answered", reply |-> Nobody] ELSE calls[w]
    BY DEF Restart
  <1>2. \A w \in Workers : Calm(calls[w], calls'[w])
    BY <1>1, HarmlessAre, HarmlessIsCalm
  <1>3. UNCHANGED <<tokens, page, held, causes, slips>>
    BY DEF Restart, browserVars
  <1>4. ASSUME NEW t \in Tabs, Awaits(t)
        PROVE  Awaits(t)' \/ (Presents(calls[t]) /\ ~Presents(calls'[t]))
    <2>1. t \in Workers
      BY BrowserAssumption
    <2>2. CASE calls'[t] = calls[t]
      BY <1>3, <1>4, <2>2 DEF Awaits, Answered, At
    <2>3. CASE Busy(t)
      <3>1. Presents(calls[t])
        BY <1>4, <2>3 DEF Busy, Awaits, Answered
      <3>2. ~Presents(calls'[t])
        BY <1>1, <2>1, <2>3, HarmlessAre DEF Harmless
      <3> QED BY <3>1, <3>2
    <2> QED BY <1>1, <2>1, <2>2, <2>3
  <1> QED BY <1>2, <1>3, <1>4, CalmStep DEF Patient

LEMMA NextAlarmless ==
    ASSUME IInv, Numbered, BrowserTyped, AlarmInv, [Next]_vars
    PROVE  AlarmInv'
  <1>0. Types
    BY DEF IInv
  <1>1. ASSUME NEW w \in Workers, Soothes(w), UNCHANGED browserVars,
               At(w, "answered") /\ w \in Tabs => page[w] \notin Refreshing
        PROVE  AlarmInv'
    <2>1. UNCHANGED <<held, slips>> /\ Steady
      BY <1>1 DEF browserVars, Steady
    <2> QED BY <1>0, <1>1, <2>1, SoothingStep
  <1>2. CASE UNCHANGED vars
    <2>1. UNCHANGED <<calls, tokens, held, causes, slips>> /\ Steady
      BY <1>2 DEF vars, accountVars, rowVars, historyVars, browserVars, Steady
    <2> QED BY <2>1, StandingStep
  <1>3. ASSUME NEW s \in Staff, Administer(s) PROVE AlarmInv'
    <2>1. s \in Workers /\ s \notin Tabs
      BY BrowserAssumption
    <2>2. Soothes(s)
      BY <1>3, <2>1, RequestsSoothe DEF Administer
    <2> QED BY <1>1, <1>3, <2>1, <2>2 DEF Administer
  <1>4. ASSUME NEW w \in Workers, Handle(w), UNCHANGED browserVars PROVE AlarmInv'
    <2>1. (Innocent => Presented) /\ ~At(w, "answered")
      BY <1>4, HandlersAreBusy DEF AlarmInv
    <2> QED BY <1>0, <1>1, <1>4, <2>1, HandlersSoothe, IssueAlarmless, RetireAlarmless, RevokeAlarmless DEF Handle
  <1>5. ASSUME NEW w \in Workers, Fail(w), UNCHANGED browserVars PROVE AlarmInv'
    <2>1. /\ Proceed(w, [at |-> "answered", reply |-> Nobody]) /\ UNCHANGED <<tokens, causes>>
          /\ ~At(w, "answered")
      BY <1>5 DEF Fail, Answer, rowVars, Busy
    <2> QED BY <1>1, <1>5, <2>1, HarmlessAre, HarmlessSoothes
  <1>6. ASSUME NEW w \in Workers, Done(w) PROVE AlarmInv'
    <2>1. Proceed(w, Idle) /\ UNCHANGED <<tokens, causes, browserVars>>
      BY <1>6 DEF Done, accountVars, rowVars, historyVars
    <2>2. w \in Tabs => page[w] \notin Refreshing
      BY <1>6 DEF Done, Waiting
    <2> QED BY <1>1, <2>1, <2>2, HarmlessAre, HarmlessSoothes
  <1>7. ASSUME NEW t \in Tabs, Page(t) PROVE AlarmInv'
    BY <1>7, PageAlarmless
  <1> QED BY <1>2, <1>3, <1>4, <1>5, <1>6, <1>7, RestartAlarmless DEF Next, Page

LEMMA InitAlarmless == Init => AlarmInv
  <1> SUFFICES ASSUME Init PROVE AlarmInv
    OBVIOUS
  <1>1. \A w \in Workers : calls[w] = Idle
    BY DEF Init
  <1>2. Presented /\ Returned
    BY <1>1, HarmlessAre DEF Presented, Returned, Harmless, Idle
  <1>3. HeldIsFresh
    <2> SUFFICES ASSUME held # Nobody PROVE HeldIsFresh
      BY DEF HeldIsFresh
    <2>1. Known(FirstToken) /\ held = FirstToken
      BY DEF Init
    <2>2. FirstToken \in TokenIds
      BY RequestsAssumption DEF FirstToken, TokenIds
    <2>3. tokens[FirstToken].active
      BY <2>1, <2>2 DEF Init, AccountInit, Known
    <2> QED BY <1>1, <2>1, <2>3, HarmlessAre DEF HeldIsFresh, Harmless
  <1> QED BY <1>2, <1>3 DEF Init, AccountInit, AlarmInv

\* However many tabs, requests, failures and restarts: a browser sets off the
\* alarm of rotateRefreshToken only when two pages refresh at a time, one is
\* left while it refreshes, the answer to refreshSession is lost, a page
\* writes back a token it should have forgotten, or something else ended the
\* sessions before (TokenService; refreshAccessToken and refreshSession in
\* api.js, the settings of dashboard-renter.html).
THEOREM AlarmEarned == Spec => []ReuseAlarmIsEarned
  <1>1. (IInv /\ Numbered /\ BrowserTyped) /\ AlarmInv /\ [Next]_vars => AlarmInv'
    BY NextAlarmless
  <1>2. AlarmInv => ReuseAlarmIsEarned
    BY DEF AlarmInv, ReuseAlarmIsEarned
  <1> QED BY <1>1, <1>2, InitAlarmless, Inductive, Typed, PTL DEF Spec
=============================================================================
