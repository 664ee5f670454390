------------------------------ MODULE Accounts ------------------------------
(***************************************************************************)
(* One account on the server: AuthService, TokenService, OtpService and    *)
(* the operations of UsersService that change it, each handler from await  *)
(* to await.  A refresh token is a number in the order of issue, a         *)
(* password the number of the call that set it.  Left out: access tokens,  *)
(* audit records, and the passing of time, which makes tokens, links and   *)
(* codes worthless.                                                        *)
(***************************************************************************)
EXTENDS Requests

CONSTANT MaxAttempts   \* MAX_ATTEMPTS of a one-time code

ASSUME AccountsAssumption == MaxAttempts \in Nat

VARIABLES
    user,       \* the users row
    tokens,     \* its refresh_tokens rows
    link,       \* the password_reset_tokens row of the link that was mailed
    code,       \* OtpService's store: the attempts at the code in it, or NoCode
    invite,     \* the admin_invites row for the account's address
    cuts,       \* history: how often all its tokens were revoked,
    causes,     \* and why
    linkUses,   \* history: the passwords set by the link,
    codeUses,   \* by one-time codes,
    codesSent,  \* and the codes sent
    shared,     \* history: two calls used the link at a time
    clobbered,  \* history: some save used a copy no longer so
    failed      \* history: a handler ended half-way

rowVars == <<user, tokens, link, code, invite>>
historyVars == <<cuts, causes, linkUses, codeUses, codesSent, shared, clobbered, failed>>
accountVars == <<rowVars, historyVars>>

Roles == {"renter", "provider", "admin"}
SelfService == {{}, {"provider"}}                    \* SELF_SERVICE_ROLES
RoleSets == {{}, {"provider"}, {"provider", "admin"}}   \* bound: arguments of setRoles
AccountStatuses == {"active", "suspended"}
Passwords == 0..MaxCalls

User == [status : AccountStatuses, roles : SUBSET Roles, password : Passwords, deleted : BOOLEAN]
NoUser == [deleted |-> TRUE]
Found == ~user.deleted

Nobody == 0
TokenIds == 1..(MaxCalls + 1)
\* `password' is what the session was opened with.  `late': issued by a
\* handler that had read the account before a revocation; `astray': so was a
\* token it descends from.
Token == [active : BOOLEAN, password : Passwords, late : BOOLEAN, astray : BOOLEAN]
NoToken == [active |-> FALSE]
Known(t) == tokens[t] # NoToken

Links == {"none", "active", "used"}
NoCode == -1

Invite == [accepted : BOOLEAN, revoked : BOOLEAN]
NoInvite == [accepted |-> TRUE, revoked |-> TRUE]
InviteActive == ~invite.accepted /\ ~invite.revoked

Causes == {"logout", "suspended", "password", "reuse"}

\* What a handler changes in its copy of the user; and what comes after the
\* save.
Keep == [f \in {} |-> TRUE]
Changes == {Keep} \cup [password : Passwords] \cup [roles : SUBSET Roles] \cup [status : AccountStatuses]

\* `since' is `cuts' as of the read, `old' the token to be replaced.
AccountCall ==
    [at : {"saving"}, set : Changes, then : {"done", "issuing", "spending", "cutting"},
     copy : User, cause : Causes, since : Nat]
    \cup [at : {"refreshing"}, old : TokenIds]
    \cup [at : {"rotating"}, old : TokenIds, copy : User, since : Nat]
    \cup [at : {"issuing"}, old : TokenIds \cup {Nobody}, copy : User, since : Nat]
    \cup [at : {"retiring"}, old : TokenIds, reply : TokenIds]
    \cup [at : {"spending"}]
    \cup [at : {"cutting"}, cause : Causes]
    \cup [at : {"redeeming", "verified", "resetting"}]
    \cup [at : {"registering"}, roles : SUBSET Roles, candidate : {"redeem", "none"}]
    \cup [at : {"inserting"}, roles : SUBSET Roles, candidate : Invite]
    \cup [at : {"accepting"}, copy : User, candidate : Invite, since : Nat]
    \cup [at : {"texting"}, copy : User, since : Nat]
    \cup [at : {"inviting"}]
    \cup [at : {"revoking invite"}, copy : Invite]
    \cup [at : {"answered"}, reply : TokenIds \cup {Nobody}]

Answer(w, reply) == Proceed(w, [at |-> "answered", reply |-> reply])

AccountTypeOK ==
    /\ user \in User \cup {NoUser}
    /\ tokens \in [TokenIds -> Token \cup {NoToken}]
    /\ link \in Links
    /\ code \in {NoCode} \cup 0..MaxAttempts
    /\ invite \in Invite
    /\ cuts \in Nat /\ causes \subseteq Causes
    /\ linkUses \in Nat /\ codeUses \in Nat /\ codesSent \in Nat
    /\ shared \in BOOLEAN /\ clobbered \in BOOLEAN /\ failed \in BOOLEAN

\* No account yet, or one with a session.
FirstToken == 1

AccountInit ==
    /\ \/ user = NoUser /\ tokens = [t \in TokenIds |-> NoToken]
       \/ /\ user = [status |-> "active", roles |-> {"renter"}, password |-> 0, deleted |-> FALSE]
          /\ tokens = [t \in TokenIds |->
                 IF t = FirstToken THEN [active |-> TRUE, password |-> 0, late |-> FALSE, astray |-> FALSE]
                                   ELSE NoToken]
    /\ link = "none" /\ code = NoCode /\ invite = NoInvite
    /\ cuts = 0 /\ causes = {}
    /\ linkUses = 0 /\ codeUses = 0 /\ codesSent = 0
    /\ shared = FALSE /\ clobbered = FALSE /\ failed = FALSE

---------------------------------------------------------------------------
(* Handlers that read the user, change the copy and save it. *)

Saving(set, then, cause) ==
    [at |-> "saving", set |-> set, then |-> then, copy |-> user, cause |-> cause, since |-> cuts]

\* The password is compared with that of the copy, and the status checked.
Login(w) ==
    /\ Found /\ user.status = "active"
    /\ Begin(w, Saving(Keep, "issuing", "logout"))
    /\ UNCHANGED accountVars

updateProfile(w) ==
    /\ Found
    /\ Begin(w, Saving(Keep, "done", "logout"))
    /\ UNCHANGED accountVars

\* ProviderProfileService.createProfile gives the user the role first.
createProfile(w) ==
    /\ Found /\ "provider" \notin user.roles
    /\ Begin(w, Saving([roles |-> user.roles \cup {"provider"}], "done", "logout"))
    /\ UNCHANGED accountVars

\* Mutant: the roles are replaced by those in the request.
setRolesOnly(w, roles) ==
    /\ Found
    /\ Begin(w, Saving([roles |-> roles], "done", "logout"))
    /\ UNCHANGED accountVars

setRoles(w, roles) ==
    /\ Found
    /\ Begin(w, Saving([roles |-> roles \cup {"renter"}], "done", "logout"))
    /\ UNCHANGED accountVars

addRole(w, role) == Saving([roles |-> user.roles \cup {role}], "done", "logout")

\* Any status but ACTIVE also revokes every refresh token, after the save.
setStatus(w, status) ==
    /\ Found
    /\ Begin(w, Saving([status |-> status], IF status = "active" THEN "done" ELSE "cutting", "suspended"))
    /\ UNCHANGED accountVars

removeAsAdmin(w) ==
    /\ Found
    /\ Begin(w, [at |-> "answered", reply |-> Nobody])
    /\ user' = [user EXCEPT !.deleted = TRUE]
    /\ UNCHANGED <<tokens, link, code, invite, historyVars>>

\* What follows the save.
After(c) ==
    CASE c.then = "done"     -> [at |-> "answered", reply |-> Nobody]
      [] c.then = "issuing"  -> [at |-> "issuing", old |-> Nobody, copy |-> Merge(c.copy, c.set), since |-> c.since]
      [] c.then = "spending" -> [at |-> "spending"]
      [] c.then = "cutting"  -> [at |-> "cutting", cause |-> c.cause]

Save(w) ==
    /\ At(w, "saving")
    /\ LET c == calls[w]
       IN  /\ user' = Merge(c.copy, c.set)
           /\ clobbered' = (clobbered \/ user # c.copy)
           /\ linkUses' = linkUses + (IF c.then = "spending" THEN 1 ELSE 0)
           /\ codeUses' = codeUses + (IF c.then = "cutting" /\ c.cause = "password" THEN 1 ELSE 0)
           /\ Proceed(w, After(c))
    /\ UNCHANGED <<tokens, link, code, invite, cuts, causes, codesSent, shared, failed>>

---------------------------------------------------------------------------
(* Refresh tokens. *)

\* One UPDATE of every row.
AllRevoked == [t \in TokenIds |-> IF Known(t) THEN [tokens[t] EXCEPT !.active = FALSE] ELSE NoToken]

RevokeAllForUser(w) ==
    /\ At(w, "cutting")
    /\ tokens' = AllRevoked
    /\ cuts' = cuts + 1
    /\ causes' = causes \cup {calls[w].cause}
    /\ Answer(w, Nobody)
    /\ UNCHANGED <<user, link, code, invite, linkUses, codeUses, codesSent, shared, clobbered, failed>>

Logout(w) ==
    /\ Begin(w, [at |-> "cutting", cause |-> "logout"])
    /\ UNCHANGED accountVars

\* issueTokenPair.
Issue(w) ==
    /\ At(w, "issuing")
    /\ LET c == calls[w]
           new == CHOOSE t \in TokenIds : ~Known(t) /\ \A s \in 1..(t - 1) : Known(s)
           late == c.since < cuts
       IN  /\ tokens' = [tokens EXCEPT ![new] =
                  IF c.old = Nobody
                  THEN [active |-> TRUE, password |-> c.copy.password, late |-> late, astray |-> late]
                  ELSE [tokens[c.old] EXCEPT !.active = TRUE, !.late = late, !.astray = @ \/ late]]
           /\ IF c.old = Nobody THEN Answer(w, new)
              ELSE Proceed(w, [at |-> "retiring", old |-> c.old, reply |-> new])
    /\ UNCHANGED <<user, link, code, invite, historyVars>>

\* findUserIdByRefreshToken.
Refresh(w, t) ==
    /\ Known(t)
    /\ Begin(w, [at |-> "refreshing", old |-> t])
    /\ UNCHANGED accountVars

\* Mutant: the account's status is not looked at.
ReadAnyUser(w) ==
    IF Found THEN [at |-> "rotating", old |-> calls[w].old, copy |-> user, since |-> cuts]
             ELSE [at |-> "answered", reply |-> Nobody]

ReadActiveUser(w) ==
    IF Found /\ user.status = "active"
    THEN [at |-> "rotating", old |-> calls[w].old, copy |-> user, since |-> cuts]
    ELSE [at |-> "answered", reply |-> Nobody]

CheckUser(w) ==
    /\ At(w, "refreshing")
    /\ Proceed(w, ReadActiveUser(w))
    /\ UNCHANGED accountVars

\* rotateRefreshToken: a token that was revoked revokes them all.
Rotate(w) ==
    /\ At(w, "rotating")
    /\ LET c == calls[w]
       IN  Proceed(w, IF tokens[c.old].active
                      THEN [at |-> "issuing", old |-> c.old, copy |-> c.copy, since |-> c.since]
                      ELSE [at |-> "cutting", cause |-> "reuse"])
    /\ UNCHANGED accountVars

\* The presented token is revoked after its successor was issued.
Retire(w) ==
    /\ At(w, "retiring")
    /\ tokens' = [tokens EXCEPT ![calls[w].old].active = FALSE]
    /\ Answer(w, calls[w].reply)
    /\ UNCHANGED <<user, link, code, invite, historyVars>>

---------------------------------------------------------------------------
(* Passwords forgotten. *)

RequestPasswordReset(w) ==
    /\ Found /\ link = "none"
    /\ Begin(w, [at |-> "answered", reply |-> Nobody])
    /\ link' = "active"
    /\ UNCHANGED <<user, tokens, code, invite, historyVars>>

UsesLink(w) == At(w, "redeeming") \/ At(w, "spending") \/ (At(w, "saving") /\ calls[w].then = "spending")

\* Mutant: isActive() is not asked.
LinkExists == link # "none"

LinkActive == link = "active"

ResetPassword(w) ==
    /\ LinkActive
    /\ Begin(w, [at |-> "redeeming"])
    /\ shared' = (shared \/ \E v \in Workers : UsesLink(v))
    /\ UNCHANGED <<rowVars, cuts, causes, linkUses, codeUses, codesSent, clobbered, failed>>

\* The user is read, then the new password hashed.
ReadForReset(w) ==
    /\ At(w, "redeeming")
    /\ IF Found THEN Proceed(w, Saving([password |-> started], "spending", "password"))
                ELSE Answer(w, Nobody)
    /\ UNCHANGED accountVars

SpendLink(w) ==
    /\ At(w, "spending")
    /\ link' = "used"
    /\ Proceed(w, [at |-> "cutting", cause |-> "password"])
    /\ UNCHANGED <<user, tokens, code, invite, historyVars>>

\* requestOtp, which asks for no account: a new code replaces the one before.
RequestOtp(w) ==
    /\ Begin(w, [at |-> "answered", reply |-> Nobody])
    /\ code' = 0
    /\ codesSent' = codesSent + 1
    /\ UNCHANGED <<user, tokens, link, invite, cuts, causes, linkUses, codeUses, shared, clobbered, failed>>

\* Mutant: no limit to the attempts at a code.
WrongOtpAgain(w) ==
    /\ code # NoCode
    /\ Begin(w, [at |-> "answered", reply |-> Nobody])
    /\ code' = code + 1
    /\ UNCHANGED <<user, tokens, link, invite, historyVars>>

\* verifyOtp, without an await: a wrong code counts, one try too many clears
\* the store.
WrongOtp(w) ==
    /\ code # NoCode
    /\ Begin(w, [at |-> "answered", reply |-> Nobody])
    /\ code' = IF code >= MaxAttempts THEN NoCode ELSE code + 1
    /\ UNCHANGED <<user, tokens, link, invite, historyVars>>

VerifyOtp(w, next) ==
    /\ code # NoCode /\ code < MaxAttempts
    /\ code' = NoCode
    /\ Begin(w, [at |-> next])
    /\ UNCHANGED <<user, tokens, link, invite, historyVars>>

\* verifyPhoneOtp and resetPasswordWithOtp go on to read the user.
ReadAfterOtp(w) ==
    /\ \/ At(w, "verified") /\ IF Found THEN Proceed(w, Saving(Keep, "done", "logout")) ELSE Answer(w, Nobody)
       \/ At(w, "resetting") /\ IF Found THEN Proceed(w, Saving([password |-> started], "cutting", "password"))
                                         ELSE Answer(w, Nobody)
    /\ UNCHANGED accountVars

---------------------------------------------------------------------------
(* Signing up, with or without an invitation to the admins' team. *)

Signup(w, roles) ==
    /\ ~Found
    /\ \E candidate \in {"redeem", "none"} :
           Begin(w, [at |-> "registering", roles |-> roles \cup {"renter"}, candidate |-> candidate])
    /\ UNCHANGED accountVars

FindInvite(w) ==
    /\ At(w, "registering")
    /\ LET redeem == calls[w].candidate = "redeem" /\ InviteActive
       IN  Proceed(w, [at |-> "inserting",
                       roles |-> calls[w].roles \cup (IF redeem THEN {"admin"} ELSE {}),
                       candidate |-> IF redeem THEN invite ELSE NoInvite])
    /\ UNCHANGED accountVars

\* The unique indexes on email and phone refuse the second of two, and an
\* address whose account was removed.
InsertUser(w) ==
    /\ At(w, "inserting")
    /\ LET c == calls[w]
           new == [status |-> "active", roles |-> c.roles, password |-> 0, deleted |-> FALSE]
       IN  IF user # NoUser THEN Answer(w, Nobody) /\ UNCHANGED user
           ELSE /\ user' = new
                /\ Proceed(w, IF c.candidate = NoInvite
                              THEN [at |-> "texting", copy |-> new, since |-> cuts]
                              ELSE [at |-> "accepting", copy |-> new, candidate |-> c.candidate, since |-> cuts])
    /\ UNCHANGED <<tokens, link, code, invite, historyVars>>

AcceptInvite(w) ==
    /\ At(w, "accepting")
    /\ LET c == calls[w]
       IN  /\ invite' = Merge(c.candidate, [accepted |-> TRUE])
           /\ clobbered' = (clobbered \/ invite # c.candidate)
           /\ Proceed(w, [at |-> "texting", copy |-> c.copy, since |-> c.since])
    /\ UNCHANGED <<user, tokens, link, code, cuts, causes, linkUses, codeUses, codesSent, shared, failed>>

\* The code that verifies the phone, whether or not it can be sent.
TextCode(w) ==
    /\ At(w, "texting")
    /\ code' = 0
    /\ codesSent' = codesSent + 1
    /\ LET c == calls[w]
       IN  Proceed(w, [at |-> "issuing", old |-> Nobody, copy |-> c.copy, since |-> c.since])
    /\ UNCHANGED <<user, tokens, link, invite, cuts, causes, linkUses, codeUses, shared, clobbered, failed>>

\* An account that exists gets the role at once.
InviteAdmin(w) ==
    /\ Begin(w, IF Found THEN addRole(w, "admin") ELSE [at |-> "inviting"])
    /\ UNCHANGED accountVars

InsertInvite(w) ==
    /\ At(w, "inviting")
    /\ IF invite = NoInvite THEN invite' = [accepted |-> FALSE, revoked |-> FALSE] ELSE UNCHANGED invite
    /\ Answer(w, Nobody)
    /\ UNCHANGED <<user, tokens, link, code, historyVars>>

RevokeInvite(w) ==
    /\ invite # NoInvite
    /\ Begin(w, [at |-> "revoking invite", copy |-> invite])
    /\ UNCHANGED accountVars

SaveRevoked(w) ==
    /\ At(w, "revoking invite")
    /\ invite' = Merge(calls[w].copy, [revoked |-> TRUE])
    /\ clobbered' = (clobbered \/ invite # calls[w].copy)
    /\ Answer(w, Nobody)
    /\ UNCHANGED <<user, tokens, link, code, cuts, causes, linkUses, codeUses, codesSent, shared, failed>>

---------------------------------------------------------------------------
\* A handler's next step.
Handle(w) ==
    \/ Save(w) \/ RevokeAllForUser(w)
    \/ Issue(w) \/ CheckUser(w) \/ Rotate(w) \/ Retire(w)
    \/ ReadForReset(w) \/ SpendLink(w) \/ ReadAfterOtp(w)
    \/ FindInvite(w) \/ InsertUser(w) \/ AcceptInvite(w) \/ TextCode(w)
    \/ InsertInvite(w) \/ SaveRevoked(w)

Busy(w) == calls[w] # Idle /\ ~At(w, "answered")

\* A query fails: 500, and what was done stays done.
Fail(w) ==
    /\ ~failed /\ failed' = TRUE
    /\ Busy(w)
    /\ Answer(w, Nobody)
    /\ UNCHANGED <<rowVars, cuts, causes, linkUses, codeUses, codesSent, shared, clobbered>>

\* The process restarts: the store of codes is empty.
Restart ==
    /\ ~failed /\ failed' = TRUE
    /\ calls' = [w \in Workers |-> IF Busy(w) THEN [at |-> "answered", reply |-> Nobody] ELSE calls[w]]
    /\ code' = NoCode
    /\ UNCHANGED <<started, user, tokens, link, invite, cuts, causes, linkUses, codeUses, codesSent,
                   shared, clobbered>>

---------------------------------------------------------------------------
(* Properties. *)

\* Once the handlers are through, a suspended account has no refresh token,
\* and no session was opened with a password of the past, but for a token
\* that was issued by a handler already on its way when all were revoked,
\* and in the second case for its descendants: no order of logins, rotations
\* and retries leaves another.  (An outdated save may undo the suspension or
\* the new password itself, a failure leaves the revocation out.)
SessionsCutOff ==
    (~clobbered /\ ~failed /\ \A w \in Workers : ~Busy(w)) =>
        \A t \in TokenIds : tokens[t].active =>
            /\ tokens[t].late \/ user.status = "active"
            /\ tokens[t].astray \/ tokens[t].password = user.password

\* A link sets one password unless two calls use it at a time or a failure
\* leaves it unspent, a one-time code never more than one.
OneResetEach ==
    /\ codeUses <= codesSent
    /\ linkUses <= 1 \/ shared \/ failed

\* Only setStatus lifts a suspension and only setRoles takes a role away,
\* unless a save is outdated; everyone stays a renter, come what may.
AccountStands ==
    [][user # NoUser =>
        /\ "renter" \in user'.roles
        /\ clobbered' \/ user.roles \subseteq user'.roles
              \/ \E w \in Workers : At(w, "saving") /\ "roles" \in DOMAIN calls[w].set
        /\ clobbered' \/ user.status = user'.status
              \/ \E w \in Workers : At(w, "saving") /\ "status" \in DOMAIN calls[w].set
        /\ clobbered' \/ (user.deleted => user'.deleted)
      ]_user
=============================================================================
