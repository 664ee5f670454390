--------------------------- MODULE BrowserSession ---------------------------
(***************************************************************************)
(* The browser's side of a session, api.js: the pages of one browser share *)
(* a localStorage, and each refreshes the access token on its own when a   *)
(* request comes back with 401.  Composed with Accounts, the server's      *)
(* side, and with admins who work on the same account.                     *)
(***************************************************************************)
EXTENDS Accounts

\* A tab stands for one thing at a time that a page waits for.  A page has one
\* refreshAccessToken in flight, but the handler of a form goes its own way
\* beside it, refreshSession included; such a page is two tabs, for all that
\* the two have in common is the localStorage and what was read from it.
CONSTANTS Tabs,    \* the browser's tabs, one page each at a time
          Staff    \* bound: the admins' requests that are handled at a time

ASSUME BrowserAssumption == Workers = Tabs \cup Staff /\ Tabs \cap Staff = {}

VARIABLES page,   \* what the page in a tab waits for
          held,   \* localStorage: the refresh token, if there is a session
          read,   \* `session' of the page: the refresh token when it was loaded
          fresh,  \* `tokens' of refreshSession: the refresh token it was given
          slips   \* history: what a page did that may set off the alarm

browserVars == <<page, held, read, fresh, slips>>
vars == <<calls, started, accountVars, browserVars>>

Refreshing == {"refreshing", "renewing"}
Waiting == Refreshing \cup {"signing in", "signing out", "saving"}

\* Two pages refreshed at a time; a page was left while it refreshed;
\* refreshSession kept a token when the answer was lost; a page wrote back a
\* token that is no longer the one in localStorage.
Slips == {"overlapped", "left", "kept", "restored"}

TypeOK ==
    /\ calls \in [Workers -> {Idle} \cup AccountCall]
    /\ started \in 0..MaxCalls
    /\ AccountTypeOK
    /\ page \in [Tabs -> {"closed", "open", "becoming", "reloading"} \cup Waiting]
    /\ held \in TokenIds \cup {Nobody}
    /\ read \in [Tabs -> TokenIds \cup {Nobody}]
    /\ fresh \in [Tabs -> TokenIds \cup {Nobody}]
    /\ slips \subseteq Slips

Init ==
    /\ calls = [w \in Workers |-> Idle]
    /\ started = 0
    /\ AccountInit
    /\ page = [t \in Tabs |-> "closed"]
    /\ held = IF Known(FirstToken) THEN FirstToken ELSE Nobody
    /\ read = [t \in Tabs |-> Nobody] /\ fresh = [t \in Tabs |-> Nobody]
    /\ slips = {}

Becomes(t, to, own, got) ==
    /\ page' = [page EXCEPT ![t] = to]
    /\ read' = [read EXCEPT ![t] = own]
    /\ fresh' = [fresh EXCEPT ![t] = got]

Turn(t, to) == Becomes(t, to, read[t], Nobody)
Closes(t) == Becomes(t, "closed", Nobody, Nobody)

Slipped(ways) == slips' = slips \cup ways

\* setSession with tokens of a while ago.
WriteBack(token) ==
    /\ held' = token
    /\ Slipped(IF token = held THEN {} ELSE {"restored"})

NoCall == UNCHANGED <<calls, started, accountVars>>

---------------------------------------------------------------------------
(* A page. *)

\* The form of auth.html.
SignIn(t) ==
    /\ page[t] = "closed"
    /\ Login(t) \/ \E roles \in SelfService : Signup(t, roles)
    /\ Turn(t, "signing in")
    /\ UNCHANGED <<held, slips>>

\* requireSession lets the page open, and is its `session' from now on.
Open(t) ==
    /\ page[t] = "closed" /\ held # Nobody
    /\ Becomes(t, "open", held, Nobody)
    /\ NoCall /\ UNCHANGED <<held, slips>>

\* POST /auth/refresh with the token in localStorage; another page that does
\* the same knows nothing of it.
Refreshes(t, to) ==
    /\ held # Nobody
    /\ Refresh(t, held)
    /\ Turn(t, to)
    /\ Slipped(IF \E v \in Tabs \ {t} : page[v] \in Refreshing THEN {"overlapped"} ELSE {})
    /\ UNCHANGED held

\* apiFetch got a 401.
RefreshAccessToken(t) == page[t] = "open" /\ Refreshes(t, "refreshing")

\* POST /providers/profile, which leaves a provider what he is; the form of
\* the renter's page goes on to refreshSession, for the new role.
BecomeProvider(t) ==
    /\ page[t] = "open" /\ held # Nobody
    /\ \/ createProfile(t)
       \/ Found /\ "provider" \in user.roles /\ NoCall
    /\ Turn(t, "becoming")
    /\ UNCHANGED <<held, slips>>

RefreshSession(t) == page[t] = "becoming" /\ Refreshes(t, "renewing")

\* GET /users/me, the second half of refreshSession.  With its answer the
\* tokens are written again, and the page goes to the provider's; when it
\* fails the page stays.
Reload(t) ==
    /\ page[t] = "reloading"
    /\ \/ WriteBack(fresh[t]) /\ Closes(t)
       \/ UNCHANGED <<held, slips>> /\ Turn(t, "open")
    /\ NoCall

\* The request failed, or nothing follows it: the page stays.
StayHere(t) ==
    /\ page[t] = "becoming"
    /\ Turn(t, "open")
    /\ NoCall /\ UNCHANGED <<held, slips>>

\* PATCH /users/me from the settings of the renter's page.
SaveSettings(t) ==
    /\ page[t] = "open" /\ held # Nobody
    /\ updateProfile(t)
    /\ Turn(t, "saving")
    /\ UNCHANGED <<held, slips>>

\* Somebody else cleared the session: apiFetch fails, the page goes to auth.
FindSessionGone(t) ==
    /\ page[t] \in {"open", "becoming"} /\ held = Nobody
    /\ Closes(t)
    /\ NoCall /\ UNCHANGED <<held, slips>>

\* apiLogout.
SignOut(t) ==
    /\ page[t] = "open"
    /\ Logout(t)
    /\ Turn(t, "signing out")
    /\ UNCHANGED <<held, slips>>

---------------------------------------------------------------------------
(* What a page makes of the answer. *)

Answered(t) == At(t, "answered")

Hears(t, where) ==
    /\ page[t] = where /\ Answered(t)
    /\ Proceed(t, Idle)
    /\ UNCHANGED accountVars

\* setSession, and on to the next page.
SignedIn(t) ==
    /\ Hears(t, "signing in")
    /\ held' = IF calls[t].reply = Nobody THEN held ELSE calls[t].reply
    /\ Closes(t)
    /\ UNCHANGED slips

\* setSession, or clearSession and on to auth.
Refreshed(t) ==
    /\ Hears(t, "refreshing")
    /\ held' = calls[t].reply
    /\ IF calls[t].reply = Nobody THEN Closes(t) ELSE Turn(t, "open")
    /\ UNCHANGED slips

\* A failure leaves the session alone.
Renewed(t) ==
    /\ Hears(t, "renewing")
    /\ LET reply == calls[t].reply
       IN  IF reply = Nobody THEN Turn(t, "open") /\ UNCHANGED held
           ELSE Becomes(t, "reloading", read[t], reply) /\ held' = reply
    /\ UNCHANGED slips

\* setSession with the tokens the page was loaded with, or an error.
Saved(t) ==
    /\ Hears(t, "saving")
    /\ WriteBack(read[t]) \/ UNCHANGED <<held, slips>>
    /\ Turn(t, "open")

SignedOut(t) ==
    /\ Hears(t, "signing out")
    /\ held' = Nobody
    /\ Closes(t)
    /\ UNCHANGED slips

Receive(t) == SignedIn(t) \/ Refreshed(t) \/ Renewed(t) \/ Saved(t) \/ SignedOut(t)

\* Mutant: only an answer clears the session.
KeepSession(t) ==
    /\ page[t] \in Waiting
    /\ Closes(t)
    /\ NoCall /\ UNCHANGED <<held, slips>>

\* The connection breaks: fetch rejects, like a failure.  The handler knows
\* nothing of it.
LoseConnection(t) ==
    /\ \/ page[t] = "signing in" /\ Closes(t) /\ UNCHANGED <<held, slips>>
       \/ page[t] \in {"refreshing", "signing out"} /\ Closes(t) /\ held' = Nobody /\ UNCHANGED slips
       \/ page[t] = "renewing" /\ Turn(t, "open") /\ UNCHANGED held /\ Slipped({"kept"})
       \/ page[t] = "saving" /\ Turn(t, "open") /\ UNCHANGED <<held, slips>>
    /\ NoCall

\* The tab is closed or sent elsewhere; the answer finds no page.
Leave(t) ==
    /\ page[t] # "closed"
    /\ Slipped(IF page[t] \in Refreshing THEN {"left"} ELSE {})
    /\ Closes(t)
    /\ NoCall /\ UNCHANGED held

\* Forms that leave the session alone.
UseForm(t) ==
    /\ \/ page[t] = "open" /\ VerifyOtp(t, "verified")
       \/ page[t] = "closed" /\ (ResetPassword(t) \/ VerifyOtp(t, "resetting"))
       \/ RequestPasswordReset(t) \/ RequestOtp(t) \/ WrongOtp(t)
    /\ UNCHANGED browserVars

\* What the admins' pages ask for.
Administer(s) ==
    /\ \/ \E roles \in RoleSets : setRoles(s, roles)
       \/ \E status \in AccountStatuses : setStatus(s, status)
       \/ removeAsAdmin(s) \/ RequestPasswordReset(s) \/ InviteAdmin(s) \/ RevokeInvite(s)
    /\ UNCHANGED browserVars

\* Nothing hangs on the answer.
Done(w) ==
    /\ At(w, "answered")
    /\ w \in Tabs => page[w] \notin Waiting
    /\ Proceed(w, Idle)
    /\ UNCHANGED <<accountVars, browserVars>>

Next ==
    \/ \E t \in Tabs :
           \/ SignIn(t) \/ Open(t) \/ RefreshAccessToken(t) \/ FindSessionGone(t) \/ SignOut(t)
           \/ BecomeProvider(t) \/ RefreshSession(t) \/ Reload(t) \/ StayHere(t) \/ SaveSettings(t)
           \/ Receive(t) \/ LoseConnection(t) \/ Leave(t) \/ UseForm(t)
    \/ \E s \in Staff : Administer(s)
    \/ \E w \in Workers :
           \/ Handle(w) /\ UNCHANGED browserVars
           \/ Fail(w) /\ UNCHANGED browserVars
           \/ Done(w)
    \/ Restart /\ UNCHANGED browserVars

Spec == Init /\ [][Next]_vars

---------------------------------------------------------------------------
(* Properties. *)

\* The alarm of rotateRefreshToken, which ends every session of the account,
\* is meant for a stolen token.  A browser sets it off itself only when two
\* pages refresh at a time, one is left while it refreshes, the answer to
\* refreshSession is lost, or tokens of a while ago are written back
\* (refreshSession after another page's refresh, the settings of the renter's
\* page after any) - or with a token that was revoked for another reason.  An
\* answer that apiFetch loses, a failed query and a restarted server do not.
ReuseAlarmIsEarned ==
    "reuse" \in causes => slips # {} \/ causes # {"reuse"}
=============================================================================
