----------------------------- MODULE Navigation -----------------------------
(***************************************************************************)
(* Where the web client takes its user: the guards that run before a page  *)
(* is shown, the layout of the authenticated pages, which waits for        *)
(* /auth/me before it lets a page ask for its data, the redirects of the   *)
(* response interceptor, which load the whole client anew, and the start   *)
(* of the client in the state an older version left behind.                *)
(*                                                                         *)
(* One tab.  A call to the API, the refresh it may need and its repetition *)
(* are one step (ClientRefresh has them in detail); so is the revocation   *)
(* of a user's tokens (Session has it).                                    *)
(***************************************************************************)
EXTENDS Integers, FiniteSets

VARIABLES
  path,      \* the page of the current location
  phase,     \* of the page: "entering" its guards, "shown", "mounted" in the layout
  loggedIn,  \* isAuthenticated in the store
  accessToken, \* the access token in the store
  me,        \* the cached answer of /auth/me
  calls,     \* the calls under way
  boot,      \* bootstrapAuth: "over", "running" before the client is shown, "late" after
  cookie,    \* the refresh token of the cookie is one the server takes
  account,   \* the account: must change its password, may see /users
  ready      \* the system has been set up

clientVars == <<path, phase, loggedIn, accessToken, me, calls, boot>>
navVars == <<clientVars, cookie, account, ready>>

\* Pages of the layout, one that asks for a permission and one that does not; pages
\* outside it ("open": / and the 404 page).
Framed == {"dashboard", "users"}
Page == Framed \cup {"login", "change-password", "403", "setup", "open"}

Account == [must : BOOLEAN, perm : BOOLEAN]
NoMe == [state |-> "none", must |-> FALSE, perm |-> FALSE]

NavTypeOK ==
  /\ path \in Page /\ phase \in {"entering", "shown", "mounted"}
  /\ loggedIn \in BOOLEAN
  /\ accessToken \in {"none", "good", "marked", "dead"}   \* "marked": mustChangePassword in its claims
  /\ me \in [state : {"none", "loading", "known", "failed"}, must : BOOLEAN, perm : BOOLEAN]
  /\ calls \subseteq {"me", "content", "status"}
  /\ boot \in {"over", "running", "late"}
  /\ cookie \in BOOLEAN /\ account \in Account /\ ready \in BOOLEAN

\* Not logged in, or logged in by a version that did not keep the token.
NavInit ==
  /\ path \in {"login", "users", "setup"} /\ phase = "entering"
  /\ loggedIn \in BOOLEAN /\ accessToken = "none" /\ me = NoMe /\ calls = {}
  /\ boot = IF loggedIn THEN "running" ELSE "over"
  /\ cookie \in {FALSE, loggedIn}
  /\ account \in [must : BOOLEAN, perm : {TRUE}] /\ ready \in BOOLEAN
  /\ loggedIn => ready

-----------------------------------------------------------------------------
Stay == UNCHANGED <<loggedIn, accessToken, me, calls, boot>>
Enter(p) == path' = p /\ phase' = "entering"
\* authRedirect.to, a typed address, a reload: what is not in the store is gone.
Load(p, in, t) ==
  /\ Enter(p) /\ loggedIn' = in /\ accessToken' = t /\ me' = NoMe /\ calls' = {}
  /\ boot' = IF in /\ t = "none" THEN "running" ELSE "over"
\* clearUserScopedState.
Cleared == loggedIn' = FALSE /\ accessToken' = "none" /\ me' = NoMe
WorldStays == UNCHANGED <<cookie, account, ready>>

\* Faulty: the login page asks only for the mark of a login.
MayEnterUnlessMarked(p) ==
  CASE p \in Framed \cup {"change-password"} -> loggedIn /\ accessToken # "none"
    [] p = "login"                           -> ~loggedIn
    [] OTHER                                 -> TRUE

\* requireAuth, and the guard of the login page.
MayEnter(p) ==
  CASE p \in Framed \cup {"change-password"} -> loggedIn /\ accessToken # "none"
    [] p = "login"                           -> ~(loggedIn /\ accessToken # "none")
    [] OTHER                                 -> TRUE

\* Outside the layout a failed /auth/me leaves no trace: the layout asks again.
BeforeLoad ==
  /\ phase = "entering" /\ boot # "running"
  /\ IF MayEnter(path) THEN phase' = "shown" /\ UNCHANGED path
                       ELSE Enter(IF path = "login" THEN "dashboard" ELSE "login")
  /\ me' = IF MayEnter(path) /\ path \notin Framed /\ me.state = "failed" THEN NoMe ELSE me
  /\ UNCHANGED <<loggedIn, accessToken, calls, boot>> /\ WorldStays

\* AuthenticatedLayout: first the login, then the forced change, then the permission.
Lacks(p) == p = "users" /\ ~me.perm
LayoutTarget ==
  CASE ~loggedIn                                     -> "login"
    [] me.state = "known" /\ me.must                 -> "change-password"
    [] me.state = "known" /\ ~me.must /\ Lacks(path) -> "403"
    [] OTHER                                         -> path

LayoutRedirects ==
  /\ path \in Framed /\ phase # "entering" /\ LayoutTarget # path
  /\ Enter(LayoutTarget)
  /\ Stay /\ WorldStays

\* useCurrentUser, while there is a token.
LayoutAsks ==
  /\ path \in Framed /\ phase # "entering" /\ loggedIn
  /\ me.state = "none" /\ accessToken # "none"
  /\ me' = [NoMe EXCEPT !.state = "loading"] /\ calls' = calls \cup {"me"}
  /\ UNCHANGED <<path, phase, loggedIn, accessToken, boot>> /\ WorldStays

\* The page itself, which asks for its data.
MountPage ==
  /\ path \in Framed /\ phase = "shown" /\ LayoutTarget = path /\ me.state = "known"
  /\ phase' = "mounted" /\ calls' = calls \cup {"content"}
  /\ UNCHANGED <<path, loggedIn, accessToken, me, boot>> /\ WorldStays

\* The effects of the other two pages.
ChangePageLeaves ==
  /\ path = "change-password" /\ phase = "shown" /\ ~loggedIn
  /\ Enter("login") /\ Stay /\ WorldStays

SetupAsks ==
  /\ path = "setup" /\ phase = "shown"
  /\ phase' = "mounted" /\ calls' = calls \cup {"status"}
  /\ UNCHANGED <<path, loggedIn, accessToken, me, boot>> /\ WorldStays

\* An answer up to 30 s old may be used.
SetupAnswers ==
  /\ "status" \in calls
  /\ \E initialized \in {ready, FALSE} :
       IF initialized /\ path = "setup" THEN Enter("login") ELSE UNCHANGED <<path, phase>>
  /\ calls' = calls \ {"status"}
  /\ UNCHANGED <<loggedIn, accessToken, me, boot>> /\ WorldStays

-----------------------------------------------------------------------------
(* A call with the token of the store.  The guard lets a marked token change the
   password, read /auth/me and log out.  Any other 401 is followed by a refresh, but for
   the one of the forced change on another page; a refresh is refused to who must change
   the password, and its token not used after a logout. *)
Verdict(exempt) ==
  CASE accessToken = "good" \/ (accessToken = "marked" /\ exempt)                  -> "ok"
    [] accessToken = "marked" /\ ~exempt /\ path # "change-password"               -> "must"
    [] accessToken \in {"none", "dead", "marked"} /\ cookie /\ account.must        -> "must"
    [] accessToken \in {"none", "dead", "marked"} /\ cookie /\ ~account.must       ->
         IF loggedIn THEN "renewed" ELSE "dropped"
    [] OTHER                                                                       -> "refused"

Passes(exempt) == Verdict(exempt) \in {"ok", "renewed"}
Renewed(exempt) == IF Verdict(exempt) = "renewed" THEN "good" ELSE accessToken

\* What the interceptor makes of a 401: the way to the forced change, which leaves the
\* login as it is, or the end of the login.
Turned(call, exempt) ==
  \/ /\ Verdict(exempt) = "must"
     /\ IF path = "change-password"
          THEN /\ calls' = calls \ {call} /\ me' = IF call = "me" THEN NoMe ELSE me
               /\ UNCHANGED <<path, phase, loggedIn, accessToken, boot>>
          ELSE Load("change-password", loggedIn, accessToken)
  \/ Verdict(exempt) = "refused" /\ Load("login", FALSE, "none")
  \/ /\ Verdict(exempt) = "dropped" /\ calls' = calls \ {call}
     /\ UNCHANGED <<path, phase, loggedIn, accessToken, me, boot>>

MeAnswers ==
  /\ "me" \in calls
  /\ \/ /\ Passes(TRUE) /\ accessToken' = Renewed(TRUE)
        /\ me' = IF me.state = "none" THEN me   \* cleared meanwhile
                 ELSE [state |-> "known", must |-> account.must, perm |-> account.perm]
        /\ calls' = calls \ {"me"}
        /\ UNCHANGED <<path, phase, loggedIn, boot>>
     \/ Turned("me", TRUE)
  /\ WorldStays

\* The network fails three times: an error page with a button.
MeFails ==
  /\ "me" \in calls
  /\ me' = IF me.state = "none" \/ path \notin Framed THEN NoMe
           ELSE [NoMe EXCEPT !.state = "failed"]
  /\ phase' = IF phase = "mounted" /\ path \in Framed THEN "shown" ELSE phase
  /\ calls' = calls \ {"me"}
  /\ UNCHANGED <<path, loggedIn, accessToken, boot>> /\ WorldStays

\* A 403 for a page leads to /403; the dashboard shows it in its place.
ContentAnswers ==
  /\ "content" \in calls
  /\ \/ /\ Passes(FALSE)
        /\ IF path = "users" /\ ~account.perm
             THEN Load("403", loggedIn, Renewed(FALSE))
             ELSE /\ accessToken' = Renewed(FALSE) /\ calls' = calls \ {"content"}
                  /\ UNCHANGED <<path, phase, loggedIn, me, boot>>
     \/ Turned("content", FALSE)
  /\ WorldStays

ContentFails ==
  /\ "content" \in calls /\ calls' = calls \ {"content"}
  /\ UNCHANGED <<path, phase, loggedIn, accessToken, me, boot>> /\ WorldStays

\* bootstrapAuth waits for its refresh; the client is shown after 3 s at the latest.
BootEnds ==
  /\ boot # "over" /\ boot' = "over"
  /\ \/ cookie /\ ~account.must /\ accessToken' = "good" /\ UNCHANGED <<loggedIn, me, calls>>
     \/ Cleared /\ UNCHANGED calls
  /\ UNCHANGED <<path, phase>> /\ WorldStays

BootIsLate ==
  /\ boot = "running" /\ boot' = "late"
  /\ UNCHANGED <<path, phase, loggedIn, accessToken, me, calls>> /\ WorldStays

CallsAnswered ==
  \/ BeforeLoad \/ LayoutRedirects \/ LayoutAsks \/ MountPage \/ ChangePageLeaves
  \/ SetupAsks \/ SetupAnswers \/ MeAnswers \/ ContentAnswers \/ BootEnds
Automatic == CallsAnswered \/ MeFails \/ ContentFails \/ BootIsLate

-----------------------------------------------------------------------------
\* A link, a typed address or a reload.
Go(p) ==
  /\ phase # "entering" /\ boot # "running"
  /\ \/ Enter(p) /\ Stay
     \/ Load(p, loggedIn, accessToken)
  /\ WorldStays

\* The button of the error page; me asked again because it is 30 s old.
AskMeAgain ==
  /\ path \in Framed /\ phase # "entering" /\ me.state \in {"known", "failed"}
  /\ loggedIn /\ accessToken # "none"
  /\ calls' = calls \cup {"me"}
  /\ UNCHANGED <<path, phase, loggedIn, accessToken, me, boot>> /\ WorldStays

\* LoginPage, onLoginSubmit: where it goes is what the answer says of the account.
HandleLogin ==
  /\ path = "login" /\ phase = "shown" /\ ready
  /\ loggedIn' = TRUE /\ accessToken' = IF account.must THEN "marked" ELSE "good"
  /\ cookie' = TRUE
  /\ Enter(IF account.must THEN "change-password" ELSE "dashboard")
  /\ UNCHANGED <<me, calls, boot, account, ready>>

\* handleLogout: the server's answer does not matter, and a 401 is not renewed.
HandleLogout ==
  /\ path \in Framed /\ phase = "mounted" /\ me.state = "known"
  /\ cookie' \in {cookie, cookie /\ accessToken = "dead"}
  /\ Cleared /\ Enter("login")
  /\ UNCHANGED <<calls, boot, account, ready>>

\* ChangePasswordPage, handleSubmit: the server revokes every token.
SubmitChange ==
  /\ path = "change-password" /\ phase = "shown" /\ loggedIn
  /\ \/ /\ Passes(TRUE)
        /\ account' = [account EXCEPT !.must = FALSE] /\ cookie' = FALSE
        /\ Cleared /\ Enter("login")
        /\ UNCHANGED <<calls, boot, ready>>
     \/ Turned("password", TRUE) /\ WorldStays

\* SetupPage, onSubmit.
SubmitSetup ==
  /\ path = "setup" /\ phase = "mounted" /\ ~ready
  /\ ready' = TRUE /\ Enter("login")
  /\ Stay /\ UNCHANGED <<cookie, account>>

UserActs ==
  \/ \E p \in Page : Go(p)
  \/ AskMeAgain \/ HandleLogin \/ HandleLogout \/ SubmitChange \/ SubmitSetup

-----------------------------------------------------------------------------
Killed == IF accessToken \in {"good", "marked"} THEN "dead" ELSE accessToken

\* The access token lives 15 min, the refresh token 7 d, a rotated one of another tab
\* or a revocation ends it.
TokenEnds ==
  /\ accessToken' = Killed
  /\ UNCHANGED <<path, phase, loggedIn, me, calls, boot>> /\ WorldStays

CookieEnds ==
  /\ cookie' = FALSE /\ UNCHANGED <<clientVars, account, ready>>

\* An administrator sets a new password, or the mark alone, and either revokes every
\* token; or takes the mark back, which changes no token; a grant is given or taken.
Reset ==
  /\ account' = [account EXCEPT !.must = TRUE] /\ cookie' = FALSE /\ accessToken' = Killed
  /\ UNCHANGED <<path, phase, loggedIn, me, calls, boot, ready>>

Unmark ==
  /\ account.must /\ account' = [account EXCEPT !.must = FALSE]
  /\ UNCHANGED <<clientVars, cookie, ready>>

GrantTurns ==
  /\ account' = [account EXCEPT !.perm = ~@] /\ UNCHANGED <<clientVars, cookie, ready>>

NavNext ==
  \/ Automatic \/ UserActs
  \/ TokenEnds \/ CookieEnds \/ Reset \/ Unmark \/ GrantTurns

NavFairness == WF_navVars(Automatic)
NavSpec == NavInit /\ [][NavNext]_navVars /\ NavFairness

-----------------------------------------------------------------------------
\* Nothing is under way and no redirect is due.
Settled ==
  /\ phase # "entering" /\ calls = {} /\ boot = "over"
  /\ path \in Framed =>
       /\ loggedIn /\ LayoutTarget = path
       /\ me.state = "failed" \/ (me.state = "known" /\ phase = "mounted")
  /\ path = "change-password" => loggedIn

(* Whatever the store, the cookie and the account say of each other, the redirects of
   the guards, of the layout and of the interceptor come to an end: unless the user
   goes on acting, a page stays, with nothing outstanding. *)
Settles == []<><<UserActs>>_navVars \/ <>[]Settled

\* A user who waits for a page and then keeps trying, on a network that answers, while
\* no administrator acts and the cookie lives; an access token may end.
PatientNext == CallsAnswered \/ (Settled /\ UserActs) \/ TokenEnds
PatientSpec ==
  /\ NavInit /\ [][PatientNext]_navVars /\ WF_navVars(CallsAnswered)
  /\ SF_navVars(Settled /\ HandleLogin) /\ SF_navVars(Settled /\ HandleLogout)
  /\ SF_navVars(Settled /\ SubmitChange) /\ SF_navVars(Settled /\ Go("login"))
  /\ SF_navVars(Settled /\ Go("dashboard"))

(* auth.service.ts:231 has it that who must change the password is refused a renewal and
   so forced to log in again and to change it: a user who keeps trying then ends the
   login or the mark. *)
ForcedChangeEnds == (loggedIn /\ account.must) ~> (~loggedIn \/ ~account.must)
=============================================================================
