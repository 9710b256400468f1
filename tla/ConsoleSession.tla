--------------------------- MODULE ConsoleSession ---------------------------
(***************************************************************************)
(* The administrator's session in the web console: the tabs of one browser *)
(* share one HttpOnly session cookie, and every tab keeps its own belief   *)
(* about it.  web/src/lib/auth-session.ts decides from the server's answer *)
(* whether the tab is signed in, http-client.ts turns a 401 into one such  *)
(* question and one retry, pbr-auth.ts signs in and out,                   *)
(* auth-session-sync.ts and routes/__root.tsx tell the other tabs, and the *)
(* route guards send the user to the page that fits.                       *)
(*                                                                         *)
(* A cookie is the generation of the administrator credential that signed  *)
(* it (0: no cookie).  Changing the password changes the generation, and   *)
(* with it every cookie in circulation dies.  The server keeps no table of *)
(* sessions: a cookie is valid exactly when its generation is the current  *)
(* one (internal/session/session.go).                                      *)
(*                                                                         *)
(* A request is answered when it is sent and the answer arrives in a later *)
(* step: its Set-Cookie header and the code after the await act then.      *)
(* The module counter authEpoch is kept as the flag "current" of the one   *)
(* refresh a tab can have: isCurrent() holds exactly until the next        *)
(* applyAuthBundle or clearAuthentication of that tab.  The branches for   *)
(* 409 answers are left out: GET /api/v1/auth/session never answers 409.   *)
(* The hint cookie pbr_has_session is never written by the server, so the  *)
(* root guard of a tab that holds nothing returns without asking, and the  *)
(* root guard of a tab that holds a bundle asks what the route guard asks. *)
(***************************************************************************)
EXTENDS Naturals, Sequences, FiniteSets

CONSTANTS
    Tabs,         \* the open tabs of one browser
    MaxSecret,    \* bound: generations of the administrator credential
    MaxEvents,    \* bound: events on their way from one tab to another
    MaxMoves      \* bound: moves of the user, the clock and the network

ASSUME TabsAssumption == Tabs # {} /\ IsFiniteSet(Tabs)
ASSUME BoundsAssumption == MaxSecret \in Nat \ {0} /\ MaxEvents \in Nat \ {0} /\ MaxMoves \in Nat

VARIABLES
    secret,       \* server: generation of the administrator credential
    cookie,       \* browser: generation that signed the session cookie, or 0
    hasLocks,     \* browser: navigator.locks exists (secure context only)
    tab,          \* tab[t]: everything tab t has in memory
    events,       \* events[s][t]: BroadcastChannel, from tab s to tab t
    moves,        \* what the user, the clock and the network did so far
    signedOut,    \* history: t signed out and nobody signed in since
    fresh         \* history: t signed in and nobody ended that session since

vars == <<secret, cookie, hasLocks, tab, events, moves, signedOut, fresh>>

Generation == 1 .. MaxSecret
Routes == {"app", "signIn"}
Verdicts == {"authenticated", "stale", "anonymous", "unavailable", "unexpected"}

\* auth: user, accessToken and session, which are set and cleared together;
\*   "expired" once accessExpiresAt has passed.
\* guard: the route guard is "entering" (about to call resolveAuthentication),
\*   "awaiting" refreshPromise, "deciding" (reading the store), or done.
\* refresh: refreshPromise, "queued" for the browser lock, "asked" with the
\*   verdict on its way, "discarding" a stale cookie.
\* request: an API request, "sent", "waiting" for refreshPromise, or "resent".
\* op: the sign-in form ("clearing", then "login" with the generation of the
\*   cookie it was given, 0 when refused) or the sign-out dialog.
Tab == [auth : {"none", "held", "expired"},
        boot : {"idle", "checking", "complete"},
        at : Routes,
        guard : {"entering", "awaiting", "deciding", "none"},
        listening : BOOLEAN,
        refresh : {"none", "queued", "asked", "discarding"},
        current : BOOLEAN,
        verdict : Verdicts,
        request : {"none", "sent", "waiting", "resent"},
        rejected : BOOLEAN,
        clears : BOOLEAN,
        op : {"none", "clearing", "login", "signOut"},
        gen : 0 .. MaxSecret,
        sid : BOOLEAN]

\* A page that is loaded anew: nothing of the tab's memory survives.
Loaded(route) ==
    [auth |-> "none", boot |-> "idle", at |-> route, guard |-> "entering",
     listening |-> FALSE, refresh |-> "none", current |-> TRUE,
     verdict |-> "anonymous", request |-> "none", rejected |-> FALSE,
     clears |-> FALSE, op |-> "none", gen |-> 0, sid |-> FALSE]

\* A tab that has been in use: it was signed in when it last looked.
Working ==
    [Loaded("app") EXCEPT !.auth = "held", !.boot = "complete", !.guard = "none",
                          !.listening = TRUE]

\* The tabs are all being opened or all in use, and the browser has the cookie
\* of an earlier login, alive or dead.
Init ==
    /\ secret \in Generation
    /\ cookie \in 1 .. secret
    /\ hasLocks \in BOOLEAN
    /\ tab \in [Tabs -> {Loaded(r) : r \in Routes}] \cup {[t \in Tabs |-> Working]}
    /\ events = [s \in Tabs |-> [t \in Tabs |-> <<>>]]
    /\ moves = 0
    /\ signedOut = [t \in Tabs |-> FALSE]
    /\ fresh = [t \in Tabs |-> FALSE]

\* One more move of the environment, as long as the bound allows it.
Move == moves < MaxMoves /\ moves' = moves + 1

NobodyFresh == [t \in Tabs |-> FALSE]
SignedIn(s) == s.auth # "none"

-----------------------------------------------------------------------------
(* The server (internal/api/system.go, middleware/pbr_auth.go).            *)

\* GET /api/v1/auth/session with the cookie the browser holds now.
SessionStatus ==
    IF cookie = 0 THEN "anonymous"
    ELSE IF cookie = secret THEN "authenticated" ELSE "stale"

\* POST /api/v1/auth/password from another browser or a script.
ChangePassword ==
    /\ Move
    /\ secret < MaxSecret
    /\ secret' = secret + 1
    /\ fresh' = NobodyFresh
    /\ UNCHANGED <<cookie, hasLocks, tab, events, signedOut>>

\* The browser drops the cookie when its Max-Age has passed.
CookieExpires ==
    /\ Move
    /\ cookie # 0
    /\ cookie' = 0
    /\ fresh' = NobodyFresh
    /\ UNCHANGED <<secret, hasLocks, tab, events, signedOut>>

-----------------------------------------------------------------------------
(* Events between tabs: only a tab whose root component is mounted has a   *)
(* channel open, and a reload closes it with everything it had not read.   *)

Post(ev, t, kind) ==
    [ev EXCEPT ![t] = [u \in Tabs |->
        IF u # t /\ tab[u].listening THEN Append(@[u], kind) ELSE @[u]]]

Close(ev, t) == [s \in Tabs |-> [ev[s] EXCEPT ![t] = <<>>]]

Room(t) == \A u \in Tabs : Len(events[t][u]) < MaxEvents

-----------------------------------------------------------------------------
(* The auth store and the refresh (auth-session.ts), as functions of a tab *)

\* Mutant of ApplyAuthBundle: the check is marked with the outcome.
ApplyAuthBundleMarked(s) ==
    [s EXCEPT !.auth = "held", !.boot = "authenticated", !.current = FALSE]

ApplyAuthBundle(s) ==
    [s EXCEPT !.auth = "held", !.boot = "complete", !.current = FALSE]

\* Mutant of ClearAuthentication: authEpoch is not bumped.
ClearAuthenticationSameEpoch(s) == [s EXCEPT !.auth = "none", !.boot = "complete"]

ClearAuthentication(s) ==
    [s EXCEPT !.auth = "none", !.boot = "complete", !.current = FALSE]

\* One promise per tab, shared by every caller until it settles.
RefreshAuthentication(s) ==
    IF s.refresh = "none" THEN [s EXCEPT !.refresh = "queued", !.current = TRUE] ELSE s

\* An API request goes out with the cookie the browser holds now.
SentRequest(s, phase) ==
    [s EXCEPT !.request = phase, !.rejected = (cookie # secret),
              !.clears = (cookie \notin {0, secret})]

\* What run() does to the store with an answer that is still current.
Accept(s, verdict) ==
    CASE verdict = "authenticated" -> ApplyAuthBundle(s)
      [] verdict \in {"stale", "anonymous", "unexpected"} -> ClearAuthentication(s)
      [] verdict = "unavailable" -> [s EXCEPT !.boot = "idle"]

\* Mutant of Settle: an awaiting guard only goes on when signed in.
SettleGuardWaits(s, outcome) ==
    [s EXCEPT !.refresh = "none", !.current = TRUE, !.verdict = "anonymous",
              !.request = "none",
              !.guard = IF @ = "awaiting" /\ outcome = "authenticated" THEN "deciding" ELSE @]

\* The promise settles and every caller of the tab goes on: a guard reads the
\* store; a request repeats itself when signed in, fails after a transient
\* error, and otherwise replaces the page by the sign-in page.
Settle(s, outcome) ==
    LET done == [s EXCEPT !.refresh = "none", !.current = TRUE, !.verdict = "anonymous",
                          !.guard = IF @ = "awaiting" THEN "deciding" ELSE @]
    IN  IF s.request # "waiting" THEN done
        ELSE IF outcome = "authenticated" THEN SentRequest(done, "resent")
        ELSE IF outcome \in {"superseded", "unavailable"} \/ s.at = "signIn"
             THEN [done EXCEPT !.request = "none"]
        ELSE Loaded("signIn")

Conclude(t, verdict) ==
    LET s == tab[t]
        outcome == IF s.current THEN verdict ELSE "superseded"
        after == Settle(IF s.current THEN Accept(s, verdict) ELSE s, outcome)
        posted == IF outcome \in {"stale", "anonymous"} /\ SignedIn(s)
                  THEN Post(events, t, "signed_out") ELSE events
    IN  /\ tab' = [tab EXCEPT ![t] = after]
        /\ events' = IF after = Loaded("signIn") THEN Close(posted, t) ELSE posted

\* The lock is held from the question to the end of the refresh.
LockFree(t) ==
    hasLocks => \A u \in Tabs \ {t} : tab[u].refresh \notin {"asked", "discarding"}

Asked(t, verdict) == tab' = [tab EXCEPT ![t].refresh = "asked", ![t].verdict = verdict]

\* A refresh that is superseded before it has the lock does not ask at all.
AskSession(t) ==
    /\ tab[t].refresh = "queued"
    /\ LockFree(t)
    /\ \/ /\ ~tab[t].current
          /\ Conclude(t, "superseded")
          /\ UNCHANGED moves
       \/ /\ tab[t].current
          /\ \/ Asked(t, SessionStatus) /\ UNCHANGED moves
             \/ \E v \in {"unavailable", "unexpected"} : Asked(t, v) /\ Move
          /\ UNCHANGED events
    /\ UNCHANGED <<secret, cookie, hasLocks, signedOut, fresh>>

\* A stale answer carries the order to drop the cookie, and requestRefresh
\* signs out once more before it returns.
SessionAnswer(t) ==
    /\ tab[t].refresh = "asked"
    /\ Room(t)
    /\ IF tab[t].verdict = "stale"
       THEN /\ cookie' = 0
            /\ tab' = [tab EXCEPT ![t].refresh = "discarding"]
            /\ UNCHANGED events
       ELSE Conclude(t, tab[t].verdict) /\ UNCHANGED cookie
    /\ UNCHANGED <<secret, hasLocks, moves, signedOut, fresh>>

\* pbrLogout swallows a network error: the answer clears the cookie or is lost.
LogoutAnswer ==
    \/ cookie' = 0 /\ UNCHANGED moves
    \/ Move /\ UNCHANGED cookie

DiscardAnswer(t) ==
    /\ tab[t].refresh = "discarding"
    /\ Room(t)
    /\ LogoutAnswer
    /\ Conclude(t, "stale")
    /\ UNCHANGED <<secret, hasLocks, signedOut, fresh>>

-----------------------------------------------------------------------------
(* Route guards: routes/__root.tsx, _authenticated/route.tsx, sign-in.tsx. *)

\* resolveAuthentication
EnterGuard(t) ==
    LET s == tab[t] IN
    /\ s.guard = "entering"
    /\ tab' = [tab EXCEPT ![t] =
         CASE s.auth = "held" -> [s EXCEPT !.boot = "complete", !.guard = "deciding"]
           [] s.auth = "none" /\ s.boot = "complete" -> [s EXCEPT !.guard = "deciding"]
           [] OTHER -> RefreshAuthentication(
                           [s EXCEPT !.boot = "checking", !.guard = "awaiting"])]
    /\ UNCHANGED <<secret, cookie, hasLocks, events, moves, signedOut, fresh>>

\* The application needs a user, the sign-in page needs that there is none.
\* Once a route is admitted the root component is mounted.
DecideGuard(t) ==
    LET s == tab[t] IN
    /\ s.guard = "deciding"
    /\ tab' = [tab EXCEPT ![t] =
         IF (s.at = "app") = SignedIn(s)
         THEN [s EXCEPT !.guard = "none", !.listening = TRUE]
         ELSE [s EXCEPT !.at = IF @ = "app" THEN "signIn" ELSE "app",
                        !.guard = "entering"]]
    /\ UNCHANGED <<secret, cookie, hasLocks, events, moves, signedOut, fresh>>

\* The user follows a link inside the console.
Navigate(t, route) ==
    /\ Move
    /\ tab[t].guard = "none"
    /\ tab[t].op = "none"
    /\ tab[t].at # route
    /\ tab' = [tab EXCEPT ![t].at = route, ![t].guard = "entering"]
    /\ UNCHANGED <<secret, cookie, hasLocks, events, signedOut, fresh>>

\* The user reloads the page, or closes the tab and opens another.
ReloadPage(t) ==
    /\ Move
    /\ tab[t].listening
    /\ tab' = [tab EXCEPT ![t] = Loaded(@.at)]
    /\ events' = Close(events, t)
    /\ UNCHANGED <<secret, cookie, hasLocks, signedOut, fresh>>

\* The bundle lives 7 days; a tab that stays open outlives it.
BundleExpires(t) ==
    /\ Move
    /\ tab[t].auth = "held"
    /\ tab' = [tab EXCEPT ![t].auth = "expired"]
    /\ UNCHANGED <<secret, cookie, hasLocks, events, signedOut, fresh>>

-----------------------------------------------------------------------------
(* API requests: http-client.ts.  Some pages poll, the others send a       *)
(* request only when the user does something.                              *)

\* The guard admitted the tab to a page of the application.
InApp(s) == s.at = "app" /\ s.guard = "none"

SendRequest(t) ==
    /\ InApp(tab[t])
    /\ tab[t].request = "none"
    /\ tab' = [tab EXCEPT ![t] = SentRequest(@, "sent")]
    /\ UNCHANGED <<secret, cookie, hasLocks, events, moves, signedOut, fresh>>

\* Mutant of RequestAnswer: a 401 is an error like any other.
RequestAnswerUnheeded(t) ==
    /\ tab[t].request \in {"sent", "resent"}
    /\ cookie' = IF tab[t].clears THEN 0 ELSE cookie
    /\ tab' = [tab EXCEPT ![t].request = "none"]
    /\ UNCHANGED <<secret, hasLocks, events, moves, signedOut, fresh>>

\* The first 401 asks for a refresh; the 401 of the repeated request ends the
\* session of the tab.  A 401 for a dead cookie orders the browser to drop it.
RequestAnswer(t) ==
    LET s == tab[t]
        ended == ClearAuthentication([s EXCEPT !.request = "none"])
    IN
    /\ s.request \in {"sent", "resent"}
    /\ cookie' = IF s.clears THEN 0 ELSE cookie
    /\ \/ /\ ~s.rejected
          /\ tab' = [tab EXCEPT ![t].request = "none"]
          /\ UNCHANGED events
       \/ /\ s.rejected /\ s.request = "sent"
          /\ tab' = [tab EXCEPT ![t] =
                        RefreshAuthentication([s EXCEPT !.request = "waiting"])]
          /\ UNCHANGED events
       \/ /\ s.rejected /\ s.request = "resent"
          /\ tab' = [tab EXCEPT ![t] = IF s.at = "signIn" THEN ended ELSE Loaded("signIn")]
          /\ events' = IF s.at = "signIn" THEN events ELSE Close(events, t)
    /\ UNCHANGED <<secret, hasLocks, moves, signedOut, fresh>>

-----------------------------------------------------------------------------
(* Signing in and out: user-auth-form.tsx, pbr-auth.ts, use-auth-redirect, *)
(* sign-out-dialog.tsx.                                                    *)

\* pbrLogin signs out first, whatever cookie the browser holds.
SubmitLogin(t) ==
    /\ Move
    /\ tab[t].at = "signIn" /\ tab[t].guard = "none"
    /\ tab[t].op = "none"
    /\ tab' = [tab EXCEPT ![t].op = "clearing", ![t].sid = SignedIn(tab[t])]
    /\ fresh' = NobodyFresh
    /\ UNCHANGED <<secret, cookie, hasLocks, events, signedOut>>

LoginCleared(t) ==
    /\ tab[t].op = "clearing"
    /\ LogoutAnswer
    /\ \E gen \in {0, secret} : tab' = [tab EXCEPT ![t].op = "login", ![t].gen = gen]
    /\ fresh' = NobodyFresh
    /\ UNCHANGED <<secret, hasLocks, events, signedOut>>

\* A refused login changes nothing more.  An accepted one brings a cookie and,
\* when the session of the tab did not change meanwhile, a bundle.
LoginAnswer(t) ==
    LET s == [tab[t] EXCEPT !.op = "none", !.gen = 0, !.sid = FALSE]
        gen == tab[t].gen
        applies == gen # 0 /\ SignedIn(s) = tab[t].sid
    IN
    /\ tab[t].op = "login"
    /\ Room(t)
    /\ cookie' = IF gen = 0 THEN cookie ELSE gen
    /\ tab' = [tab EXCEPT ![t] =
         IF applies THEN [ApplyAuthBundle(s) EXCEPT !.at = "app", !.guard = "entering"] ELSE s]
    /\ events' = IF applies /\ ~SignedIn(s) THEN Post(events, t, "authenticated") ELSE events
    /\ signedOut' = IF gen = 0 THEN signedOut ELSE [u \in Tabs |-> FALSE]
    /\ fresh' = [fresh EXCEPT ![t] = applies /\ gen = secret]
    /\ UNCHANGED <<secret, hasLocks, moves>>

SubmitSignOut(t) ==
    /\ Move
    /\ InApp(tab[t])
    /\ tab[t].op = "none"
    /\ tab' = [tab EXCEPT ![t].op = "signOut"]
    /\ fresh' = NobodyFresh
    /\ UNCHANGED <<secret, cookie, hasLocks, events, signedOut>>

\* The tab forgets its session whether or not the server was reached.
SignOutAnswer(t) ==
    LET s == [tab[t] EXCEPT !.op = "none"] IN
    /\ tab[t].op = "signOut"
    /\ Room(t)
    /\ LogoutAnswer
    /\ tab' = [tab EXCEPT ![t] =
                  [ClearAuthentication(s) EXCEPT !.at = "signIn", !.guard = "entering"]]
    /\ events' = IF SignedIn(s) THEN Post(events, t, "signed_out") ELSE events
    /\ signedOut' = [signedOut EXCEPT ![t] = (cookie' = 0)]
    /\ fresh' = NobodyFresh
    /\ UNCHANGED <<secret, hasLocks>>

-----------------------------------------------------------------------------
(* Events: the listener of the root component.                             *)

DeliverEvent(s, t) ==
    LET kind == Head(events[s][t])
        rest == [events EXCEPT ![s][t] = Tail(@)]
    IN
    /\ events[s][t] # <<>>
    /\ \/ /\ kind = "authenticated" /\ ~SignedIn(tab[t])
          /\ tab' = [tab EXCEPT ![t] = Loaded(@.at)]
          /\ events' = Close(rest, t)
       \/ /\ kind = "signed_out" /\ SignedIn(tab[t])
          /\ tab' = [tab EXCEPT ![t] =
                        [ClearAuthentication(@) EXCEPT !.at = "signIn", !.guard = "entering"]]
          /\ events' = rest
       \/ /\ (kind = "authenticated") = SignedIn(tab[t])
          /\ events' = rest
          /\ UNCHANGED tab
    /\ UNCHANGED <<secret, cookie, hasLocks, moves, signedOut, fresh>>

\* A tab that was frozen for a minute ignores what it missed.
EventTooOld(s, t) ==
    /\ Move
    /\ events[s][t] # <<>>
    /\ events' = [events EXCEPT ![s][t] = Tail(@)]
    /\ UNCHANGED <<secret, cookie, hasLocks, tab, signedOut, fresh>>

-----------------------------------------------------------------------------
TabStep(t) ==
    \/ AskSession(t) \/ SessionAnswer(t) \/ DiscardAnswer(t)
    \/ EnterGuard(t) \/ DecideGuard(t) \/ ReloadPage(t) \/ BundleExpires(t)
    \/ SendRequest(t) \/ RequestAnswer(t)
    \/ SubmitLogin(t) \/ LoginCleared(t) \/ LoginAnswer(t)
    \/ SubmitSignOut(t) \/ SignOutAnswer(t)

Next ==
    \/ ChangePassword
    \/ CookieExpires
    \/ \E t \in Tabs : TabStep(t)
    \/ \E t \in Tabs, r \in Routes : Navigate(t, r)
    \/ \E s, t \in Tabs : DeliverEvent(s, t) \/ EventTooOld(s, t)

Spec == Init /\ [][Next]_vars

\* The browser runs the continuations of a tab, and the network answers.
\* Nothing is assumed of the user, nor that a page sends any request.
Fairness ==
    /\ \A t \in Tabs :
          /\ WF_vars(AskSession(t)) /\ WF_vars(SessionAnswer(t)) /\ WF_vars(DiscardAnswer(t))
          /\ WF_vars(EnterGuard(t)) /\ WF_vars(DecideGuard(t))
          /\ WF_vars(RequestAnswer(t))
          /\ WF_vars(LoginCleared(t)) /\ WF_vars(LoginAnswer(t)) /\ WF_vars(SignOutAnswer(t))
    /\ \A s, t \in Tabs : WF_vars(DeliverEvent(s, t))

FairSpec == Spec /\ Fairness

-----------------------------------------------------------------------------
TypeOK ==
    /\ secret \in Generation
    /\ cookie \in 0 .. MaxSecret
    /\ hasLocks \in BOOLEAN
    /\ tab \in [Tabs -> Tab]
    /\ events \in [Tabs -> [Tabs -> Seq({"authenticated", "signed_out"})]]
    /\ moves \in 0 .. MaxMoves
    /\ signedOut \in [Tabs -> BOOLEAN]
    /\ fresh \in [Tabs -> BOOLEAN]

\* A sign-out that reached the server is final for its tab: no refresh that
\* was on its way, no reload and no other tab's refresh signs the tab in again
\* before somebody logs in (authEpoch in auth-session.ts).
SignOutSticks == \A t \in Tabs : signedOut[t] => ~SignedIn(tab[t])

\* The request that tab t sent is going to be answered with a 401.
Refused(t) == tab[t].request = "sent" /\ tab[t].rejected

\* A tab whose requests come back with a 401 time and again does not go on
\* looking signed in: it leaves for the sign-in page, or the session is alive
\* again (token-spec 2.5.1).  A single 401 does not suffice: the question that
\* follows it may find the server unavailable, and then the request just fails.
DeadSessionNoticed ==
    \A t \in Tabs : []<>Refused(t) => []<>(~SignedIn(tab[t]) \/ cookie = secret)

\* Every navigation ends on a page: the two guards never send a tab to and
\* fro, and no guard waits for a refresh that never settles.
NavigationEnds == \A t \in Tabs : []<>(tab[t].guard = "none")

\* A login that just succeeded holds: until the user signs out or logs in
\* anew, the password changes or the cookie expires, the browser keeps the
\* cookie the login brought.
LoginHolds == \A t \in Tabs : fresh[t] => cookie = secret
=============================================================================
