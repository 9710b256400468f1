-------------------------- MODULE ConsoleSessionProofs --------------------------
(* Proofs about the console's session, for any number of tabs, of generations of  *)
(* the credential, of events under way and of moves of the user and the network.  *)
EXTENDS ConsoleSession, SequenceTheorems, TLAPS

\* A tab that nothing under way can sign in: the answer it waits for is not that
\* there is a session, or comes too late (isCurrent).
StaysOut(s) ==
    /\ ~SignedIn(s)
    /\ ~(s.refresh = "asked" /\ s.current /\ s.verdict = "authenticated")

\* While a sign-out holds the browser has no cookie, and so no tab can get one back.
OutInv == \A t \in Tabs : signedOut[t] => cookie = 0 /\ StaysOut(tab[t])

IInv == TypeOK /\ OutInv

---------------------------------------------------------------------------------
(* The functions of a tab keep its type *)

Fields(s) ==
    /\ s.auth \in {"none", "held", "expired"}
    /\ s.boot \in {"idle", "checking", "complete"}
    /\ s.at \in Routes
    /\ s.guard \in {"entering", "awaiting", "deciding", "none"}
    /\ s.refresh \in {"none", "queued", "asked", "discarding"}
    /\ s.verdict \in Verdicts
    /\ s.request \in {"none", "sent", "waiting", "resent"}
    /\ s.op \in {"none", "clearing", "login", "signOut"}
    /\ s.gen \in 0 .. MaxSecret

LEMMA TabFields == \A s \in Tab : Fields(s)
  BY DEF Tab, Fields

LEMMA LoadedType ==
    ASSUME NEW route \in Routes
    PROVE  Loaded(route) \in Tab /\ StaysOut(Loaded(route))
  <1>1. 0 \in 0 .. MaxSecret
    BY BoundsAssumption
  <1> QED
    BY <1>1 DEF Loaded, Tab, StaysOut, SignedIn, Verdicts

LEMMA ApplyType ==
    ASSUME NEW s \in Tab
    PROVE  ApplyAuthBundle(s) \in Tab
  BY DEF ApplyAuthBundle, Tab

LEMMA ClearType ==
    ASSUME NEW s \in Tab
    PROVE  ClearAuthentication(s) \in Tab /\ StaysOut(ClearAuthentication(s))
  BY DEF ClearAuthentication, Tab, StaysOut, SignedIn

LEMMA RefreshType ==
    ASSUME NEW s \in Tab
    PROVE  /\ RefreshAuthentication(s) \in Tab
           /\ StaysOut(s) => StaysOut(RefreshAuthentication(s))
  <1>1. CASE s.refresh # "none"
    BY <1>1 DEF RefreshAuthentication
  <1>2. CASE s.refresh = "none"
    <2> DEFINE u == [s EXCEPT !.refresh = "queued", !.current = TRUE]
    <2>1. RefreshAuthentication(s) = u
      BY <1>2 DEF RefreshAuthentication
    <2>2. u \in Tab /\ u.auth = s.auth /\ u.refresh = "queued"
      BY DEF Tab
    <2> HIDE DEF u
    <2> QED BY <2>1, <2>2 DEF StaysOut, SignedIn
  <1> QED
    BY <1>1, <1>2

LEMMA SentType ==
    ASSUME NEW s \in Tab, NEW phase \in {"sent", "resent"}
    PROVE  /\ SentRequest(s, phase) \in Tab
           /\ StaysOut(s) => StaysOut(SentRequest(s, phase))
  <1>1. PICK b \in BOOLEAN : b = (cookie # secret)
    OBVIOUS
  <1>2. PICK c \in BOOLEAN : c = (cookie \notin {0, secret})
    OBVIOUS
  <1>3. SentRequest(s, phase) = [s EXCEPT !.request = phase, !.rejected = b, !.clears = c]
    BY <1>1, <1>2 DEF SentRequest
  <1> QED
    BY <1>3, ZenonT(40) DEF Tab, StaysOut, SignedIn

LEMMA AcceptType ==
    ASSUME NEW s \in Tab, NEW v \in Verdicts
    PROVE  /\ Accept(s, v) \in Tab
           /\ StaysOut(s) /\ v # "authenticated" => ~SignedIn(Accept(s, v))
  <1>1. CASE v = "authenticated"
    BY <1>1, ApplyType DEF Accept
  <1>2. CASE v \in {"stale", "anonymous", "unexpected"}
    BY <1>2, ClearType DEF Accept, StaysOut
  <1>3. CASE v = "unavailable"
    <2>1. [s EXCEPT !.boot = "idle"] \in Tab /\ [s EXCEPT !.boot = "idle"].auth = s.auth
      BY DEF Tab
    <2> QED BY <1>3, <2>1 DEF Accept, StaysOut, SignedIn
  <1> QED
    BY <1>1, <1>2, <1>3 DEF Verdicts

LEMMA SettleType ==
    ASSUME NEW s \in Tab, NEW outcome
    PROVE  /\ Settle(s, outcome) \in Tab
           /\ ~SignedIn(s) => StaysOut(Settle(s, outcome))
  <1> DEFINE g == IF s.guard = "awaiting" THEN "deciding" ELSE s.guard
             done == [s EXCEPT !.refresh = "none", !.current = TRUE, !.verdict = "anonymous",
                               !.guard = g]
  <1>1. g \in {"entering", "awaiting", "deciding", "none"}
    BY TabFields DEF Fields
  <1> HIDE DEF g
  <1>2. done \in Tab /\ (~SignedIn(s) => StaysOut(done))
    BY <1>1, ZenonT(40) DEF Tab, Verdicts, StaysOut, SignedIn
  <1>3. done = [s EXCEPT !.refresh = "none", !.current = TRUE, !.verdict = "anonymous",
                         !.guard = IF @ = "awaiting" THEN "deciding" ELSE @]
    BY DEF g
  <1>4. \/ Settle(s, outcome) = done
        \/ Settle(s, outcome) = SentRequest(done, "resent")
        \/ Settle(s, outcome) = [done EXCEPT !.request = "none"]
        \/ Settle(s, outcome) = Loaded("signIn")
    BY <1>3 DEF Settle
  <1> HIDE DEF done
  <1>5. /\ [done EXCEPT !.request = "none"] \in Tab
        /\ ~SignedIn(s) => StaysOut([done EXCEPT !.request = "none"])
    BY <1>2 DEF Tab, StaysOut, SignedIn
  <1>6. /\ SentRequest(done, "resent") \in Tab
        /\ ~SignedIn(s) => StaysOut(SentRequest(done, "resent"))
    BY <1>2, SentType
  <1>7. Loaded("signIn") \in Tab /\ StaysOut(Loaded("signIn"))
    BY LoadedType DEF Routes
  <1> QED
    BY <1>2, <1>4, <1>5, <1>6, <1>7

---------------------------------------------------------------------------------
(* The channels *)

Channels == [Tabs -> [Tabs -> Seq({"authenticated", "signed_out"})]]

LEMMA PostType ==
    ASSUME NEW ev \in Channels, NEW t \in Tabs, NEW kind \in {"authenticated", "signed_out"}
    PROVE  Post(ev, t, kind) \in Channels
  <1> DEFINE row == [u \in Tabs |->
                IF u # t /\ tab[u].listening THEN Append(ev[t][u], kind) ELSE ev[t][u]]
  <1>1. row \in [Tabs -> Seq({"authenticated", "signed_out"})]
    BY DEF Channels
  <1>2. Post(ev, t, kind) = [ev EXCEPT ![t] = row]
    BY DEF Post
  <1> HIDE DEF row
  <1> QED
    BY <1>1, <1>2 DEF Channels

LEMMA CloseType ==
    ASSUME NEW ev \in Channels, NEW t \in Tabs
    PROVE  Close(ev, t) \in Channels
  <1>1. ASSUME NEW s \in Tabs
        PROVE  [ev[s] EXCEPT ![t] = <<>>] \in [Tabs -> Seq({"authenticated", "signed_out"})]
    BY DEF Channels
  <1> QED
    BY <1>1 DEF Close, Channels

LEMMA TakeType ==
    ASSUME NEW ev \in Channels, NEW s \in Tabs, NEW t \in Tabs, ev[s][t] # <<>>
    PROVE  [ev EXCEPT ![s][t] = Tail(@)] \in Channels
  <1>1. ev[s] \in [Tabs -> Seq({"authenticated", "signed_out"})]
    BY DEF Channels
  <1>2. Tail(ev[s][t]) \in Seq({"authenticated", "signed_out"})
    BY <1>1, HeadTailProperties
  <1> DEFINE row == [ev[s] EXCEPT ![t] = Tail(ev[s][t])]
  <1>3. row \in [Tabs -> Seq({"authenticated", "signed_out"})]
    BY <1>1, <1>2
  <1>4. [ev EXCEPT ![s][t] = Tail(@)] = [ev EXCEPT ![s] = row]
    OBVIOUS
  <1> HIDE DEF row
  <1> QED
    BY <1>3, <1>4 DEF Channels

---------------------------------------------------------------------------------
(* Steps *)

\* A step that leaves the tabs and the history of sign-outs alone.
LEMMA OutsideStep ==
    ASSUME IInv, UNCHANGED <<hasLocks, tab, signedOut>>, secret' \in Generation,
           cookie' = cookie \/ cookie' = 0, events' \in Channels, moves' \in 0 .. MaxMoves,
           fresh' \in [Tabs -> BOOLEAN]
    PROVE  IInv'
  <1>1. cookie' \in 0 .. MaxSecret
    BY BoundsAssumption DEF IInv, TypeOK
  <1> QED
    BY <1>1 DEF IInv, TypeOK, OutInv, Channels

\* A step of one tab.  It brings no cookie, and a tab that is signed out stays so.
LEMMA TabBecomes ==
    ASSUME IInv, NEW t \in Tabs, NEW u \in Tab, tab' = [tab EXCEPT ![t] = u],
           signedOut[t] => StaysOut(u),
           cookie' = cookie \/ cookie' = 0,
           UNCHANGED <<secret, hasLocks, signedOut>>,
           events' \in Channels, moves' \in 0 .. MaxMoves, fresh' \in [Tabs -> BOOLEAN]
    PROVE  IInv'
  <1>1. cookie' \in 0 .. MaxSecret
    BY BoundsAssumption DEF IInv, TypeOK
  <1>2. tab' \in [Tabs -> Tab] /\ \A p \in Tabs : tab'[p] = IF p = t THEN u ELSE tab[p]
    BY DEF IInv, TypeOK
  <1>3. OutInv'
    BY <1>2 DEF IInv, OutInv
  <1> QED
    BY <1>1, <1>2, <1>3 DEF IInv, TypeOK, Channels

\* What every step finds.
LEMMA Found ==
    ASSUME IInv
    PROVE  /\ \A t \in Tabs : tab[t] \in Tab /\ (signedOut[t] => cookie = 0 /\ StaysOut(tab[t]))
           /\ tab \in [Tabs -> Tab]
           /\ events \in Channels /\ moves \in 0 .. MaxMoves /\ fresh \in [Tabs -> BOOLEAN]
           /\ NobodyFresh \in [Tabs -> BOOLEAN]
           /\ secret \in Generation /\ cookie \in 0 .. MaxSecret
           /\ moves' = moves \/ Move => moves' \in 0 .. MaxMoves
  <1>1. moves' = moves \/ Move => moves' \in 0 .. MaxMoves
    BY BoundsAssumption DEF IInv, TypeOK, Move
  <1>2. NobodyFresh \in [Tabs -> BOOLEAN]
    BY DEF NobodyFresh
  <1>3. \A t \in Tabs : tab[t] \in Tab /\ (signedOut[t] => cookie = 0 /\ StaysOut(tab[t]))
    BY DEF IInv, TypeOK, OutInv
  <1> QED
    BY <1>1, <1>2, <1>3 DEF IInv, TypeOK, Channels

LEMMA OutsideSteps == IInv /\ (ChangePassword \/ CookieExpires) => IInv'
  <1> SUFFICES ASSUME IInv, ChangePassword \/ CookieExpires PROVE IInv'
    OBVIOUS
  <1>1. secret' \in Generation
    BY Found, BoundsAssumption DEF ChangePassword, CookieExpires, Generation
  <1> QED
    BY <1>1, Found, OutsideStep DEF ChangePassword, CookieExpires

\* A refresh settles.
LEMMA ConcludeStep ==
    ASSUME IInv, NEW t \in Tabs, NEW v, Conclude(t, v),
           tab[t].current => v \in Verdicts,
           signedOut[t] /\ tab[t].current => v # "authenticated",
           cookie' = cookie \/ cookie' = 0, moves' = moves \/ Move,
           UNCHANGED <<secret, hasLocks, signedOut, fresh>>
    PROVE  IInv'
  <1> DEFINE s == tab[t]
             outcome == IF s.current THEN v ELSE "superseded"
             before == IF s.current THEN Accept(s, v) ELSE s
             after == Settle(before, outcome)
             posted == IF outcome \in {"stale", "anonymous"} /\ SignedIn(s)
                       THEN Post(events, t, "signed_out") ELSE events
  <1>1. tab' = [tab EXCEPT ![t] = after]
        /\ events' = IF after = Loaded("signIn") THEN Close(posted, t) ELSE posted
    BY DEF Conclude
  <1>2. s \in Tab /\ (signedOut[t] => StaysOut(s))
    BY Found
  <1>3. before \in Tab /\ (signedOut[t] => ~SignedIn(before))
    <2>1. CASE s.current
      BY <1>2, <2>1, AcceptType
    <2>2. CASE ~s.current
      BY <1>2, <2>2 DEF StaysOut
    <2> QED BY <2>1, <2>2
  <1>4. posted \in Channels
    BY Found, PostType
  <1> HIDE DEF s, outcome, before, posted
  <1>5. after \in Tab /\ (signedOut[t] => StaysOut(after))
    BY <1>3, SettleType
  <1> HIDE DEF after
  <1>6. events' \in Channels
    BY <1>1, <1>4, CloseType
  <1> QED
    BY <1>1, <1>5, <1>6, Found, TabBecomes

LEMMA AskStep ==
    ASSUME IInv, NEW t \in Tabs, AskSession(t)
    PROVE  IInv'
  <1>1. CASE ~tab[t].current /\ Conclude(t, "superseded")
    BY <1>1, ConcludeStep DEF AskSession
  <1>2. ASSUME NEW v \in Verdicts, Asked(t, v), moves' = moves \/ Move,
               v # "authenticated" \/ v = SessionStatus, UNCHANGED events
        PROVE  IInv'
    <2> DEFINE u == [tab[t] EXCEPT !.refresh = "asked", !.verdict = v]
    <2>1. tab[t] \in Tab /\ tab \in [Tabs -> Tab]
      BY Found
    <2>2. tab' = [tab EXCEPT ![t] = u]
      BY <1>2, <2>1 DEF Asked
    <2>3. u \in Tab /\ u.auth = tab[t].auth /\ u.verdict = v
      BY <2>1 DEF Tab
    <2>4. signedOut[t] => v # "authenticated"
      BY <1>2, Found DEF SessionStatus
    <2> HIDE DEF u
    <2>5. signedOut[t] => StaysOut(u)
      BY <2>3, <2>4, Found DEF StaysOut, SignedIn
    <2> QED
      BY <1>2, <2>2, <2>3, <2>5, Found, TabBecomes DEF AskSession
  <1>3. SessionStatus \in Verdicts /\ {"unavailable", "unexpected"} \subseteq Verdicts
    BY DEF SessionStatus, Verdicts
  <1> QED
    BY <1>1, <1>2, <1>3 DEF AskSession

LEMMA AnswerStep ==
    ASSUME IInv, NEW t \in Tabs, SessionAnswer(t) \/ DiscardAnswer(t)
    PROVE  IInv'
  <1>1. tab[t] \in Tab /\ tab \in [Tabs -> Tab]
    BY Found
  <1>2. CASE SessionAnswer(t) /\ tab[t].verdict = "stale"
    <2> DEFINE u == [tab[t] EXCEPT !.refresh = "discarding"]
    <2>1. tab' = [tab EXCEPT ![t] = u]
      BY <1>1, <1>2 DEF SessionAnswer
    <2>2. u \in Tab /\ u.auth = tab[t].auth /\ u.refresh = "discarding"
      BY <1>1 DEF Tab
    <2> HIDE DEF u
    <2>3. signedOut[t] => StaysOut(u)
      BY <2>2, Found DEF StaysOut, SignedIn
    <2> QED
      BY <1>2, <2>1, <2>2, <2>3, Found, TabBecomes DEF SessionAnswer
  <1>3. CASE SessionAnswer(t) /\ tab[t].verdict # "stale"
    <2>1. tab[t].verdict \in Verdicts
      BY <1>1, TabFields DEF Fields
    <2>2. signedOut[t] /\ tab[t].current => tab[t].verdict # "authenticated"
      BY <1>3, Found DEF SessionAnswer, StaysOut
    <2> QED
      BY <1>3, <2>1, <2>2, ConcludeStep DEF SessionAnswer
  <1>4. CASE DiscardAnswer(t)
    <2>1. "stale" \in Verdicts
      BY DEF Verdicts
    <2> QED
      BY <1>4, <2>1, ConcludeStep DEF DiscardAnswer, LogoutAnswer
  <1> QED
    BY <1>2, <1>3, <1>4

\* Route guards, navigation, reload and time.
LEMMA PageStep ==
    ASSUME IInv, NEW t \in Tabs,
           EnterGuard(t) \/ DecideGuard(t) \/ ReloadPage(t) \/ BundleExpires(t)
           \/ \E r \in Routes : Navigate(t, r)
    PROVE  IInv'
  <1> DEFINE s == tab[t]
  <1>1. s \in Tab /\ tab \in [Tabs -> Tab] /\ (signedOut[t] => StaysOut(s)) /\ Fields(s)
    BY Found, TabFields
  <1>2. CASE EnterGuard(t)
    <2> DEFINE q == [s EXCEPT !.boot = "checking", !.guard = "awaiting"]
               a == [s EXCEPT !.boot = "complete", !.guard = "deciding"]
               b == [s EXCEPT !.guard = "deciding"]
    <2>1. PICK u \in {a, b, RefreshAuthentication(q)} : tab' = [tab EXCEPT ![t] = u]
      BY <1>2 DEF EnterGuard
    <2>2. /\ q \in Tab /\ (StaysOut(s) => StaysOut(q))
          /\ a \in Tab /\ (StaysOut(s) => StaysOut(a))
          /\ b \in Tab /\ (StaysOut(s) => StaysOut(b))
      BY <1>1, ZenonT(40) DEF Tab, StaysOut, SignedIn
    <2> HIDE DEF q, a, b
    <2>3. u \in Tab /\ (StaysOut(s) => StaysOut(u))
      BY <2>1, <2>2, RefreshType
    <2> QED
      BY <1>1, <1>2, <2>1, <2>3, Found, TabBecomes DEF EnterGuard
  <1>3. CASE DecideGuard(t)
    <2> DEFINE route == IF s.at = "app" THEN "signIn" ELSE "app"
               a == [s EXCEPT !.guard = "none", !.listening = TRUE]
               b == [s EXCEPT !.at = route, !.guard = "entering"]
    <2>1. PICK u \in {a, b} : tab' = [tab EXCEPT ![t] = u]
      BY <1>1, <1>3 DEF DecideGuard, Tab
    <2>2. route \in Routes
      BY DEF Routes
    <2> HIDE DEF route
    <2>3. /\ a \in Tab /\ (StaysOut(s) => StaysOut(a))
          /\ b \in Tab /\ (StaysOut(s) => StaysOut(b))
      BY <1>1, <2>2 DEF Tab, StaysOut, SignedIn
    <2> HIDE DEF a, b
    <2>4. u \in Tab /\ (StaysOut(s) => StaysOut(u))
      BY <2>1, <2>3
    <2> QED
      BY <1>1, <1>3, <2>1, <2>4, Found, TabBecomes DEF DecideGuard
  <1>4. CASE ReloadPage(t)
    <2>1. tab' = [tab EXCEPT ![t] = Loaded(s.at)]
      BY <1>4 DEF ReloadPage
    <2>2. Loaded(s.at) \in Tab /\ StaysOut(Loaded(s.at))
      BY <1>1, LoadedType DEF Fields
    <2> QED
      BY <1>4, <2>1, <2>2, Found, CloseType, TabBecomes DEF ReloadPage
  <1>5. CASE BundleExpires(t)
    <2> DEFINE u == [s EXCEPT !.auth = "expired"]
    <2>1. tab' = [tab EXCEPT ![t] = u] /\ s.auth = "held"
      BY <1>1, <1>5 DEF BundleExpires
    <2>2. u \in Tab
      BY <1>1 DEF Tab
    <2> HIDE DEF u
    <2>3. ~signedOut[t]
      BY <1>1, <2>1 DEF StaysOut, SignedIn
    <2> QED
      BY <1>5, <2>1, <2>2, <2>3, Found, TabBecomes DEF BundleExpires
  <1>6. ASSUME NEW r \in Routes, Navigate(t, r) PROVE IInv'
    <2> DEFINE u == [s EXCEPT !.at = r, !.guard = "entering"]
    <2>1. tab' = [tab EXCEPT ![t] = u]
      BY <1>1, <1>6 DEF Navigate
    <2>2. u \in Tab /\ (StaysOut(s) => StaysOut(u))
      BY <1>1 DEF Tab, StaysOut, SignedIn
    <2> HIDE DEF u
    <2> QED
      BY <1>1, <1>6, <2>1, <2>2, Found, TabBecomes DEF Navigate
  <1> QED
    BY <1>2, <1>3, <1>4, <1>5, <1>6

LEMMA RequestStep ==
    ASSUME IInv, NEW t \in Tabs, SendRequest(t) \/ RequestAnswer(t)
    PROVE  IInv'
  <1> DEFINE s == tab[t]
             idle == [s EXCEPT !.request = "none"]
             waits == [s EXCEPT !.request = "waiting"]
  <1>1. s \in Tab /\ tab \in [Tabs -> Tab] /\ (signedOut[t] => StaysOut(s))
    BY Found
  <1>2. CASE SendRequest(t)
    <2>1. tab' = [tab EXCEPT ![t] = SentRequest(s, "sent")]
      BY <1>2 DEF SendRequest
    <2> QED
      BY <1>1, <1>2, <2>1, SentType, Found, TabBecomes DEF SendRequest
  <1>3. /\ idle \in Tab /\ (StaysOut(s) => StaysOut(idle))
        /\ waits \in Tab /\ (StaysOut(s) => StaysOut(waits))
    BY <1>1 DEF Tab, StaysOut, SignedIn
  <1>4. "signIn" \in Routes
    BY DEF Routes
  <1>5. ASSUME RequestAnswer(t)
        PROVE  /\ \E u \in {idle, RefreshAuthentication(waits), ClearAuthentication(idle),
                            Loaded("signIn")} : tab' = [tab EXCEPT ![t] = u]
               /\ events' = events \/ events' = Close(events, t)
               /\ cookie' = cookie \/ cookie' = 0
               /\ UNCHANGED <<secret, hasLocks, moves, signedOut, fresh>>
    BY <1>1, <1>5 DEF RequestAnswer
  <1> HIDE DEF idle, waits
  <1>6. CASE RequestAnswer(t)
    <2>1. PICK u \in {idle, RefreshAuthentication(waits), ClearAuthentication(idle),
                      Loaded("signIn")} : tab' = [tab EXCEPT ![t] = u]
      BY <1>5, <1>6
    <2>2. u \in Tab /\ (StaysOut(s) => StaysOut(u))
      BY <1>3, <1>4, <2>1, RefreshType, ClearType, LoadedType
    <2>3. events' \in Channels
      BY <1>5, <1>6, Found, CloseType
    <2> QED
      BY <1>1, <1>5, <1>6, <2>1, <2>2, <2>3, Found, TabBecomes
  <1> QED
    BY <1>2, <1>6

\* The forms, up to the answer that ends them.
LEMMA SubmitStep ==
    ASSUME IInv, NEW t \in Tabs, SubmitLogin(t) \/ LoginCleared(t) \/ SubmitSignOut(t)
    PROVE  IInv'
  <1> DEFINE s == tab[t]
  <1>1. s \in Tab /\ tab \in [Tabs -> Tab] /\ (signedOut[t] => StaysOut(s))
    BY Found
  <1>2. PICK b \in BOOLEAN : b = SignedIn(s)
    BY DEF SignedIn
  <1>3. ASSUME NEW u \in Tab, tab' = [tab EXCEPT ![t] = u], StaysOut(s) => StaysOut(u)
        PROVE  IInv'
    BY <1>1, <1>3, Found, TabBecomes DEF SubmitLogin, LoginCleared, SubmitSignOut, LogoutAnswer
  <1>4. CASE SubmitLogin(t)
    <2> DEFINE u == [s EXCEPT !.op = "clearing", !.sid = b]
    <2>1. tab' = [tab EXCEPT ![t] = u]
      BY <1>1, <1>2, <1>4 DEF SubmitLogin
    <2>2. u \in Tab /\ (StaysOut(s) => StaysOut(u))
      BY <1>1 DEF Tab, StaysOut, SignedIn
    <2> HIDE DEF u
    <2> QED BY <1>3, <2>1, <2>2
  <1>5. CASE LoginCleared(t)
    <2>1. PICK gen \in {0, secret} : tab' = [tab EXCEPT ![t].op = "login", ![t].gen = gen]
      BY <1>5 DEF LoginCleared
    <2> DEFINE u == [s EXCEPT !.op = "login", !.gen = gen]
    <2>2. tab' = [tab EXCEPT ![t] = u]
      BY <1>1, <2>1
    <2>3. gen \in 0 .. MaxSecret
      BY Found, BoundsAssumption DEF Generation
    <2>4. u \in Tab /\ (StaysOut(s) => StaysOut(u))
      BY <1>1, <2>3 DEF Tab, StaysOut, SignedIn
    <2> HIDE DEF u
    <2> QED BY <1>3, <2>2, <2>4
  <1>6. CASE SubmitSignOut(t)
    <2> DEFINE u == [s EXCEPT !.op = "signOut"]
    <2>1. tab' = [tab EXCEPT ![t] = u]
      BY <1>1, <1>6 DEF SubmitSignOut
    <2>2. u \in Tab /\ (StaysOut(s) => StaysOut(u))
      BY <1>1 DEF Tab, StaysOut, SignedIn
    <2> HIDE DEF u
    <2> QED BY <1>3, <2>1, <2>2
  <1> QED
    BY <1>4, <1>5, <1>6

\* Only an accepted login brings a cookie, and with it the sign-outs are history.
LEMMA LoginStep ==
    ASSUME IInv, NEW t \in Tabs, LoginAnswer(t)
    PROVE  IInv'
  <1> DEFINE s == [tab[t] EXCEPT !.op = "none", !.gen = 0, !.sid = FALSE]
             gen == tab[t].gen
             applies == gen # 0 /\ SignedIn(s) = tab[t].sid
             a == [ApplyAuthBundle(s) EXCEPT !.at = "app", !.guard = "entering"]
             f == [fresh EXCEPT ![t] = applies /\ gen = secret]
  <1>1. tab[t] \in Tab /\ tab \in [Tabs -> Tab] /\ (signedOut[t] => StaysOut(tab[t]))
    BY Found
  <1>2. /\ cookie' = IF gen = 0 THEN cookie ELSE gen
        /\ tab' = [tab EXCEPT ![t] = IF applies THEN a ELSE s]
        /\ events' = IF applies /\ ~SignedIn(s) THEN Post(events, t, "authenticated") ELSE events
        /\ signedOut' = IF gen = 0 THEN signedOut ELSE [u \in Tabs |-> FALSE]
        /\ fresh' = f
        /\ UNCHANGED <<secret, hasLocks, moves>>
    BY DEF LoginAnswer
  <1>3. gen \in 0 .. MaxSecret
    BY <1>1, TabFields DEF Fields
  <1>4. 0 \in 0 .. MaxSecret
    BY BoundsAssumption
  <1>5. s \in Tab /\ (StaysOut(tab[t]) => StaysOut(s))
    BY <1>1, <1>4 DEF Tab, StaysOut, SignedIn
  <1>6. ApplyAuthBundle(s) \in Tab
    BY <1>5, ApplyType
  <1>7. a \in Tab
    BY <1>6 DEF Tab, Routes
  <1>8. fresh' \in [Tabs -> BOOLEAN]
    <2>1. PICK b \in BOOLEAN : b = (applies /\ gen = secret)
      OBVIOUS
    <2>2. fresh' = [fresh EXCEPT ![t] = b]
      BY <1>2, <2>1
    <2> QED BY <2>2, Found
  <1>9. events' \in Channels
    BY <1>2, Found, PostType
  <1>10. gen = 0 => ~applies
    OBVIOUS
  <1> HIDE DEF s, gen, applies, a, f
  <1>11. CASE gen = 0
    BY <1>1, <1>2, <1>5, <1>8, <1>9, <1>10, <1>11, Found, TabBecomes
  <1>12. CASE gen # 0
    <2>1. PICK u \in Tab : tab' = [tab EXCEPT ![t] = u]
      BY <1>2, <1>5, <1>7
    <2>2. tab' \in [Tabs -> Tab]
      BY <1>1, <2>1
    <2>3. signedOut' \in [Tabs -> BOOLEAN] /\ OutInv'
      BY <1>2, <1>12 DEF OutInv
    <2> QED
      BY <1>2, <1>3, <1>8, <1>9, <1>12, <2>2, <2>3 DEF IInv, TypeOK, Channels
  <1> QED
    BY <1>11, <1>12

\* A sign-out: the tab forgets its session and makes every answer under way too late.
LEMMA SignOutStep ==
    ASSUME IInv, NEW t \in Tabs, SignOutAnswer(t)
    PROVE  IInv'
  <1> DEFINE s == [tab[t] EXCEPT !.op = "none"]
             c == ClearAuthentication(s)
             u == [c EXCEPT !.at = "signIn", !.guard = "entering"]
  <1>1. tab[t] \in Tab /\ tab \in [Tabs -> Tab]
    BY Found
  <1>2. /\ tab' = [tab EXCEPT ![t] = u]
        /\ events' = IF SignedIn(s) THEN Post(events, t, "signed_out") ELSE events
        /\ signedOut' = [signedOut EXCEPT ![t] = (cookie' = 0)]
        /\ fresh' = NobodyFresh /\ UNCHANGED <<secret, hasLocks>>
        /\ cookie' = cookie \/ cookie' = 0
        /\ moves' = moves \/ Move
    BY DEF SignOutAnswer, LogoutAnswer
  <1>3. s \in Tab
    BY <1>1 DEF Tab
  <1>4. events' \in Channels
    BY <1>2, Found, PostType
  <1> HIDE DEF s
  <1>5. c \in Tab /\ StaysOut(c)
    BY <1>3, ClearType
  <1> HIDE DEF c
  <1>6. u \in Tab /\ StaysOut(u)
    BY <1>5 DEF Tab, Routes, StaysOut, SignedIn
  <1> HIDE DEF u
  <1>7. tab' \in [Tabs -> Tab] /\ \A p \in Tabs : tab'[p] = IF p = t THEN u ELSE tab[p]
    BY <1>1, <1>2, <1>6
  <1>8. PICK b \in BOOLEAN : b = (cookie' = 0)
    OBVIOUS
  <1>9. /\ signedOut' \in [Tabs -> BOOLEAN]
        /\ \A p \in Tabs : signedOut'[p] = IF p = t THEN b ELSE signedOut[p]
    BY <1>2, <1>8 DEF IInv, TypeOK
  <1>10. cookie' \in 0 .. MaxSecret
    BY <1>2, BoundsAssumption DEF IInv, TypeOK
  <1>11. OutInv'
    <2> SUFFICES ASSUME NEW p \in Tabs, signedOut'[p] PROVE cookie' = 0 /\ StaysOut(tab'[p])
      BY DEF OutInv
    <2>1. CASE p = t
      BY <1>6, <1>7, <1>8, <1>9, <2>1
    <2>2. CASE p # t
      BY <1>2, <1>7, <1>9, <2>2, Found
    <2> QED BY <2>1, <2>2
  <1> QED
    BY <1>2, <1>4, <1>7, <1>9, <1>10, <1>11, Found DEF IInv, TypeOK, Channels

LEMMA EventStep ==
    ASSUME IInv, NEW s \in Tabs, NEW t \in Tabs, DeliverEvent(s, t) \/ EventTooOld(s, t)
    PROVE  IInv'
  <1> DEFINE rest == [events EXCEPT ![s][t] = Tail(@)]
             c == ClearAuthentication(tab[t])
             out == [c EXCEPT !.at = "signIn", !.guard = "entering"]
  <1>1. tab[t] \in Tab /\ Fields(tab[t])
    BY Found, TabFields
  <1>2. events[s][t] # <<>>
    BY DEF DeliverEvent, EventTooOld
  <1>3. rest \in Channels
    BY <1>2, Found, TakeType
  <1>4. c \in Tab /\ StaysOut(c)
    BY <1>1, ClearType
  <1>5. CASE EventTooOld(s, t)
    BY <1>3, <1>5, Found, OutsideStep DEF EventTooOld
  <1>6. ASSUME DeliverEvent(s, t)
        PROVE  /\ \/ tab' = [tab EXCEPT ![t] = Loaded(tab[t].at)] /\ events' = Close(rest, t)
                  \/ tab' = [tab EXCEPT ![t] = out] /\ events' = rest
                  \/ tab' = tab /\ events' = rest
               /\ UNCHANGED <<secret, cookie, hasLocks, moves, signedOut, fresh>>
    BY <1>6 DEF DeliverEvent
  <1> HIDE DEF rest, c
  <1>7. out \in Tab /\ StaysOut(out)
    BY <1>4 DEF Tab, Routes, StaysOut, SignedIn
  <1> HIDE DEF out
  <1>8. Loaded(tab[t].at) \in Tab /\ StaysOut(Loaded(tab[t].at))
    BY <1>1, LoadedType DEF Fields
  <1>9. Close(rest, t) \in Channels
    BY <1>3, CloseType
  <1>10. CASE DeliverEvent(s, t)
    <2>1. CASE tab' = [tab EXCEPT ![t] = Loaded(tab[t].at)] /\ events' = Close(rest, t)
      BY <1>6, <1>8, <1>9, <1>10, <2>1, Found, TabBecomes
    <2>2. CASE tab' = [tab EXCEPT ![t] = out] /\ events' = rest
      BY <1>3, <1>6, <1>7, <1>10, <2>2, Found, TabBecomes
    <2>3. CASE tab' = tab /\ events' = rest
      BY <1>3, <1>6, <1>10, <2>3, Found, OutsideStep
    <2> QED BY <1>6, <1>10, <2>1, <2>2, <2>3
  <1> QED
    BY <1>5, <1>10

LEMMA InitIInv == Init => IInv
  <1> SUFFICES ASSUME Init PROVE IInv
    OBVIOUS
  <1>1. Working \in Tab
    BY LoadedType DEF Working, Tab, Routes
  <1>2. \A r \in Routes : Loaded(r) \in Tab
    BY LoadedType
  <1>3. tab \in [Tabs -> Tab]
    BY <1>1, <1>2 DEF Init
  <1>4. secret \in Generation /\ cookie \in 0 .. MaxSecret /\ moves \in 0 .. MaxMoves
    BY BoundsAssumption DEF Init, Generation
  <1>5. events \in Channels
    BY DEF Init, Channels
  <1>6. hasLocks \in BOOLEAN
    BY DEF Init
  <1>7. signedOut \in [Tabs -> BOOLEAN] /\ fresh \in [Tabs -> BOOLEAN]
    BY DEF Init
  <1>8. OutInv
    BY DEF Init, OutInv
  <1> QED
    BY <1>3, <1>4, <1>5, <1>6, <1>7, <1>8 DEF IInv, TypeOK, Channels

LEMMA NextIInv == IInv /\ [Next]_vars => IInv'
  <1> SUFFICES ASSUME IInv, [Next]_vars PROVE IInv'
    OBVIOUS
  <1>1. CASE UNCHANGED vars
    BY <1>1 DEF vars, IInv, TypeOK, OutInv
  <1>2. ASSUME NEW t \in Tabs, TabStep(t) PROVE IInv'
    BY <1>2, AskStep, AnswerStep, PageStep, RequestStep, SubmitStep, LoginStep, SignOutStep
       DEF TabStep
  <1>3. ASSUME NEW t \in Tabs, NEW r \in Routes, Navigate(t, r) PROVE IInv'
    BY <1>3, PageStep
  <1>4. ASSUME NEW s \in Tabs, NEW t \in Tabs, DeliverEvent(s, t) \/ EventTooOld(s, t) PROVE IInv'
    BY <1>4, EventStep
  <1> QED
    BY <1>1, <1>2, <1>3, <1>4, OutsideSteps DEF Next

LEMMA Invariance == Spec => []IInv
  BY InitIInv, NextIInv, PTL DEF Spec

---------------------------------------------------------------------------------
\* The store of every tab, the channels and the cookie hold what their types allow,
\* whatever the order of answers, events, reloads and expiries.
THEOREM SessionTypeCorrect == Spec => []TypeOK
  <1>1. IInv => TypeOK
    BY DEF IInv
  <1> QED
    BY <1>1, Invariance, PTL

\* A sign-out that reached the server holds for its tab until somebody logs in, with any
\* number of tabs, with or without navigator.locks: no answer that was under way, no
\* reload, no repeated request and no event brings the tab back (authEpoch).
THEOREM SignOutHolds == Spec => []SignOutSticks
  <1>1. IInv => SignOutSticks
    BY DEF IInv, OutInv, StaysOut, SignOutSticks
  <1> QED
    BY <1>1, Invariance, PTL

=================================================================================
