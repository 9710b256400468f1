------------------------------ MODULE LaneView ------------------------------
(***************************************************************************)
(* What the routes page of the console shows of one lane: the health       *)
(* snapshot of the event stream GET /api/v1/route-events, or the one of    *)
(* the poll every 30 seconds (web/src/lib/route-events.ts and              *)
(* features/routes/hooks/use-lane-runtime.ts).                             *)
(*                                                                         *)
(* The page has no clock of its own: its "now" is the later of the last    *)
(* frame and the last poll, so a stream that fell silent is only found out *)
(* by the next poll.  Snapshots are numbered by the state of the lane they *)
(* show; 0 stands for data without the lane: a frame lists only lanes that *)
(* have a runtime, and a poll drops a lane whose request failed.           *)
(*                                                                         *)
(* The data of the polls is in the query cache of the application, by the  *)
(* set of lanes polled, and stays there when the page is left.  The timer  *)
(* of the poll does nothing while the tab is hidden, and a request may be  *)
(* under way for any time: it has no timeout.  Requests for one lane are   *)
(* shared (http-client.ts), so one is under way at most; a poll that waits *)
(* for the requests of its other lanes is one whose request takes longer.  *)
(* The parsing of frames is left out: a frame that does not parse is one   *)
(* that did not arrive.  The server keeps a payload for 900 ms and sends   *)
(* it to other streams too: that is a frame which is under way longer.     *)
(***************************************************************************)
EXTENDS Doubling

CONSTANTS
    Keys,          \* sets of lanes the page polls, all with the lane
    Window,        \* SSE_SNAPSHOT_STALE_MS, in ticks
    PollInterval,  \* LANE_HEALTH_POLL_INTERVAL_MS, in ticks
    StaleTime,     \* staleTime of the query client, in ticks
    BaseDelay,     \* RECONNECT_BASE_MS, in ticks
    MaxDelay,      \* RECONNECT_MAX_MS, in ticks
    OnTime,        \* what StaleBound takes for a poll answered on time, in ticks
    MaxVersion,    \* bound: states of the lane
    MaxAttempt,    \* bound: the attempt counter, beyond MaxDelay
    MaxMoves       \* bound: how often the user changes the lanes, leaves the page or the tab

ASSUME LaneViewAssumption ==
    /\ {Window, PollInterval, StaleTime, BaseDelay, MaxDelay, OnTime, MaxVersion, MaxAttempt,
        MaxMoves} \subseteq Nat
    /\ BaseDelay > 0 /\ PollInterval > 0 /\ MaxVersion > 0
    /\ Keys # {}

VARIABLES
    version,      \* server: the state of the lane
    listed,       \* server: the lane has a runtime in the registry
    phase,        \* where the loop of openRouteEventStream is
    attempt,      \* its count of attempts without a frame
    wait,         \* what is left of its sleep
    gotFrame,     \* receivedFrame
    connected,    \* React state sseConnected
    frame,        \* a frame on its way
    sse,          \* sseLanes, and the time since sseReceivedAt
    key,          \* namesKey
    cache,        \* the query cache
    request,      \* GET /lanes/{name}/health under way
    waiting,      \* the polls that wait for it
    nextPoll,     \* what is left of refetchInterval
    visible,      \* the tab is not hidden
    moves,        \* how often the user did so
    onTime        \* history: the polls of the page have been answered on time

vars == <<version, listed, phase, attempt, wait, gotFrame, connected, frame, sse, key,
          cache, request, waiting, nextPoll, visible, moves, onTime>>

server == <<version, listed>>
stream == <<phase, attempt, wait, gotFrame, connected, frame, sse>>
polling == <<key, cache, request, waiting, nextPoll, visible, moves, onTime>>

Bound == PollInterval + OnTime + Window
Ages == 0 .. Bound + 1
Versions == 0 .. MaxVersion

Frame == [on : BOOLEAN, ver : Versions]
Received == [got : BOOLEAN, ver : Versions, age : Ages]
\* gap: dataUpdatedAt - sseReceivedAt as far as the window tells it apart, 0
\*   when the frame is the later one
Polled == [has : BOOLEAN, ver : Versions, age : Nat, gap : 0 .. Window + 1]
Request == [st : {"idle", "asked", "served"}, ver : Versions, age : Ages]

NoFrame == [on |-> FALSE, ver |-> 0]
NothingReceived == [got |-> FALSE, ver |-> 0, age |-> 0]
NoData == [has |-> FALSE, ver |-> 0, age |-> 0, gap |-> 0]
Idle == [st |-> "idle", ver |-> 0, age |-> 0]
Asked == [Idle EXCEPT !.st = "asked"]

Older(n, cap) == IF n < cap THEN n + 1 ELSE n
Less(n) == IF n = 0 THEN 0 ELSE n - 1
Smaller(m, n) == IF m < n THEN m ELSE n

\* The first visit.  The lane may or may not have a runtime.
Init ==
    /\ version = 1 /\ listed \in BOOLEAN
    /\ phase = "connecting" /\ attempt = 0 /\ wait = 0 /\ gotFrame = FALSE
    /\ connected = FALSE /\ frame = NoFrame /\ sse = NothingReceived
    /\ key = (CHOOSE k \in Keys : TRUE) /\ cache = [k \in Keys |-> NoData]
    /\ request = Asked /\ waiting = {key} /\ nextPoll = PollInterval
    /\ visible = TRUE /\ moves = 0 /\ onTime = FALSE

-----------------------------------------------------------------------------
(* Which snapshot is shown: resolveLaneSnapshots.                          *)

Data == cache[key]

\* Mutant of SseFresh: whatever was received last is shown.
SseFreshLatest == connected /\ sse.got /\ Data.gap = 0

SseFresh == connected /\ sse.got /\ Data.gap <= Window

\* One source leads, and the other one fills in when it lacks the lane.
Shown ==
    LET streamed == [ver |-> sse.ver, age |-> sse.age]
        polled == [ver |-> Data.ver, age |-> Data.age]
    IN  IF SseFresh THEN IF sse.ver # 0 THEN streamed ELSE polled
        ELSE IF Data.ver # 0 THEN polled ELSE streamed

-----------------------------------------------------------------------------
(* The stream: RouteEvents of the server, the loop of openRouteEventStream *)

\* Mutant of ReconnectDelay: the jitter comes after the cap.
ReconnectDelayUncapped(n) ==
    LET capped == Smaller(MaxDelay, BaseDelay * Doubled[n]) IN capped .. capped + (capped + 3) \div 4

\* reconnectDelayMs, with up to a quarter of jitter.
ReconnectDelay(n) ==
    LET capped == Smaller(MaxDelay, BaseDelay * Doubled[n])
    IN  {Smaller(MaxDelay, d) : d \in capped .. capped + (capped + 3) \div 4}

StreamOpens ==
    /\ phase = "connecting"
    /\ phase' = "open" /\ connected' = TRUE
    /\ UNCHANGED <<server, attempt, wait, gotFrame, frame, sse, polling>>

\* routeStateSnapshot: the lanes that have a runtime.  The first frame follows
\* the headers, which the page may not have seen yet.  The server may also be
\* unable to make a snapshot: then the stream is open and silent.
FrameSent ==
    /\ phase \in {"connecting", "open"}
    /\ ~frame.on
    /\ frame' = [on |-> TRUE, ver |-> IF listed THEN version ELSE 0]
    /\ UNCHANGED <<server, phase, attempt, wait, gotFrame, connected, sse, polling>>

\* onLanes
FrameArrives ==
    /\ phase \in {"open", "broken"}
    /\ frame.on
    /\ gotFrame' = TRUE
    /\ frame' = NoFrame
    /\ sse' = [got |-> TRUE, ver |-> frame.ver, age |-> 0]
    /\ cache' = [k \in Keys |-> [cache[k] EXCEPT !.gap = 0]]
    /\ UNCHANGED <<server, phase, attempt, wait, connected, key, request, waiting, nextPoll,
                   visible, moves, onTime>>

\* The stream ends, or could not be opened.  The status stays what it was
\* until the loop has slept and goes round.
StreamEnds ==
    LET n == IF gotFrame THEN 0 ELSE attempt IN
    /\ phase \in {"connecting", "open", "broken"}
    /\ phase' = "sleeping"
    /\ wait' \in ReconnectDelay(n)
    /\ attempt' = Smaller(n + 1, MaxAttempt)
    /\ gotFrame' = FALSE /\ frame' = NoFrame
    /\ UNCHANGED <<server, connected, sse, polling>>

Reconnect ==
    /\ phase = "sleeping" /\ wait = 0
    /\ phase' = "connecting" /\ connected' = FALSE
    /\ UNCHANGED <<server, attempt, wait, gotFrame, frame, sse, polling>>

-----------------------------------------------------------------------------
(* The poll: useQuery with refetchInterval.                                *)

\* The query of key k is fetched, with the request that is under way if any.
Fetch(k) ==
    /\ waiting' = waiting \cup {k}
    /\ request' = IF request.st = "idle" THEN Asked ELSE request

\* Mutant of PollTimer: no polls while the stream is connected.
PollTimerDisconnected ==
    /\ phase # "closed" /\ nextPoll = 0
    /\ nextPoll' = PollInterval
    /\ IF visible /\ ~connected /\ key \notin waiting
       THEN Fetch(key) /\ onTime' = (onTime /\ request'.age <= OnTime)
       ELSE UNCHANGED <<request, waiting, onTime>>
    /\ UNCHANGED <<server, stream, key, cache, visible, moves>>

\* The timer runs out.  A tab that is hidden does not poll, and a poll that is
\* under way is not repeated.
PollTimer ==
    /\ phase # "closed" /\ nextPoll = 0
    /\ nextPoll' = PollInterval
    /\ IF visible /\ key \notin waiting
       THEN Fetch(key) /\ onTime' = (onTime /\ request'.age <= OnTime)
       ELSE UNCHANGED <<request, waiting, onTime>>
    /\ UNCHANGED <<server, stream, key, cache, visible, moves>>

\* GetLaneHealth creates the runtime of the lane.
PollServed ==
    /\ request.st = "asked"
    /\ request' = [request EXCEPT !.st = "served", !.ver = version]
    /\ listed' = TRUE
    /\ UNCHANGED <<version, stream, key, cache, waiting, nextPoll, visible, moves, onTime>>

\* Mutant of Landed: the time of the poll is not part of nowMs.
LandedUntimed(v) ==
    [k \in Keys |-> IF k \in waiting THEN [has |-> TRUE, ver |-> v, age |-> 0, gap |-> 0]
                    ELSE cache[k]]

\* The result becomes the data of every poll that waits for it.
Landed(v) ==
    [k \in Keys |-> IF k \in waiting
                    THEN [has |-> TRUE, ver |-> v, age |-> 0,
                          gap |-> IF sse.got THEN Smaller(sse.age, Window + 1) ELSE 0]
                    ELSE cache[k]]

\* The timer of a query starts anew when its data changes.
PollEnds(v) ==
    /\ cache' = Landed(v)
    /\ request' = Idle /\ waiting' = {}
    /\ nextPoll' = IF key \in waiting THEN PollInterval ELSE nextPoll
    /\ onTime' = IF key \in waiting
                 THEN phase # "closed" /\ visible /\ request.age <= OnTime ELSE onTime
    /\ UNCHANGED <<server, stream, key, visible, moves>>

PollArrives == request.st = "served" /\ PollEnds(request.ver)

\* The request failed: the data now lacks the lane, and is newer all the same.
PollFails == request.st # "idle" /\ PollEnds(0)

-----------------------------------------------------------------------------
(* The user.                                                               *)

Move == moves < MaxMoves /\ moves' = moves + 1

\* The page looks at the query of key k: there is data when it was polled before
\* and not collected since; it is fetched at once unless it is fresh.
Observe(k) ==
    /\ key' = k /\ onTime' = FALSE
    /\ \/ UNCHANGED cache
       \/ k \notin waiting /\ cache' = [cache EXCEPT ![k] = NoData]
    /\ nextPoll' = PollInterval
    /\ IF k \notin waiting /\ (cache'[k].has => cache'[k].age >= StaleTime)
       THEN Fetch(k) ELSE UNCHANGED <<request, waiting>>

\* A lane is added or removed: the query has another key.
LanesChange ==
    /\ Move
    /\ phase # "closed"
    /\ \E k \in Keys \ {key} : Observe(k)
    /\ UNCHANGED <<server, stream, visible>>

\* The user leaves the page: the loop returns wherever it is, and the state of
\* the component is gone.
Close ==
    /\ Move
    /\ phase # "closed"
    /\ phase' = "closed" /\ attempt' = 0 /\ wait' = 0 /\ gotFrame' = FALSE
    /\ connected' = FALSE /\ frame' = NoFrame /\ sse' = NothingReceived
    /\ nextPoll' = 0 /\ onTime' = FALSE
    /\ UNCHANGED <<server, key, cache, request, waiting, visible>>

\* The user comes back to the page.
Mount ==
    /\ phase = "closed" /\ visible
    /\ phase' = "connecting"
    /\ \E k \in Keys : Observe(k)
    /\ UNCHANGED <<server, attempt, wait, gotFrame, connected, frame, sse, visible, moves>>

\* The tab is hidden, or the user comes back to it.
Hide ==
    /\ Move
    /\ visible
    /\ visible' = FALSE
    /\ onTime' = FALSE
    /\ UNCHANGED <<server, stream, key, cache, request, waiting, nextPoll>>

Unhide ==
    /\ ~visible
    /\ visible' = TRUE
    /\ UNCHANGED <<server, stream, key, cache, request, waiting, nextPoll, moves, onTime>>

-----------------------------------------------------------------------------
(* The server and the clock.                                               *)

StateChanges ==
    /\ version < MaxVersion
    /\ version' = version + 1
    /\ listed' = TRUE
    /\ UNCHANGED <<stream, polling>>

\* The runtimes are gone, and so is the other end of an open stream.
ServerRestarts ==
    /\ version < MaxVersion
    /\ version' = version + 1
    /\ listed' = FALSE
    /\ phase' = IF phase = "open" THEN "broken" ELSE phase
    /\ UNCHANGED <<attempt, wait, gotFrame, connected, frame, sse, polling>>

\* Time passes.  The timers of a visible page run when they are due.  Ages are
\* kept as far as something depends on them.
Tick ==
    /\ phase # "closed" /\ visible => nextPoll > 0
    /\ wait' = Less(wait) /\ nextPoll' = Less(nextPoll)
    /\ sse' = IF sse.got THEN [sse EXCEPT !.age = Older(@, Bound + 1)] ELSE sse
    /\ cache' = [k \in Keys |->
                    IF cache[k].has
                    THEN [cache[k] EXCEPT !.age = Older(@, IF k = key THEN Bound + 1 ELSE StaleTime)]
                    ELSE cache[k]]
    /\ request' = IF request.st # "idle"
                  THEN [request EXCEPT !.age = Older(@, OnTime + Window + 1)] ELSE request
    /\ onTime' = (onTime /\ (key \in waiting => request.age < OnTime))
    /\ UNCHANGED <<version, listed, phase, attempt, gotFrame, connected, frame, key, waiting,
                   visible, moves>>

Next ==
    \/ StreamOpens \/ FrameSent \/ FrameArrives \/ StreamEnds \/ Reconnect
    \/ PollTimer \/ PollServed \/ PollArrives \/ PollFails
    \/ LanesChange \/ Close \/ Mount \/ Hide \/ Unhide
    \/ StateChanges \/ ServerRestarts \/ Tick

Spec == Init /\ [][Next]_vars

\* Time passes and timers fire; requests may fail, but not all of them for
\* ever.  Nothing is assumed of the stream.
Fairness == WF_vars(Tick) /\ WF_vars(PollTimer) /\ SF_vars(PollServed) /\ SF_vars(PollArrives)

FairSpec == Spec /\ Fairness

-----------------------------------------------------------------------------
TypeOK ==
    /\ version \in 1 .. MaxVersion /\ listed \in BOOLEAN
    /\ frame \in Frame
    /\ phase \in {"connecting", "open", "broken", "sleeping", "closed"}
    /\ attempt \in 0 .. MaxAttempt
    /\ wait \in 0 .. MaxDelay
    /\ {gotFrame, connected, visible, onTime} \subseteq BOOLEAN
    /\ sse \in Received
    /\ key \in Keys /\ cache \in [Keys -> Polled]
    /\ request \in Request /\ waiting \subseteq Keys
    /\ nextPoll \in 0 .. PollInterval
    /\ moves \in 0 .. MaxMoves

\* While the stream counts as connected and no frame arrives, what is shown
\* never goes back in time, unless the last poll lacks the lane or its request
\* was under way for longer than the window: an answer that a frame overtook
\* does not replace it, and a stream that fell silent does not replace a later
\* poll (resolveLaneSnapshots and the nowMs of useLaneRuntime).
ShownForward ==
    [][connected /\ connected' /\ frame' = frame /\ key' = key
        /\ cache'[key].ver # 0 /\ request.age <= Window
            => Shown'.ver >= Shown.ver]_vars

\* From the first poll that is answered on time, for as long as the page stays
\* visible, its polls are answered on time and have the lane: what is shown
\* reached the page at most a poll interval, one answer under way and the
\* window ago, whatever the stream does and however old the data was that an
\* earlier visit, a hidden tab or a late answer had left.
StaleBound == onTime /\ Data.ver # 0 => Shown.age <= Bound

\* A change of the lane is shown in the end on a page that stays visible, also
\* over a stream that is open and silent, or that opens and breaks off again
\* and again.
ShowsCurrent ==
    \A v \in 1 .. MaxVersion :
        version = v ~> (Shown.ver >= v \/ phase = "closed" \/ ~visible)
=============================================================================
