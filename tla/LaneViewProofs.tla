---------------------------- MODULE LaneViewProofs ----------------------------
(* Proofs about the lane view of the console, for every window, interval,     *)
(* delay and set of keys that LaneViewAssumption admits.                      *)
EXTENDS LaneView, Induction

\* Nothing the page holds or waits for is from the future.
Past ==
    /\ {sse.ver, frame.ver, request.ver} \subseteq 0 .. version
    /\ \A k \in Keys : cache[k].ver \in 0 .. version

\* A poll waits only for a request; no frame, no lane from a frame.
Awaited == (waiting # {} => request.st # "idle") /\ (~sse.got => sse.ver = 0)

\* gap is what sse.age was, as far as the window tells, when a frame or this
\* poll last arrived.
GapKept == sse.got => \A k \in Keys : cache[k].gap <= sse.age

\* An answer under way is no earlier than the polls before it, and no earlier
\* than a frame that arrived before it was asked for.
Served ==
    request.st = "served" =>
        /\ \A k \in Keys : cache[k].ver <= request.ver
        /\ request.age <= Window /\ request.age < sse.age => sse.ver <= request.ver

\* The timer of the poll against the ages of what the page holds.
Timely ==
    onTime =>
        /\ phase # "closed" /\ visible
        /\ Data.has
        /\ key \notin waiting => Data.age + nextPoll <= PollInterval
        /\ key \in waiting => request.age <= OnTime /\ Data.age <= PollInterval + request.age
        /\ sse.got /\ Data.gap <= Window => sse.age <= Data.gap + Data.age

IInv == TypeOK /\ Past /\ Awaited /\ GapKept /\ Served /\ Timely

-------------------------------------------------------------------------------
\* The sleep before the next attempt never exceeds RECONNECT_MAX_MS.
LEMMA ReconnectDelayBounded ==
    ASSUME NEW n \in Nat, NEW d \in ReconnectDelay(n)
    PROVE  d \in 0 .. MaxDelay
  <1> DEFINE capped == Smaller(MaxDelay, BaseDelay * Doubled[n])
  <1>1. BaseDelay * Doubled[n] \in Nat
    BY LaneViewAssumption, DoubledDef
  <1>2. capped \in Nat
    BY <1>1, LaneViewAssumption DEF Smaller
  <1> HIDE DEF capped
  <1>3. PICK e \in capped .. capped + (capped + 3) \div 4 : d = Smaller(MaxDelay, e)
    BY DEF ReconnectDelay, capped
  <1>4. e \in Nat
    BY <1>2, <1>3
  <1> QED
    BY <1>3, <1>4, LaneViewAssumption DEF Smaller

LEMMA RecordTypes ==
    /\ NoFrame \in Frame /\ NothingReceived \in Received /\ NoData \in Polled
    /\ Idle \in Request /\ Asked \in Request
  BY LaneViewAssumption
     DEF NoFrame, NothingReceived, NoData, Idle, Asked, Frame, Received, Polled, Request, Versions,
         Ages, Bound

\* What the type invariant says of the fields.
LEMMA FieldTypes ==
    ASSUME TypeOK
    PROVE  /\ version \in Nat /\ Bound \in Nat /\ nextPoll \in Nat
           /\ sse.ver \in Nat /\ sse.age \in 0 .. Bound + 1
           /\ frame.ver \in Versions
           /\ request.ver \in Versions /\ request.age \in 0 .. Bound + 1
           /\ \A k \in Keys : cache[k] \in Polled /\ cache[k].ver \in Nat /\ cache[k].age \in Nat
                              /\ cache[k].gap \in 0 .. Window + 1
           /\ key \in Keys /\ Data \in Polled /\ Data.age \in Nat /\ Data.gap \in Nat
  BY LaneViewAssumption
     DEF TypeOK, Frame, Received, Polled, Request, Versions, Ages, Bound, Data

LEMMA InitIInv == Init => IInv
  <1> SUFFICES ASSUME Init PROVE IInv
    OBVIOUS
  <1>1. key \in Keys
    BY LaneViewAssumption DEF Init
  <1>2. /\ sse = NothingReceived /\ frame = NoFrame /\ request = Asked /\ version = 1
        /\ waiting = {key} /\ cache = [k \in Keys |-> NoData] /\ onTime = FALSE
    BY DEF Init
  <1>3. TypeOK
    <2>1. {gotFrame, connected, visible, onTime} \subseteq BOOLEAN
      BY Zenon DEF Init
    <2> QED
      BY <1>1, <1>2, <2>1, RecordTypes, LaneViewAssumption DEF Init, TypeOK
  <1> QED
    BY <1>2, <1>3
       DEF IInv, Past, Awaited, GapKept, Served, Timely, NothingReceived, NoFrame, Asked, Idle,
           NoData

\* Steps of the server and of the stream that bring no frame to the page.
LEMMA StreamStep ==
    ASSUME IInv, TypeOK', UNCHANGED <<sse, polling>>, version' >= version,
           frame'.ver \in 0 .. version', phase' = "closed" => phase = "closed"
    PROVE  IInv'
  <1>1. /\ Data' = Data
        /\ UNCHANGED <<key, cache, request, waiting, nextPoll, visible, onTime>>
    BY DEF polling, Data
  <1>2. Past'
    BY <1>1, FieldTypes DEF IInv, Past, TypeOK
  <1> QED
    BY <1>1, <1>2 DEF IInv, Awaited, GapKept, Served, Timely

\* The user looks at the query of a key, with what an earlier poll left of it.
LEMMA ObserveStep ==
    ASSUME IInv, NEW k \in Keys, Observe(k),
           UNCHANGED <<version, listed, attempt, wait, gotFrame, connected, frame, sse, visible>>,
           phase' \in {"connecting", "open", "broken", "sleeping", "closed"},
           moves' \in 0 .. MaxMoves
    PROVE  IInv'
  <1> USE LaneViewAssumption
  <1>0. TypeOK
    BY DEF IInv
  <1>1. /\ key' = k /\ onTime' = FALSE /\ nextPoll' = PollInterval
        /\ cache' = cache \/ cache' = [cache EXCEPT ![k] = NoData]
        /\ \/ Fetch(k)
           \/ UNCHANGED <<request, waiting>>
    BY DEF Observe
  <1>2. /\ request' \in {request, Asked} /\ waiting' \subseteq Keys
        /\ request' = Asked \/ (request' = request)
        /\ waiting' # {} => request'.st # "idle"
    BY <1>0, <1>1 DEF Fetch, IInv, Awaited, TypeOK, Asked, Idle
  <1>3. /\ cache' \in [Keys -> Polled]
        /\ \A j \in Keys : cache'[j] \in {cache[j], NoData}
    BY <1>0, <1>1, RecordTypes DEF TypeOK
  <1>4. TypeOK'
    <2>1. {gotFrame', connected', visible', onTime'} \subseteq BOOLEAN
      BY <1>0, <1>1, Zenon DEF TypeOK
    <2> QED
      BY <1>0, <1>1, <1>2, <1>3, <2>1, RecordTypes DEF TypeOK
  <1>5. Asked.ver = 0 /\ Asked.st = "asked" /\ NoData.ver = 0 /\ NoData.gap = 0
    BY DEF Asked, Idle, NoData
  <1>6. Past'
    BY <1>0, <1>2, <1>3, <1>5, FieldTypes DEF IInv, Past
  <1>7. Awaited' /\ GapKept'
    BY <1>0, <1>2, <1>3, <1>5, FieldTypes DEF IInv, Awaited, GapKept
  <1>8. Served'
    BY <1>0, <1>2, <1>3, <1>5, FieldTypes DEF IInv, Served, Versions
  <1> QED
    BY <1>1, <1>4, <1>6, <1>7, <1>8 DEF IInv, Timely

\* The polls that wait for the request get its result, or data without the lane.
LEMMA PollEndsStep ==
    ASSUME IInv, NEW v \in Nat, v <= version, PollEnds(v),
           request.st # "idle", v <= MaxVersion
    PROVE  IInv'
  <1> USE LaneViewAssumption
  <1> DEFINE g == IF sse.got THEN Smaller(sse.age, Window + 1) ELSE 0
             new == [has |-> TRUE, ver |-> v, age |-> 0, gap |-> g]
  <1>0. TypeOK
    BY DEF IInv
  <1>1. /\ request' = Idle /\ waiting' = {}
        /\ UNCHANGED <<version, listed, phase, attempt, wait, gotFrame, connected, frame, sse,
                       key, visible, moves>>
        /\ nextPoll' = IF key \in waiting THEN PollInterval ELSE nextPoll
        /\ onTime' = IF key \in waiting
                     THEN phase # "closed" /\ visible /\ request.age <= OnTime ELSE onTime
    BY DEF PollEnds, server, stream
  <1>2. cache' = [k \in Keys |-> IF k \in waiting THEN new ELSE cache[k]]
    BY DEF PollEnds, Landed
  <1>3. g \in 0 .. Window + 1 /\ (sse.got => g <= sse.age) /\ (sse.got /\ g <= Window => g = sse.age)
    BY <1>0, FieldTypes DEF Smaller
  <1>4. new \in Polled /\ new.has /\ new.ver = v /\ new.age = 0 /\ new.gap = g
    BY <1>3 DEF Polled, Versions
  <1> HIDE DEF g, new
  <1>5. /\ cache' \in [Keys -> Polled]
        /\ \A k \in Keys : cache'[k] = IF k \in waiting THEN new ELSE cache[k]
    BY <1>0, <1>2, <1>4 DEF TypeOK
  <1>6. onTime' \in BOOLEAN
    <2>1. CASE key \in waiting
      BY <1>1, <2>1, Zenon
    <2>2. CASE key \notin waiting
      BY <1>0, <1>1, <2>2, Zenon DEF TypeOK
    <2> QED
      BY <2>1, <2>2
  <1>7. TypeOK'
    BY <1>0, <1>1, <1>5, <1>6, RecordTypes DEF TypeOK
  <1>8. Past' /\ Awaited' /\ Served'
    BY <1>0, <1>1, <1>4, <1>5, FieldTypes DEF IInv, Past, Awaited, Served, Idle
  <1>9. GapKept'
    BY <1>0, <1>1, <1>3, <1>4, <1>5, FieldTypes DEF IInv, GapKept
  <1>10. Timely'
    <2>1. CASE key \in waiting
      <3>1. Data' = new /\ nextPoll' = PollInterval
        BY <1>0, <1>1, <1>5, <2>1 DEF Data, TypeOK
      <3>2. onTime' => phase # "closed" /\ visible
        BY <1>1, <2>1
      <3>3. sse.got /\ g <= Window => sse.age <= g + 0
        BY <1>0, <1>3, FieldTypes
      <3>4. Data'.has /\ Data'.age = 0 /\ Data'.gap = g
        BY <1>4, <3>1
      <3>5. Data'.age + nextPoll' <= PollInterval
        BY <3>1, <3>4
      <3>6. sse'.got /\ Data'.gap <= Window => sse'.age <= Data'.gap + Data'.age
        BY <1>1, <3>3, <3>4
      <3> QED
        BY <1>1, <3>2, <3>4, <3>5, <3>6 DEF Timely
    <2>2. CASE key \notin waiting
      <3>1. Data' = Data
        BY <1>0, <1>1, <1>5, <2>2 DEF Data, TypeOK
      <3> QED
        BY <1>1, <2>2, <3>1 DEF IInv, Timely
    <2> QED
      BY <2>1, <2>2
  <1> QED
    BY <1>7, <1>8, <1>9, <1>10 DEF IInv

\* Time passes.
LEMMA TickStep ==
    ASSUME IInv, Tick
    PROVE  IInv'
  <1> USE LaneViewAssumption
  <1>0. TypeOK
    BY DEF IInv
  <1>1. /\ phase # "closed" /\ visible => nextPoll > 0
        /\ wait' = Less(wait) /\ nextPoll' = Less(nextPoll)
        /\ onTime' = (onTime /\ (key \in waiting => request.age < OnTime))
        /\ UNCHANGED <<version, listed, phase, attempt, gotFrame, connected, frame, key, waiting,
                       visible, moves>>
    BY DEF Tick
  <1>2. /\ sse' \in Received /\ sse'.got = sse.got /\ sse'.ver = sse.ver
        /\ sse'.age \in {sse.age, sse.age + 1}
        /\ sse.got /\ sse.age <= Bound => sse'.age = sse.age + 1
    BY <1>0, FieldTypes DEF Tick, Older, TypeOK, Received, Ages, Bound
  <1>3. /\ request' \in Request /\ request'.st = request.st /\ request'.ver = request.ver
        /\ request'.age \in {request.age, request.age + 1}
        /\ request.st # "idle" /\ request.age <= OnTime + Window => request'.age = request.age + 1
    BY <1>0, FieldTypes DEF Tick, Older, TypeOK, Request, Ages, Bound
  <1>4. cache' \in [Keys -> Polled]
    <2> SUFFICES ASSUME NEW k \in Keys
                 PROVE  cache'[k] \in Polled
      BY <1>0 DEF Tick, TypeOK
    <2>1. cache[k] \in Polled
      BY <1>0, FieldTypes
    <2> QED
      BY <1>0, <2>1 DEF Tick, Older, TypeOK, Polled
  <1>5. ASSUME NEW k \in Keys
        PROVE  /\ cache'[k].ver = cache[k].ver /\ cache'[k].gap = cache[k].gap
               /\ cache'[k].has = cache[k].has
               /\ k = key /\ cache[k].has /\ cache[k].age <= Bound
                    => cache'[k].age = cache[k].age + 1
    <2>1. cache[k] \in Polled /\ Bound \in Nat
      BY <1>0, FieldTypes
    <2> QED
      BY <1>0, <2>1 DEF Tick, Older, TypeOK, Polled
  <1>6. wait' \in 0 .. MaxDelay /\ nextPoll' \in 0 .. PollInterval
    BY <1>0, <1>1 DEF TypeOK, Less
  <1>7. onTime' \in BOOLEAN
    BY <1>1, Zenon
  <1>8. TypeOK'
    BY <1>0, <1>1, <1>2, <1>3, <1>4, <1>6, <1>7 DEF TypeOK
  <1>9. Past' /\ Awaited' /\ GapKept'
    BY <1>0, <1>1, <1>2, <1>3, <1>5, FieldTypes DEF IInv, Past, Awaited, GapKept
  <1>10. Served'
    <2> SUFFICES ASSUME request.st = "served"
                 PROVE  /\ \A k \in Keys : cache'[k].ver <= request'.ver
                        /\ request'.age <= Window /\ request'.age < sse'.age
                             => sse'.ver <= request'.ver
      BY <1>3 DEF Served
    <2>1. \A k \in Keys : cache'[k].ver <= request'.ver
      BY <1>3, <1>5 DEF IInv, Served
    <2>2. ASSUME request'.age <= Window, request'.age < sse'.age PROVE sse'.ver <= request'.ver
      BY <1>0, <1>2, <1>3, <2>2, FieldTypes DEF IInv, Served
    <2> QED
      BY <2>1, <2>2
  <1>11. Timely'
    <2> SUFFICES ASSUME onTime' PROVE Timely'
      BY DEF Timely
    <2>1. /\ onTime /\ (key \in waiting => request.age < OnTime)
          /\ phase # "closed" /\ visible /\ Data.has /\ nextPoll > 0
      BY <1>1 DEF IInv, Timely
    <2>2. nextPoll' = nextPoll - 1
      BY <1>0, <1>1, <2>1, FieldTypes DEF Less
    <2>3. Data.age <= PollInterval + OnTime /\ key \in Keys
      BY <1>0, <2>1, FieldTypes DEF IInv, Timely
    <2>4. /\ Data'.age = Data.age + 1 /\ Data'.gap = Data.gap /\ Data'.has
          /\ Data.gap \in Nat /\ Data.age \in Nat
      BY <1>0, <1>1, <1>5, <2>1, <2>3, FieldTypes DEF Data, Bound
    <2>5. key \in waiting => request'.age = request.age + 1
      BY <1>0, <1>3, <2>1, FieldTypes DEF IInv, Awaited
    <2> QED
      BY <1>0, <1>1, <1>2, <2>1, <2>2, <2>4, <2>5, FieldTypes DEF IInv, Timely
  <1> QED
    BY <1>8, <1>9, <1>10, <1>11 DEF IInv

LEMMA NextIInv == IInv /\ [Next]_vars => IInv'
  <1> SUFFICES ASSUME IInv, [Next]_vars PROVE IInv'
    OBVIOUS
  <1> USE LaneViewAssumption
  <1>0. TypeOK /\ frame.ver \in 0 .. version /\ version \in Nat
    BY FieldTypes DEF IInv, Past
  <1>1. CASE StreamOpens
    <2>1. TypeOK'
      BY <1>0, <1>1 DEF StreamOpens, server, polling, TypeOK
    <2> QED
      BY <1>0, <1>1, <2>1, StreamStep DEF StreamOpens, server
  <1>2. CASE FrameSent
    <2>1. frame' \in Frame /\ frame'.ver \in 0 .. version
      BY <1>0, <1>2 DEF FrameSent, Frame, Versions, TypeOK
    <2>2. TypeOK'
      BY <1>0, <1>2, <2>1 DEF FrameSent, server, polling, TypeOK
    <2> QED
      BY <1>0, <1>2, <2>1, <2>2, StreamStep DEF FrameSent, server
  <1>3. CASE FrameArrives
    <2>1. /\ sse' = [got |-> TRUE, ver |-> frame.ver, age |-> 0] /\ frame' = NoFrame
          /\ cache' = [k \in Keys |-> [cache[k] EXCEPT !.gap = 0]]
          /\ gotFrame' = TRUE
          /\ UNCHANGED <<version, listed, phase, attempt, wait, connected, key, request, waiting,
                         nextPoll, visible, moves, onTime>>
      BY <1>3 DEF FrameArrives, server
    <2>2. sse' \in Received /\ sse'.got /\ sse'.ver = frame.ver /\ sse'.age = 0
      BY <1>0, <2>1, FieldTypes DEF Received, Ages
    <2>3. ASSUME NEW k \in Keys
          PROVE  /\ cache'[k] \in Polled /\ cache'[k].gap = 0 /\ cache'[k].ver = cache[k].ver
                 /\ cache'[k].age = cache[k].age /\ cache'[k].has = cache[k].has
      <3>1. cache[k] \in Polled
        BY <1>0, FieldTypes
      <3> QED
        BY <2>1, <3>1 DEF Polled
    <2>4. cache' \in [Keys -> Polled]
      BY <2>1, <2>3
    <2>5. {gotFrame', connected', visible', onTime'} \subseteq BOOLEAN
      BY <1>0, <2>1, Zenon DEF TypeOK
    <2>6. TypeOK'
      BY <1>0, <2>1, <2>2, <2>4, <2>5, RecordTypes DEF TypeOK
    <2>7. Past' /\ Awaited' /\ GapKept' /\ Served'
      BY <1>0, <2>1, <2>2, <2>3, FieldTypes
         DEF IInv, Past, Awaited, GapKept, Served, NoFrame
    <2>8. Timely'
      <3>1. Data'.age = Data.age /\ Data'.has = Data.has /\ Data'.gap = 0
        BY <1>0, <2>1, <2>3, FieldTypes DEF Data
      <3> QED
        BY <1>0, <2>1, <2>2, <3>1, FieldTypes DEF IInv, Timely
    <2> QED
      BY <2>6, <2>7, <2>8 DEF IInv
  <1>4. CASE StreamEnds
    <2> DEFINE n == IF gotFrame THEN 0 ELSE attempt
    <2>1. n \in Nat
      BY <1>0 DEF TypeOK
    <2>2. wait' \in 0 .. MaxDelay
      BY <1>4, <2>1, ReconnectDelayBounded DEF StreamEnds
    <2>3. attempt' \in 0 .. MaxAttempt
      BY <1>4, <2>1 DEF StreamEnds, Smaller
    <2>4. TypeOK'
      BY <1>0, <1>4, <2>2, <2>3, RecordTypes DEF StreamEnds, server, polling, TypeOK
    <2> QED
      BY <1>0, <1>4, <2>4, StreamStep DEF StreamEnds, server, NoFrame
  <1>5. CASE Reconnect
    <2>1. TypeOK'
      BY <1>0, <1>5 DEF Reconnect, server, polling, TypeOK
    <2> QED
      BY <1>0, <1>5, <2>1, StreamStep DEF Reconnect, server
  <1>6. CASE PollTimer
    <2>1. /\ nextPoll = 0 /\ nextPoll' = PollInterval
          /\ UNCHANGED <<version, listed, phase, attempt, wait, gotFrame, connected, frame, sse,
                         key, cache, visible, moves>>
          /\ \/ /\ key \notin waiting /\ Fetch(key)
                /\ onTime' = (onTime /\ request'.age <= OnTime)
             \/ /\ ~(visible /\ key \notin waiting)
                /\ UNCHANGED <<request, waiting, onTime>>
      BY <1>6 DEF PollTimer, server, stream
    <2>2. /\ request' \in {request, Asked} /\ waiting' \subseteq Keys
          /\ waiting' # {} => request'.st # "idle"
      BY <1>0, <2>1, FieldTypes DEF Fetch, IInv, Awaited, TypeOK, Asked, Idle
    <2>3. onTime' \in BOOLEAN
      BY <1>0, <2>1, Zenon DEF TypeOK
    <2>4. TypeOK'
      BY <1>0, <2>1, <2>2, <2>3, RecordTypes DEF TypeOK
    <2>5. Asked.ver = 0 /\ Asked.st = "asked"
      BY DEF Asked, Idle
    <2>6. Past' /\ Awaited' /\ GapKept' /\ Served'
      BY <1>0, <2>1, <2>2, <2>5, FieldTypes DEF IInv, Past, Awaited, GapKept, Served
    <2>7. Data' = Data
      BY <2>1 DEF Data
    <2>8. Timely'
      <3>1. CASE key \notin waiting /\ Fetch(key)
                 /\ onTime' = (onTime /\ request'.age <= OnTime)
        <4>1. key \in waiting' /\ request'.age \in Nat
          BY <1>0, <2>2, <3>1, FieldTypes, RecordTypes DEF Fetch, Request, Ages
        <4>2. SUFFICES ASSUME onTime' PROVE Timely'
          BY DEF Timely
        <4>3. onTime /\ request'.age <= OnTime
          BY <3>1, <4>2
        <4>4. Data.age <= PollInterval + request'.age
          BY <1>0, <2>1, <3>1, <4>1, <4>3, FieldTypes DEF IInv, Timely
        <4> QED
          BY <2>1, <2>7, <4>1, <4>3, <4>4 DEF IInv, Timely
      <3>2. CASE ~(visible /\ key \notin waiting) /\ UNCHANGED <<request, waiting, onTime>>
        BY <1>0, <2>1, <2>7, <3>2 DEF IInv, Timely
      <3> QED
        BY <2>1, <3>1, <3>2
    <2> QED
      BY <2>4, <2>6, <2>8 DEF IInv
  <1>7. CASE PollServed
    <2>1. /\ request.st = "asked"
          /\ request' = [request EXCEPT !.st = "served", !.ver = version]
          /\ listed' = TRUE
          /\ UNCHANGED <<version, phase, attempt, wait, gotFrame, connected, frame, sse,
                         key, cache, waiting, nextPoll, visible, moves, onTime>>
      BY <1>7 DEF PollServed, stream
    <2>2. /\ request' \in Request /\ request'.st = "served" /\ request'.ver = version
          /\ request'.age = request.age
      <3>1. version \in Versions /\ request \in Request
        BY <1>0 DEF TypeOK, Versions
      <3> QED
        BY <2>1, <3>1 DEF Request
    <2>3. TypeOK'
      BY <1>0, <2>1, <2>2 DEF TypeOK
    <2>4. Data' = Data
      BY <2>1 DEF Data
    <2> QED
      BY <1>0, <2>1, <2>2, <2>3, <2>4, FieldTypes
         DEF IInv, Past, Awaited, GapKept, Served, Timely
  <1>8. CASE PollArrives
    BY <1>0, <1>8, FieldTypes, PollEndsStep DEF PollArrives, IInv, Past, Versions
  <1>9. CASE PollFails
    BY <1>0, <1>9, PollEndsStep DEF PollFails
  <1>10. CASE LanesChange
    <2>1. PICK k \in Keys \ {key} : Observe(k)
      BY <1>10 DEF LanesChange
    <2>2. moves' \in 0 .. MaxMoves
      BY <1>0, <1>10 DEF LanesChange, Move, TypeOK
    <2> QED
      BY <1>0, <1>10, <2>1, <2>2, ObserveStep DEF LanesChange, server, stream, TypeOK
  <1>11. CASE Close
    <2>1. /\ moves' \in 0 .. MaxMoves /\ phase' = "closed" /\ attempt' = 0 /\ wait' = 0
          /\ gotFrame' = FALSE /\ connected' = FALSE /\ frame' = NoFrame
          /\ sse' = NothingReceived /\ nextPoll' = 0 /\ onTime' = FALSE
          /\ UNCHANGED <<version, listed, key, cache, request, waiting, visible>>
      BY <1>0, <1>11 DEF Close, Move, TypeOK, server
    <2>2. {gotFrame', connected', visible', onTime'} \subseteq BOOLEAN
      BY <1>0, <2>1, Zenon DEF TypeOK
    <2>3. TypeOK'
      BY <1>0, <2>1, <2>2, RecordTypes DEF TypeOK
    <2> QED
      BY <1>0, <2>1, <2>3, FieldTypes
         DEF IInv, Past, Awaited, GapKept, Served, Timely, NothingReceived, NoFrame
  <1>12. CASE Mount
    <2>1. PICK k \in Keys : Observe(k)
      BY <1>12 DEF Mount
    <2> QED
      BY <1>0, <1>12, <2>1, ObserveStep DEF Mount, server, TypeOK
  <1>13. CASE Hide \/ Unhide
    <2>1. /\ moves' \in 0 .. MaxMoves /\ visible' \in BOOLEAN /\ onTime' \in BOOLEAN /\ ~onTime'
          /\ UNCHANGED <<version, listed, phase, attempt, wait, gotFrame, connected, frame, sse,
                         key, cache, request, waiting, nextPoll>>
      <3>1. ~visible => ~onTime
        BY DEF IInv, Timely
      <3>2. moves' \in 0 .. MaxMoves
        BY <1>0, <1>13 DEF Hide, Unhide, Move, TypeOK
      <3>3. visible' \in BOOLEAN /\ onTime' \in BOOLEAN /\ ~onTime'
        <4>1. CASE Hide
          BY <4>1, Zenon DEF Hide
        <4>2. CASE Unhide
          BY <1>0, <3>1, <4>2 DEF Unhide, TypeOK
        <4> QED
          BY <1>13, <4>1, <4>2
      <3> QED
        BY <1>13, <3>2, <3>3 DEF Hide, Unhide, server, stream
    <2>2. TypeOK'
      BY <1>0, <2>1 DEF TypeOK
    <2> QED
      BY <2>1, <2>2 DEF IInv, Past, Awaited, GapKept, Served, Timely
  <1>14. CASE StateChanges
    <2>1. TypeOK'
      BY <1>0, <1>14 DEF StateChanges, stream, polling, TypeOK
    <2> QED
      BY <1>0, <1>14, <2>1, StreamStep DEF StateChanges, stream
  <1>15. CASE ServerRestarts
    <2>0. phase' \in {"connecting", "open", "broken", "sleeping", "closed"}
          /\ version' \in 1 .. MaxVersion
      BY <1>0, <1>15 DEF ServerRestarts, TypeOK
    <2>1. TypeOK'
      BY <1>0, <1>15, <2>0 DEF ServerRestarts, polling, TypeOK
    <2> QED
      BY <1>0, <1>15, <2>1, StreamStep DEF ServerRestarts
  <1>16. CASE Tick
    BY <1>16, TickStep
  <1>17. CASE UNCHANGED vars
    BY <1>17 DEF vars, IInv, TypeOK, Past, Awaited, GapKept, Served, Timely, Data
  <1> QED
    BY <1>1, <1>2, <1>3, <1>4, <1>5, <1>6, <1>7, <1>8, <1>9, <1>10, <1>11, <1>12, <1>13, <1>14,
       <1>15, <1>16, <1>17 DEF Next

LEMMA Invariance == Spec => []IInv
  BY InitIInv, NextIInv, PTL DEF Spec

\* Type correctness of the page: the sleep of the stream is capped, the attempt
\* counter and the ages stay within their bounds.
THEOREM LaneViewTypeCorrect == Spec => []TypeOK
  <1>1. IInv => TypeOK
    BY DEF IInv
  <1> QED
    BY <1>1, Invariance, PTL

-------------------------------------------------------------------------------
LEMMA StaleBoundHolds == IInv => StaleBound
  <1> SUFFICES ASSUME IInv, onTime, Data.ver # 0 PROVE Shown.age <= Bound
    BY DEF StaleBound
  <1>1. /\ Data.age \in Nat /\ Data.gap \in Nat /\ sse.age \in Nat /\ nextPoll \in Nat
        /\ request.age \in Nat
    BY FieldTypes, LaneViewAssumption DEF IInv, Data
  <1>2. Data.age <= PollInterval + OnTime
    BY <1>1, LaneViewAssumption DEF IInv, Timely
  <1>3. SseFresh => sse.age <= Bound
    BY <1>1, <1>2, LaneViewAssumption DEF IInv, Timely, SseFresh, Bound
  <1>4. Data.age <= Bound
    BY <1>1, <1>2, LaneViewAssumption DEF Bound
  <1> QED
    BY <1>3, <1>4 DEF Shown

\* From the first poll answered on time on, as long as the page stays visible and its
\* polls are answered on time and have the lane, what it shows (resolveLaneSnapshots) is
\* never older than a poll interval, an answer under way and the window, for every choice
\* of these, whatever the stream does and whatever the query cache held before.
THEOREM NeverTooStale == Spec => []StaleBound
  BY Invariance, StaleBoundHolds, PTL

\* While the page is connected, nothing but a frame makes it go back, unless the last
\* poll lacks the lane or was under way for longer than the window.
THEOREM NeverGoesBack == Spec => ShownForward
  <1> DEFINE Forward == connected /\ connected' /\ frame' = frame /\ key' = key
                 /\ cache'[key].ver # 0 /\ request.age <= Window => Shown'.ver >= Shown.ver
  <1>1. ASSUME IInv, [Next]_vars PROVE [Forward]_vars
    <2> SUFFICES ASSUME connected, connected', frame' = frame, key' = key, cache'[key].ver # 0,
                        request.age <= Window
                 PROVE  Shown'.ver >= Shown.ver
      OBVIOUS
    <2> USE LaneViewAssumption
    <2>0. TypeOK
      BY <1>1 DEF IInv
    <2>1. /\ sse.ver \in Nat /\ sse.age \in Nat /\ Data.ver \in Nat /\ Data.gap \in Nat
          /\ request.ver \in Nat /\ request.age \in Nat /\ key \in Keys
      BY <2>0, FieldTypes DEF Versions, Data
    <2>2. Shown.ver \in {sse.ver, Data.ver}
      BY DEF Shown
    <2>3. ASSUME sse'.ver = sse.ver, sse'.got = sse.got, Data'.ver = Data.ver, Data'.gap = Data.gap
          PROVE  Shown'.ver >= Shown.ver
      <3>1. SseFresh' <=> SseFresh
        BY <2>3 DEF SseFresh
      <3>2. Shown'.ver = Shown.ver
        BY <2>3, <3>1 DEF Shown
      <3> QED
        BY <2>1, <2>2, <3>2
    <2>4. CASE StreamOpens \/ FrameSent \/ StreamEnds \/ Reconnect \/ PollTimer \/ PollServed
               \/ Hide \/ Unhide \/ StateChanges \/ ServerRestarts \/ UNCHANGED vars
      <3>1. UNCHANGED <<sse, cache>>
        BY <2>4 DEF StreamOpens, FrameSent, StreamEnds, Reconnect, PollTimer, PollServed, Hide,
                    Unhide, StateChanges, ServerRestarts, vars, stream, polling
      <3> QED
        BY <2>3, <3>1 DEF Data
    <2>5. CASE FrameArrives
      BY <2>5 DEF FrameArrives, NoFrame
    <2>6. CASE LanesChange \/ Close
      BY <2>6 DEF LanesChange, Observe, Close
    <2>7. CASE Mount
      <3>1. sse' = sse /\ \E k \in Keys : Observe(k)
        BY <2>7 DEF Mount
      <3>2. Observe(key)
        BY <3>1 DEF Observe
      <3>3. cache'[key] = cache[key]
        BY <2>0, <2>1, <3>2 DEF Observe, NoData, TypeOK
      <3> QED
        BY <2>3, <3>1, <3>3 DEF Data
    <2>8. CASE Tick
      <3>1. cache[key] \in Polled
        BY <2>0, <2>1, FieldTypes
      <3>2. Data'.ver = Data.ver /\ Data'.gap = Data.gap
        BY <2>1, <2>8, <3>1 DEF Tick, Data, Polled
      <3>3. sse'.ver = sse.ver /\ sse'.got = sse.got
        BY <2>0, <2>8 DEF Tick, TypeOK, Received
      <3> QED
        BY <2>3, <3>2, <3>3
    <2>9. CASE PollFails \/ PollArrives
      <3>1. PICK v : PollEnds(v) /\ (v = 0 \/ (v = request.ver /\ request.st = "served"))
        BY <2>9 DEF PollFails, PollArrives
      <3>2. cache' = Landed(v) /\ sse' = sse
        BY <3>1 DEF PollEnds, stream
      <3>3. CASE key \notin waiting
        BY <2>1, <2>3, <3>2, <3>3 DEF Landed, Data
      <3>4. CASE key \in waiting
        <4>1. /\ Data'.ver = v
              /\ Data'.gap = IF sse.got THEN Smaller(sse.age, Window + 1) ELSE 0
          BY <2>1, <3>2, <3>4 DEF Landed, Data
        <4>2. v = request.ver /\ request.st = "served" /\ v # 0
          BY <3>1, <4>1 DEF Data
        <4>3. /\ Data.ver <= v
              /\ request.age < sse.age => sse.ver <= v
              /\ sse.got => Data.gap <= sse.age
              /\ ~sse.got => sse.ver = 0
          BY <1>1, <2>1, <4>2 DEF IInv, Served, GapKept, Awaited, Data
        <4>4. CASE SseFresh'
          <5>1. SseFresh
            BY <2>1, <3>2, <4>1, <4>3, <4>4 DEF SseFresh, Smaller
          <5> QED
            BY <2>1, <3>2, <4>1, <4>3, <4>4, <5>1 DEF Shown
        <4>5. CASE ~SseFresh'
          <5>1. Shown'.ver = v
            BY <4>1, <4>2, <4>5 DEF Shown
          <5>2. sse.got => sse.age > Window
            BY <2>1, <3>2, <4>1, <4>5 DEF SseFresh, Smaller
          <5>3. sse.ver <= v
            BY <2>1, <4>2, <4>3, <5>2
          <5> QED
            BY <2>1, <2>2, <4>3, <5>1, <5>3
        <4> QED
          BY <4>4, <4>5
      <3> QED
        BY <3>3, <3>4
    <2> QED
      BY <1>1, <2>4, <2>5, <2>6, <2>7, <2>8, <2>9 DEF Next
  <1> QED
    BY <1>1, Invariance, PTL DEF Spec, ShownForward

===============================================================================
