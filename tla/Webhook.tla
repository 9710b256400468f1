------------------------------ MODULE Webhook -------------------------------
(***************************************************************************)
(* Delivery of runtime events to webhook targets: internal/webhook,        *)
(* internal/events, the log of deliveries (model/webhook_delivery.go), and *)
(* the lane events of internal/route/runtime.go as their producers.        *)
(*                                                                         *)
(* An event goes through a bounded queue that never blocks the request     *)
(* path, one worker that takes it to the targets, a window of silence per  *)
(* (target, lane, type), and a goroutine per target that posts and         *)
(* retries.  Time is in ticks; stamps are kept as ages, and an age stops   *)
(* at StormWindow.  The events of members and of channels take the same    *)
(* path as those of lanes and are left out, as are body and signature and, *)
(* in the log, the outcome and the number of attempts.                     *)
(***************************************************************************)
EXTENDS Naturals, Sequences, FiniteSets, Bags

CONSTANTS
    Lanes,
    Targets,
    Configs,       \* the configurations of the targets, in the order operators store them
    QueueSize,     \* eventQueueSize
    StormWindow,   \* stormWindow, in ticks
    MaxStorm,      \* maxStormEntries
    RetryDelays,   \* retryDelays, in ticks
    Reachable,     \* the targets whose posts come back; of the others nothing is assumed
    MaxEvents,     \* bound: events and test deliveries
    MaxRestarts    \* bound: restarts of the process

Types == {"lane_unavailable", "lane_recovered", "reset"}

ASSUME WebhookAssumption ==
    /\ {QueueSize, StormWindow, MaxStorm, MaxEvents, MaxRestarts} \subseteq Nat
    /\ RetryDelays \in Seq(Nat)
    /\ Reachable \subseteq Targets
    /\ Configs \in Seq([Targets -> [enabled : BOOLEAN, events : SUBSET Types]])
    /\ Configs # <<>>

VARIABLES
    laneDown,     \* Runtime.laneDown of every lane
    published,    \* the events so far; the next event has this number
    queue,        \* eventQueue
    dropped,      \* droppedEvents
    targets,      \* the option PBRWebhookTargets
    stormLast,    \* stormLast: the keys let through, and how long ago
    deliveries,   \* the goroutines in deliver
    log,          \* the table webhook_deliveries
    sent,         \* history: how long ago a delivery of each key began
    puts,         \* configurations stored since the first
    restarts

vars == <<laneDown, published, queue, dropped, targets, stormLast, deliveries, log, sent,
          puts, restarts>>

MaxAttempts == 1 + Len(RetryDelays)
Ids == 0 .. MaxEvents
Event == [id : Ids, type : Types, lane : Lanes]
Keys == Targets \X Lanes \X Types
Waits == {0} \cup UNION {0 .. RetryDelays[i] : i \in DOMAIN RetryDelays}
Delivery == [id : Ids, target : Targets, attempt : 1 .. MaxAttempts, wait : Waits]
Entry == [id : Ids, target : Targets]

Init ==
    /\ laneDown = [l \in Lanes |-> FALSE]
    /\ published = 0 /\ queue = <<>> /\ dropped = 0
    /\ targets = Configs[1]
    /\ stormLast = <<>> /\ deliveries = {} /\ log = EmptyBag
    /\ sent = [k \in Keys |-> StormWindow]
    /\ puts = 0 /\ restarts = 0

-----------------------------------------------------------------------------
(* Producers: appendEvent, Publish and the hook enqueueEvent.              *)

EnqueueEvent(type, lane) ==
    /\ published < MaxEvents
    /\ published' = published + 1
    /\ IF Len(queue) < QueueSize
       THEN /\ queue' = Append(queue, [id |-> published, type |-> type, lane |-> lane])
            /\ UNCHANGED dropped
       ELSE /\ dropped' = dropped + 1
            /\ UNCHANGED queue
    /\ UNCHANGED <<targets, stormLast, deliveries, log, sent, puts, restarts>>

\* A request found no member to try.  One event per outage.
NoteLaneUnavailable(l) ==
    /\ ~laneDown[l]
    /\ laneDown' = [laneDown EXCEPT ![l] = TRUE]
    /\ EnqueueEvent("lane_unavailable", l)

\* The first success after an outage.
RecordSuccess(l) ==
    /\ laneDown[l]
    /\ laneDown' = [laneDown EXCEPT ![l] = FALSE]
    /\ EnqueueEvent("lane_recovered", l)

\* An operator resets the circuits; the outage is not over by that.
Reset(l) ==
    /\ EnqueueEvent("reset", l)
    /\ UNCHANGED laneDown

-----------------------------------------------------------------------------
(* The worker.                                                             *)

TargetMatches(t, ev) == targets[t].events = {} \/ ev.type \in targets[t].events

\* Mutant of StormKey: the type is not part of the key.
StormKeyOfLane(t, ev) == <<t, ev.lane, "reset">>

StormKey(t, ev) == <<t, ev.lane, ev.type>>

\* Mutant of Swept: a full table is emptied.
SweptBare == IF Cardinality(DOMAIN stormLast) >= MaxStorm THEN {} ELSE DOMAIN stormLast

\* The keys left when stormAllow has swept a full table.
Swept ==
    IF Cardinality(DOMAIN stormLast) >= MaxStorm
    THEN {k \in DOMAIN stormLast : stormLast[k] < StormWindow}
    ELSE DOMAIN stormLast

StormAllow(k) == ~(k \in Swept /\ stormLast[k] < StormWindow)

\* The targets that ev goes to.
Chosen(ev) ==
    {t \in Targets : targets[t].enabled /\ TargetMatches(t, ev) /\ StormAllow(StormKey(t, ev))}

\* dispatch takes the head of the queue to every target, and waits for none.
\* The table is swept when the first target asks; sweeping changes no answer.
DispatchTo(ev) ==
    LET let == {StormKey(t, ev) : t \in Chosen(ev)}
        kept == IF \E t \in Targets : targets[t].enabled /\ TargetMatches(t, ev)
                THEN Swept ELSE DOMAIN stormLast
    IN  /\ queue' = Tail(queue)
        /\ stormLast' = [k \in kept \cup let |-> IF k \in let THEN 0 ELSE stormLast[k]]
        /\ deliveries' = deliveries \cup
              {[id |-> ev.id, target |-> t, attempt |-> 1, wait |-> 0] : t \in Chosen(ev)}
        /\ sent' = [k \in Keys |->
              IF \E t \in Chosen(ev) : k = <<t, ev.lane, ev.type>> THEN 0 ELSE sent[k]]
        /\ UNCHANGED <<laneDown, published, dropped, targets, log, puts, restarts>>

\* Mutant of Dispatch: the worker posts by itself, one event after the other.
DispatchInTurn == queue # <<>> /\ deliveries = {} /\ DispatchTo(Head(queue))

Dispatch == queue # <<>> /\ DispatchTo(Head(queue))

-----------------------------------------------------------------------------
(* One delivery.                                                           *)

\* recordDelivery.  That the database may refuse the row is left out: nobody
\* reads the table but the operator.
RecordDelivery(d) ==
    log' = log (+) SetToBag({[id |-> d.id, target |-> d.target]})

Posted(d) == d \in deliveries /\ d.wait = 0

PostSucceeds(d) ==
    /\ Posted(d)
    /\ deliveries' = deliveries \ {d}
    /\ RecordDelivery(d)
    /\ UNCHANGED <<laneDown, published, queue, dropped, targets, stormLast, sent, puts, restarts>>

\* Mutant of PostFails: the attempts are counted one too far.
PostFailsOnceMore(d) ==
    /\ Posted(d)
    /\ IF d.attempt > Len(RetryDelays)
       THEN /\ deliveries' = (deliveries \ {d}) \cup {[d EXCEPT !.attempt = @ + 1]}
            /\ UNCHANGED log
       ELSE /\ deliveries' = (deliveries \ {d}) \cup
                  {[d EXCEPT !.attempt = @ + 1, !.wait = RetryDelays[d.attempt]]}
            /\ UNCHANGED log
    /\ UNCHANGED <<laneDown, published, queue, dropped, targets, stormLast, sent, puts, restarts>>

\* Mutant of PostFails: every failed attempt is recorded.
PostFailsRecorded(d) ==
    /\ Posted(d)
    /\ RecordDelivery(d)
    /\ deliveries' = (deliveries \ {d}) \cup
          IF d.attempt = MaxAttempts THEN {}
          ELSE {[d EXCEPT !.attempt = @ + 1, !.wait = RetryDelays[d.attempt]]}
    /\ UNCHANGED <<laneDown, published, queue, dropped, targets, stormLast, sent, puts, restarts>>

\* No answer, or not a 2xx.  The last failure is the dead letter.
PostFails(d) ==
    /\ Posted(d)
    /\ IF d.attempt = MaxAttempts
       THEN /\ deliveries' = deliveries \ {d}
            /\ RecordDelivery(d)
       ELSE /\ deliveries' = (deliveries \ {d}) \cup
                  {[d EXCEPT !.attempt = @ + 1, !.wait = RetryDelays[d.attempt]]}
            /\ UNCHANGED log
    /\ UNCHANGED <<laneDown, published, queue, dropped, targets, stormLast, sent, puts, restarts>>

-----------------------------------------------------------------------------
(* Operators, the clock, and the end of the process.                       *)

\* POST /api/webhooks/test goes to any target, past queue and window.
DeliverTest(t) ==
    /\ published < MaxEvents
    /\ published' = published + 1
    /\ deliveries' = deliveries \cup
          {[id |-> published, target |-> t, attempt |-> 1, wait |-> 0]}
    /\ UNCHANGED <<laneDown, queue, dropped, targets, stormLast, log, sent, puts, restarts>>

\* A delivery under way keeps the target it was started with.
PutWebhooks ==
    /\ puts + 1 < Len(Configs)
    /\ puts' = puts + 1
    /\ targets' = Configs[puts' + 1]
    /\ UNCHANGED <<laneDown, published, queue, dropped, stormLast, deliveries, log, sent, restarts>>

Aged(age) == IF age < StormWindow THEN age + 1 ELSE age

Tick ==
    /\ stormLast' = [k \in DOMAIN stormLast |-> Aged(stormLast[k])]
    /\ sent' = [k \in Keys |-> Aged(sent[k])]
    /\ deliveries' = {[d EXCEPT !.wait = IF @ > 0 THEN @ - 1 ELSE 0] : d \in deliveries}
    /\ UNCHANGED <<laneDown, published, queue, dropped, targets, log, puts, restarts>>

\* Everything but the database is in memory.
Restart ==
    /\ restarts < MaxRestarts
    /\ restarts' = restarts + 1
    /\ laneDown' = [l \in Lanes |-> FALSE]
    /\ queue' = <<>> /\ dropped' = 0
    /\ stormLast' = <<>> /\ deliveries' = {}
    /\ sent' = [k \in Keys |-> StormWindow]
    /\ UNCHANGED <<published, targets, log, puts>>

Next ==
    \/ \E l \in Lanes : NoteLaneUnavailable(l) \/ RecordSuccess(l) \/ Reset(l)
    \/ Dispatch
    \/ \E d \in deliveries : PostSucceeds(d) \/ PostFails(d)
    \/ \E t \in Targets : DeliverTest(t)
    \/ PutWebhooks \/ Tick \/ Restart

Spec == Init /\ [][Next]_vars

\* The worker runs, time passes, and the posts to a reachable target come back
\* (httpClient has a timeout), with any answer.
PostTo(t) == \E d \in deliveries : d.target = t /\ (PostSucceeds(d) \/ PostFails(d))

Fairness == WF_vars(Dispatch) /\ WF_vars(Tick) /\ \A t \in Reachable : SF_vars(PostTo(t))

FairSpec == Spec /\ Fairness

-----------------------------------------------------------------------------
TypeOK ==
    /\ laneDown \in [Lanes -> BOOLEAN]
    /\ published \in Ids
    /\ queue \in Seq(Event) /\ Len(queue) <= QueueSize
    /\ dropped \in Nat
    /\ targets \in [Targets -> [enabled : BOOLEAN, events : SUBSET Types]]
    /\ DOMAIN stormLast \subseteq Keys
    /\ \A k \in DOMAIN stormLast : stormLast[k] \in 0 .. StormWindow
    /\ deliveries \subseteq Delivery
    /\ IsABag(log) /\ DOMAIN log \subseteq Entry
    /\ sent \in [Keys -> 0 .. StormWindow]
    /\ puts \in 0 .. Len(Configs) - 1 /\ restarts \in 0 .. MaxRestarts

\* The worker has taken ev, and a delivery of it to t begins.
Taken(ev) == queue # <<>> /\ ev = Head(queue) /\ queue' = Tail(queue) /\ restarts' = restarts
Begins(t, ev) == \E d \in deliveries' : d.id = ev.id /\ d.target = t
Recent(t, ev) == sent[<<t, ev.lane, ev.type>>] < StormWindow

\* dispatch, stormAllow: no target is sent the same alert twice within the
\* window, also when the table of keys is full and swept, and however many
\* deliveries are still being retried.
OncePerWindow ==
    [][\A t \in Targets : queue # <<>> =>
          LET ev == Head(queue) IN Taken(ev) /\ Begins(t, ev) => ~Recent(t, ev)]_vars

\* dispatch, stormAllow: an alert that a target wants is withheld only if the
\* same alert to the same target began less than a window ago.  An outage is
\* never silenced by the recovery before it, or a recovery by its outage.
WithheldOnlyAsRepeat ==
    [][\A t \in Targets : queue # <<>> =>
          LET ev == Head(queue) IN
          Taken(ev) /\ targets[t].enabled /\ TargetMatches(t, ev)
              => Begins(t, ev) \/ Recent(t, ev)]_vars

\* deliver, recordDelivery: a delivery has at most one row in the log, and it
\* is final: nothing is posted any more to that target for that event.
OneConclusion ==
    \A e \in DOMAIN log :
        /\ log[e] = 1
        /\ \A d \in deliveries : ~(d.id = e.id /\ d.target = e.target)

\* dispatch: the deliveries to a target come to an end whatever becomes of the
\* posts to other targets; one that never answers holds nobody up.
TargetsIsolated ==
    \A i \in Ids, t \in Reachable :
        (\E n \in DOMAIN queue : queue[n].id = i)
            ~> /\ \A m \in DOMAIN queue : queue[m].id # i
               /\ \A d \in deliveries : ~(d.id = i /\ d.target = t)
=============================================================================
