----------------------------- MODULE WebhookProofs ----------------------------
(* Proofs about webhook delivery, for any lanes, targets, configurations,     *)
(* queue size, window, size of the table of keys and retry delays.            *)
EXTENDS Webhook, SequenceTheorems, TLAPS

\* Events are numbered in the order they are published.
Numbered ==
    /\ \A n \in DOMAIN queue : queue[n].id < published
    /\ \A d \in deliveries : d.id < published
    /\ \A e \in DOMAIN log : e.id < published

\* What is in the queue was not taken before.
Waiting ==
    \A n \in DOMAIN queue :
        /\ \A m \in DOMAIN queue : m # n => queue[m].id # queue[n].id
        /\ \A d \in deliveries : d.id # queue[n].id
        /\ \A e \in DOMAIN log : e.id # queue[n].id

\* There is one goroutine for an event and a target.
OneEach ==
    \A c, d \in deliveries : c.id = d.id /\ c.target = d.target => c = d

\* The table of keys agrees with the history, as far as it can tell.
StormTable ==
    /\ \A k \in DOMAIN stormLast : stormLast[k] = sent[k]
    /\ \A k \in Keys \ DOMAIN stormLast : sent[k] = StormWindow

IInv == TypeOK /\ Numbered /\ Waiting /\ OneEach /\ OneConclusion /\ StormTable

-------------------------------------------------------------------------------
(* Operators *)

LEMMA WaitsType == Waits \subseteq Nat /\ 0 \in Waits
  BY WebhookAssumption DEF Waits

LEMMA MaxAttemptsType == MaxAttempts \in Nat /\ MaxAttempts >= 1
  BY WebhookAssumption, LenProperties DEF MaxAttempts

LEMMA RetryDelayType ==
    ASSUME NEW n \in 1 .. MaxAttempts, n # MaxAttempts
    PROVE  RetryDelays[n] \in Waits /\ n + 1 \in 1 .. MaxAttempts
  <1>1. n \in DOMAIN RetryDelays
    BY WebhookAssumption, LenProperties DEF MaxAttempts
  <1>2. RetryDelays[n] \in 0 .. RetryDelays[n]
    BY <1>1, WebhookAssumption
  <1> QED
    BY <1>1, <1>2, MaxAttemptsType DEF Waits

\* A row more in the log, for a delivery that had none.
LEMMA NewRow ==
    ASSUME NEW B, NEW e, IsABag(B), e \notin DOMAIN B
    PROVE  LET C == B (+) SetToBag({e}) IN
           /\ IsABag(C)
           /\ DOMAIN C = DOMAIN B \cup {e}
           /\ C[e] = 1
           /\ \A x \in DOMAIN B : C[x] = B[x]
  <1> DEFINE C == B (+) SetToBag({e})
  <1>1. C = [x \in DOMAIN B \cup {e} |->
                (IF x \in DOMAIN B THEN B[x] ELSE 0) + (IF x \in {e} THEN 1 ELSE 0)]
    BY DEF (+), SetToBag
  <1> HIDE DEF C
  <1>2. \A x \in DOMAIN B : B[x] \in Nat /\ B[x] > 0
    BY DEF IsABag
  <1>3. DOMAIN C = DOMAIN B \cup {e} /\ C[e] = 1
    BY <1>1
  <1>4. \A x \in DOMAIN B : C[x] = B[x]
    BY <1>1, <1>2
  <1>5. IsABag(C)
    BY <1>1, <1>2, <1>3, <1>4 DEF IsABag
  <1> QED
    BY <1>3, <1>4, <1>5 DEF C

\* What the worker leaves in the queue is what was behind the head.
LEMMA TailQueue ==
    ASSUME TypeOK, queue # <<>>
    PROVE  /\ Head(queue) \in Event /\ Head(queue) = queue[1] /\ 1 \in DOMAIN queue
           /\ Tail(queue) \in Seq(Event) /\ Len(Tail(queue)) <= QueueSize
           /\ Tail(queue) # queue
           /\ \A n \in DOMAIN Tail(queue) :
                 n + 1 \in DOMAIN queue /\ n + 1 # 1 /\ Tail(queue)[n] = queue[n + 1]
  <1>1. queue \in Seq(Event) /\ Len(queue) <= QueueSize /\ QueueSize \in Nat
    BY WebhookAssumption DEF TypeOK
  <1>2. Len(queue) \in Nat /\ Len(queue) # 0 /\ DOMAIN queue = 1 .. Len(queue)
    BY <1>1, EmptySeq, LenProperties
  <1>3. /\ Head(queue) \in Event /\ Tail(queue) \in Seq(Event)
        /\ Len(Tail(queue)) = Len(queue) - 1
        /\ \A i \in 1 .. Len(Tail(queue)) : Tail(queue)[i] = queue[i + 1]
    BY <1>1, HeadTailProperties
  <1>4. DOMAIN Tail(queue) = 1 .. Len(queue) - 1
    BY <1>3, LenProperties
  <1>5. Head(queue) = queue[1] /\ 1 \in DOMAIN queue
    BY <1>1, <1>2
  <1>6. Tail(queue) # queue /\ Len(Tail(queue)) <= QueueSize
    <2> DEFINE n == Len(queue)
               m == Len(Tail(queue))
    <2>1. n \in Nat /\ n <= QueueSize /\ QueueSize \in Nat /\ m = n - 1
      BY <1>1, <1>2, <1>3, Zenon
    <2> HIDE DEF n, m
    <2>2. m # n /\ m <= QueueSize
      BY <2>1
    <2> QED BY <2>2, Zenon DEF n, m
  <1>7. ASSUME NEW n \in DOMAIN Tail(queue)
        PROVE  n + 1 \in DOMAIN queue /\ n + 1 # 1 /\ Tail(queue)[n] = queue[n + 1]
    BY <1>2, <1>3, <1>4
  <1> QED
    BY <1>3, <1>5, <1>6, <1>7

\* The numbers that are in use.
LEMMA IdsInUse ==
    ASSUME TypeOK, Numbered
    PROVE  /\ published \in Nat
           /\ \A n \in DOMAIN queue : queue[n].id \in Nat /\ queue[n].id < published
           /\ \A d \in deliveries : d.id \in Nat /\ d.id < published
           /\ \A e \in DOMAIN log : e.id \in Nat /\ e.id < published
  <1>1. Ids \subseteq Nat
    BY WebhookAssumption DEF Ids
  <1>2. ASSUME NEW n \in DOMAIN queue PROVE queue[n].id \in Nat
    <2>1. queue \in Seq(Event) /\ n \in 1 .. Len(queue)
      BY LenProperties DEF TypeOK
    <2>2. queue[n] \in Event
      BY <2>1, ElementOfSeq
    <2> QED BY <1>1, <2>2 DEF Event
  <1>3. \A d \in deliveries : d.id \in Nat
    BY <1>1 DEF TypeOK, Delivery
  <1>4. \A e \in DOMAIN log : e.id \in Nat
    BY <1>1 DEF TypeOK, Entry
  <1> QED
    BY <1>1, <1>2, <1>3, <1>4 DEF Numbered, TypeOK

LEMMA InitIInv == Init => IInv
  <1> SUFFICES ASSUME Init PROVE IInv
    OBVIOUS
  <1> USE WebhookAssumption
  <1>1. /\ queue = <<>> /\ deliveries = {} /\ published = 0 /\ puts = 0 /\ restarts = 0
        /\ dropped = 0 /\ sent = [k \in Keys |-> StormWindow]
    BY DEF Init
  <1>2. DOMAIN stormLast = {}
    BY DEF Init
  <1>3. DOMAIN log = {} /\ IsABag(log)
    BY DEF Init, EmptyBag, SetToBag, IsABag
  <1>4. laneDown \in [Lanes -> BOOLEAN]
    BY DEF Init
  <1>5. Len(Configs) \in Nat /\ Len(Configs) # 0 /\ targets = Configs[1]
    BY EmptySeq, LenProperties DEF Init
  <1>6. targets \in [Targets -> [enabled : BOOLEAN, events : SUBSET Types]]
    BY <1>5, ElementOfSeq
  <1>7. queue \in Seq(Event) /\ Len(queue) <= QueueSize /\ DOMAIN queue = {}
    BY <1>1
  <1>8. sent \in [Keys -> 0 .. StormWindow]
    BY <1>1
  <1>9. puts \in 0 .. Len(Configs) - 1 /\ restarts \in 0 .. MaxRestarts /\ published \in Ids
    BY <1>1, <1>5 DEF Ids
  <1>10. TypeOK
    BY <1>1, <1>2, <1>3, <1>4, <1>6, <1>7, <1>8, <1>9 DEF TypeOK
  <1> QED
    BY <1>1, <1>2, <1>3, <1>7, <1>10
       DEF IInv, Numbered, Waiting, OneEach, OneConclusion, StormTable

-------------------------------------------------------------------------------
(* Producers and operators *)

\* An event, published with the next number, enters the queue or is dropped.
LEMMA EnqueueStep ==
    ASSUME IInv, NEW type \in Types, NEW lane \in Lanes, EnqueueEvent(type, lane),
           laneDown' \in [Lanes -> BOOLEAN]
    PROVE  IInv'
  <1> USE WebhookAssumption
  <1> DEFINE ev == [id |-> published, type |-> type, lane |-> lane]
  <1>0. TypeOK /\ published \in Nat /\ queue \in Seq(Event)
    BY DEF IInv, TypeOK, Ids
  <1>1. /\ published' = published + 1 /\ published' \in Ids
        /\ UNCHANGED <<targets, stormLast, deliveries, log, sent, puts, restarts>>
    BY <1>0 DEF EnqueueEvent, Ids
  <1>2. ev \in Event
    BY <1>0 DEF Event, TypeOK, IInv
  <1>3. ASSUME NEW n \in DOMAIN queue' PROVE
             \/ n \in DOMAIN queue /\ queue'[n] = queue[n]
             \/ n = Len(queue) + 1 /\ n \notin DOMAIN queue /\ queue'[n].id = published
    <2>1. CASE queue' = queue
      BY <2>1
    <2>2. CASE queue' = Append(queue, ev)
      BY <1>0, <1>2, <2>2, AppendProperties, LenProperties
    <2> QED
      BY <2>1, <2>2 DEF EnqueueEvent
  <1>4. queue' \in Seq(Event) /\ Len(queue') <= QueueSize /\ dropped' \in Nat
    <2> HIDE DEF ev
    <2>1. CASE Len(queue) < QueueSize
      <3>1. queue' = Append(queue, ev) /\ dropped' = dropped
        BY <2>1 DEF EnqueueEvent, ev
      <3>2. Append(queue, ev) \in Seq(Event) /\ Len(Append(queue, ev)) = Len(queue) + 1
        BY <1>0, <1>2, AppendProperties
      <3>3. Len(queue) \in Nat
        BY <1>0, LenProperties
      <3> QED
        BY <2>1, <3>1, <3>2, <3>3 DEF IInv, TypeOK
    <2>2. CASE ~(Len(queue) < QueueSize)
      BY <2>2 DEF EnqueueEvent, IInv, TypeOK
    <2> QED
      BY <2>1, <2>2
  <1>5. TypeOK'
    BY <1>0, <1>1, <1>4 DEF TypeOK
  <1>6. /\ \A d \in deliveries : d.id \in Nat /\ d.id < published
        /\ \A e \in DOMAIN log : e.id \in Nat /\ e.id < published
        /\ \A n \in DOMAIN queue : queue[n].id \in Nat /\ queue[n].id < published
    BY IdsInUse DEF IInv
  <1>9. Numbered'
    BY <1>0, <1>1, <1>3, <1>6, SMTT(20) DEF Numbered
  <1>10. Waiting'
    <2> SUFFICES ASSUME NEW n \in DOMAIN queue'
                 PROVE  /\ \A m \in DOMAIN queue' : m # n => queue'[m].id # queue'[n].id
                        /\ \A d \in deliveries : d.id # queue'[n].id
                        /\ \A e \in DOMAIN log : e.id # queue'[n].id
      BY <1>1 DEF Waiting
    <2>1. Waiting
      BY DEF IInv
    <2>2. CASE n \in DOMAIN queue /\ queue'[n] = queue[n]
      <3>1. ASSUME NEW m \in DOMAIN queue', m # n PROVE queue'[m].id # queue[n].id
        <4>1. CASE m \in DOMAIN queue /\ queue'[m] = queue[m]
          BY <2>1, <2>2, <3>1, <4>1, Zenon DEF Waiting
        <4>2. CASE queue'[m].id = published
          BY <1>0, <1>6, <2>2, <4>2
        <4> QED BY <1>3, <4>1, <4>2
      <3>2. \A d \in deliveries : d.id # queue[n].id
        BY <2>1, <2>2, Zenon DEF Waiting
      <3>3. \A e \in DOMAIN log : e.id # queue[n].id
        BY <2>1, <2>2, Zenon DEF Waiting
      <3> QED BY <2>2, <3>1, <3>2, <3>3
    <2>3. CASE n = Len(queue) + 1 /\ n \notin DOMAIN queue /\ queue'[n].id = published
      BY <1>3, <1>6, <2>3
    <2> QED
      BY <1>3, <2>2, <2>3
  <1>11. OneEach' /\ OneConclusion' /\ StormTable'
    BY <1>1 DEF IInv, OneEach, OneConclusion, StormTable
  <1> QED
    BY <1>5, <1>9, <1>10, <1>11 DEF IInv

LEMMA ProducerStep ==
    ASSUME IInv, NEW l \in Lanes, NoteLaneUnavailable(l) \/ RecordSuccess(l) \/ Reset(l)
    PROVE  IInv'
  <1>1. laneDown \in [Lanes -> BOOLEAN]
    BY DEF IInv, TypeOK
  <1>2. laneDown' \in [Lanes -> BOOLEAN]
    BY <1>1 DEF NoteLaneUnavailable, RecordSuccess, Reset
  <1>3. \E type \in Types : EnqueueEvent(type, l)
    BY DEF NoteLaneUnavailable, RecordSuccess, Reset, Types
  <1> QED
    BY <1>2, <1>3, EnqueueStep

LEMMA TestStep ==
    ASSUME IInv, NEW t \in Targets, DeliverTest(t)
    PROVE  IInv'
  <1> USE WebhookAssumption
  <1> DEFINE new == [id |-> published, target |-> t, attempt |-> 1, wait |-> 0]
  <1>1. /\ published' = published + 1 /\ published' \in Ids /\ published \in Nat
        /\ deliveries' = deliveries \cup {new}
        /\ UNCHANGED <<laneDown, queue, dropped, targets, stormLast, log, sent, puts, restarts>>
    BY DEF DeliverTest, Ids, IInv, TypeOK
  <1>2. new \in Delivery
    BY <1>1, WaitsType, MaxAttemptsType DEF Delivery, IInv, TypeOK
  <1>3. new.id = published
    OBVIOUS
  <1>4. /\ \A d \in deliveries : d.id \in Nat /\ d.id < published
        /\ \A e \in DOMAIN log : e.id \in Nat /\ e.id < published
        /\ \A n \in DOMAIN queue : queue[n].id \in Nat /\ queue[n].id < published
    BY IdsInUse DEF IInv
  <1> HIDE DEF new
  <1>7. TypeOK'
    BY <1>1, <1>2 DEF IInv, TypeOK
  <1>8. Numbered' /\ Waiting'
    BY <1>1, <1>3, <1>4 DEF IInv, Numbered, Waiting
  <1>9. OneEach' /\ OneConclusion' /\ StormTable'
    BY <1>1, <1>3, <1>4 DEF IInv, OneEach, OneConclusion, StormTable
  <1> QED
    BY <1>7, <1>8, <1>9 DEF IInv

LEMMA PutStep == IInv /\ PutWebhooks => IInv'
  <1> SUFFICES ASSUME IInv, PutWebhooks PROVE IInv'
    OBVIOUS
  <1>1. /\ puts' = puts + 1 /\ puts + 1 < Len(Configs) /\ targets' = Configs[puts + 2]
        /\ UNCHANGED <<laneDown, published, queue, dropped, stormLast, deliveries, log, sent,
                       restarts>>
    BY WebhookAssumption, LenProperties DEF PutWebhooks, IInv, TypeOK
  <1>2. puts \in Nat /\ Len(Configs) \in Nat
    BY WebhookAssumption, LenProperties DEF IInv, TypeOK
  <1>3. puts + 2 \in 1 .. Len(Configs) /\ puts' \in 0 .. Len(Configs) - 1
    BY <1>1, <1>2
  <1>4. targets' \in [Targets -> [enabled : BOOLEAN, events : SUBSET Types]]
    BY <1>1, <1>3, WebhookAssumption, ElementOfSeq
  <1> QED
    BY <1>1, <1>3, <1>4
       DEF IInv, TypeOK, Numbered, Waiting, OneEach, OneConclusion, StormTable

-------------------------------------------------------------------------------
(* The worker *)

\* The targets of an event: what stormAllow lets through by the table is what
\* the history lets through.
LEMMA AllowedByHistory ==
    ASSUME TypeOK, StormTable, NEW k \in Keys
    PROVE  StormAllow(k) <=> ~(sent[k] < StormWindow)
  <1> USE WebhookAssumption
  <1>1. sent[k] \in 0 .. StormWindow /\ StormWindow \in Nat
    BY DEF TypeOK
  <1>2. k \in DOMAIN stormLast => stormLast[k] = sent[k]
    BY DEF StormTable
  <1>3. k \notin DOMAIN stormLast => sent[k] = StormWindow
    BY DEF StormTable
  <1>4. Swept \subseteq DOMAIN stormLast
    BY DEF Swept
  <1>5. k \in DOMAIN stormLast \ Swept => ~(stormLast[k] < StormWindow)
    BY DEF Swept
  <1> QED
    BY <1>1, <1>2, <1>3, <1>4, <1>5 DEF StormAllow

LEMMA DispatchStep == IInv /\ Dispatch => IInv'
  <1> SUFFICES ASSUME IInv, queue # <<>>, DispatchTo(Head(queue)) PROVE IInv'
    BY DEF Dispatch
  <1> USE WebhookAssumption
  <1> DEFINE ev == Head(queue)
             new == {[id |-> ev.id, target |-> t, attempt |-> 1, wait |-> 0] : t \in Chosen(ev)}
             let == {StormKey(t, ev) : t \in Chosen(ev)}
             kept == IF \E t \in Targets : targets[t].enabled /\ TargetMatches(t, ev)
                     THEN Swept ELSE DOMAIN stormLast
  <1>1. /\ queue' = Tail(queue)
        /\ stormLast' = [k \in kept \cup let |-> IF k \in let THEN 0 ELSE stormLast[k]]
        /\ deliveries' = deliveries \cup new
        /\ sent' = [k \in Keys |->
              IF \E t \in Chosen(ev) : k = <<t, ev.lane, ev.type>> THEN 0 ELSE sent[k]]
        /\ UNCHANGED <<laneDown, published, dropped, targets, log, puts, restarts>>
    BY DEF DispatchTo
  <1>2. TypeOK /\ ev \in Event /\ ev = queue[1] /\ 1 \in DOMAIN queue
    BY TailQueue DEF IInv
  <1>3. /\ queue' \in Seq(Event) /\ Len(queue') <= QueueSize
        /\ \A n \in DOMAIN queue' :
              n + 1 \in DOMAIN queue /\ n + 1 # 1 /\ queue'[n] = queue[n + 1]
    BY <1>1, <1>2, TailQueue
  <1>4. \A d \in new : d \in Delivery /\ d.id = ev.id
    BY <1>2, WaitsType, MaxAttemptsType DEF Chosen, Delivery, Event
  <1>5. \A c, d \in new : c.target = d.target => c = d
    OBVIOUS
  <1>6. let \subseteq Keys
    <2>1. ev.lane \in Lanes /\ ev.type \in Types
      BY <1>2 DEF Event
    <2>2. Chosen(ev) \subseteq Targets
      BY DEF Chosen
    <2> HIDE DEF ev
    <2> QED BY <2>1, <2>2 DEF StormKey, Keys
  <1>7. kept \subseteq DOMAIN stormLast
        /\ \A k \in DOMAIN stormLast \ kept : ~(stormLast[k] < StormWindow)
    BY DEF Swept
  <1>8. \A k \in Keys : (\E t \in Chosen(ev) : k = <<t, ev.lane, ev.type>>) <=> k \in let
    BY DEF StormKey
  <1> HIDE DEF ev, new, let, kept
  <1>9. /\ \A k \in DOMAIN stormLast : k \in Keys /\ stormLast[k] \in 0 .. StormWindow
        /\ sent \in [Keys -> 0 .. StormWindow]
    BY <1>2 DEF TypeOK
  <1>10. /\ DOMAIN stormLast' = kept \cup let
         /\ \A k \in let : stormLast'[k] = 0
         /\ \A k \in kept \ let : stormLast'[k] = stormLast[k]
    BY <1>1
  <1>11. /\ sent' \in [Keys -> 0 .. StormWindow]
         /\ \A k \in let : sent'[k] = 0
         /\ \A k \in Keys \ let : sent'[k] = sent[k]
    BY <1>1, <1>6, <1>8, <1>9
  <1>12. StormTable'
    <2>1. StormTable
      BY DEF IInv
    <2>2. \A k \in DOMAIN stormLast' : stormLast'[k] = sent'[k]
      BY <1>6, <1>7, <1>9, <1>10, <1>11, <2>1 DEF StormTable
    <2>3. \A k \in Keys \ DOMAIN stormLast' : sent'[k] = StormWindow
      BY <1>7, <1>9, <1>10, <1>11, <2>1 DEF StormTable
    <2> QED BY <2>2, <2>3 DEF StormTable
  <1>13. TypeOK'
    <2>1. DOMAIN stormLast' \subseteq Keys
          /\ \A k \in DOMAIN stormLast' : stormLast'[k] \in 0 .. StormWindow
      BY <1>6, <1>7, <1>9, <1>10
    <2>2. deliveries' \subseteq Delivery
      BY <1>1, <1>2, <1>4 DEF TypeOK
    <2> QED
      BY <1>1, <1>2, <1>3, <1>11, <2>1, <2>2 DEF TypeOK
  <1>14. Numbered'
    BY <1>1, <1>2, <1>3, <1>4 DEF IInv, Numbered
  <1>15. \A d \in deliveries : d.id # ev.id
    BY <1>2 DEF IInv, Waiting
  <1>16. \A e \in DOMAIN log : e.id # ev.id
    BY <1>2 DEF IInv, Waiting
  <1>17. Waiting'
    <2> SUFFICES ASSUME NEW n \in DOMAIN queue'
                 PROVE  /\ \A m \in DOMAIN queue' : m # n => queue'[m].id # queue'[n].id
                        /\ \A d \in deliveries' : d.id # queue'[n].id
                        /\ \A e \in DOMAIN log : e.id # queue'[n].id
      BY <1>1 DEF Waiting
    <2>1. n + 1 \in DOMAIN queue /\ n + 1 # 1 /\ queue'[n] = queue[n + 1]
      BY <1>3
    <2>2. ASSUME NEW m \in DOMAIN queue', m # n PROVE queue'[m].id # queue'[n].id
      <3>1. m \in Nat /\ n \in Nat
        BY <1>3, LenProperties
      <3>2. m + 1 \in DOMAIN queue /\ m + 1 # n + 1 /\ queue'[m] = queue[m + 1]
        BY <1>3, <2>2, <3>1
      <3> QED BY <2>1, <3>2 DEF IInv, Waiting
    <2>3. \A d \in deliveries' : d.id # queue'[n].id
      BY <1>1, <1>2, <1>4, <2>1 DEF IInv, Waiting
    <2>4. \A e \in DOMAIN log : e.id # queue'[n].id
      BY <2>1 DEF IInv, Waiting
    <2> QED BY <2>2, <2>3, <2>4
  <1>18. OneEach'
    BY <1>1, <1>4, <1>5, <1>15 DEF IInv, OneEach
  <1>19. OneConclusion'
    BY <1>1, <1>4, <1>16 DEF IInv, OneConclusion
  <1> QED
    BY <1>12, <1>13, <1>14, <1>17, <1>18, <1>19 DEF IInv

-------------------------------------------------------------------------------
(* Deliveries *)

\* The last attempt, or the one that succeeded: a row, and no goroutine any more.
LEMMA ConclusionStep ==
    ASSUME IInv, NEW d \in deliveries, deliveries' = deliveries \ {d}, RecordDelivery(d),
           UNCHANGED <<laneDown, published, queue, dropped, targets, stormLast, sent, puts, restarts>>
    PROVE  IInv'
  <1> DEFINE e == [id |-> d.id, target |-> d.target]
  <1>1. d \in Delivery /\ TypeOK /\ IsABag(log)
    BY DEF IInv, TypeOK
  <1>2. e \in Entry /\ e.id = d.id /\ e.target = d.target
    BY <1>1 DEF Delivery, Entry
  <1>3. log' = log (+) SetToBag({e})
    BY DEF RecordDelivery
  <1> HIDE DEF e
  <1>4. e \notin DOMAIN log
    BY <1>2 DEF IInv, OneConclusion
  <1>5. /\ IsABag(log') /\ DOMAIN log' = DOMAIN log \cup {e} /\ log'[e] = 1
        /\ \A x \in DOMAIN log : log'[x] = log[x]
    <2> DEFINE C == log (+) SetToBag({e})
    <2>1. /\ IsABag(C) /\ DOMAIN C = DOMAIN log \cup {e} /\ C[e] = 1
          /\ \A x \in DOMAIN log : C[x] = log[x]
      BY <1>1, <1>4, NewRow, Zenon
    <2>2. log' = C
      BY <1>3
    <2> HIDE DEF C
    <2> QED BY <2>1, <2>2
  <1>6. TypeOK'
    BY <1>1, <1>2, <1>5 DEF TypeOK
  <1>7. Numbered' /\ Waiting'
    BY <1>2, <1>5 DEF IInv, Numbered, Waiting
  <1>8. OneEach' /\ StormTable'
    BY DEF IInv, OneEach, StormTable
  <1>9. OneConclusion'
    <2>1. \A c \in deliveries' : ~(c.id = e.id /\ c.target = e.target)
      BY <1>2 DEF IInv, OneEach
    <2> QED BY <1>5, <2>1 DEF IInv, OneConclusion
  <1> QED
    BY <1>6, <1>7, <1>8, <1>9 DEF IInv

\* A delivery that stays one: the next attempt, or a tick.  F[d] is what becomes of d.
LEMMA CarryOnStep ==
    ASSUME IInv, NEW F \in [deliveries -> Delivery],
           deliveries' = {F[d] : d \in deliveries},
           \A d \in deliveries : F[d].id = d.id /\ F[d].target = d.target,
           UNCHANGED <<laneDown, published, queue, dropped, targets, log, puts, restarts>>,
           StormTable', DOMAIN stormLast' \subseteq Keys,
           \A k \in DOMAIN stormLast' : stormLast'[k] \in 0 .. StormWindow,
           sent' \in [Keys -> 0 .. StormWindow]
    PROVE  IInv'
  <1>1. deliveries' \subseteq Delivery
    OBVIOUS
  <1>2. TypeOK'
    BY <1>1 DEF IInv, TypeOK
  <1>3. Numbered' /\ Waiting' /\ OneConclusion'
    BY DEF IInv, Numbered, Waiting, OneConclusion
  <1>4. OneEach'
    BY DEF IInv, OneEach
  <1> QED
    BY <1>2, <1>3, <1>4 DEF IInv

LEMMA PostStep ==
    ASSUME IInv, NEW d \in deliveries, PostSucceeds(d) \/ PostFails(d)
    PROVE  IInv'
  <1>1. d \in Delivery
    BY DEF IInv, TypeOK
  <1>2. CASE PostSucceeds(d)
    BY <1>2, ConclusionStep DEF PostSucceeds
  <1>3. CASE PostFails(d) /\ d.attempt = MaxAttempts
    BY <1>3, ConclusionStep DEF PostFails
  <1>4. CASE PostFails(d) /\ d.attempt # MaxAttempts
    <2> DEFINE next == [d EXCEPT !.attempt = @ + 1, !.wait = RetryDelays[d.attempt]]
               F == [c \in deliveries |-> IF c = d THEN next ELSE c]
    <2>1. next \in Delivery /\ next.id = d.id /\ next.target = d.target
      BY <1>1, <1>4, RetryDelayType DEF Delivery
    <2>2. /\ deliveries' = (deliveries \ {d}) \cup {next}
          /\ UNCHANGED <<log, laneDown, published, queue, dropped, targets, stormLast, sent, puts,
                         restarts>>
      BY <1>4 DEF PostFails
    <2> HIDE DEF next
    <2>3. F \in [deliveries -> Delivery] /\ deliveries' = {F[c] : c \in deliveries}
      BY <2>1, <2>2 DEF IInv, TypeOK
    <2>4. \A c \in deliveries : F[c].id = c.id /\ F[c].target = c.target
      BY <2>1
    <2> HIDE DEF F
    <2>5. /\ StormTable' /\ DOMAIN stormLast' \subseteq Keys
          /\ \A k \in DOMAIN stormLast' : stormLast'[k] \in 0 .. StormWindow
          /\ sent' \in [Keys -> 0 .. StormWindow]
      BY <2>2 DEF IInv, TypeOK, StormTable
    <2> QED
      BY <2>2, <2>3, <2>4, <2>5, CarryOnStep
  <1> QED
    BY <1>2, <1>3, <1>4

LEMMA TickStep == IInv /\ Tick => IInv'
  <1> SUFFICES ASSUME IInv, Tick PROVE IInv'
    OBVIOUS
  <1> USE WebhookAssumption
  <1> DEFINE F == [d \in deliveries |-> [d EXCEPT !.wait = IF @ > 0 THEN @ - 1 ELSE 0]]
  <1>1. /\ stormLast' = [k \in DOMAIN stormLast |-> Aged(stormLast[k])]
        /\ sent' = [k \in Keys |-> Aged(sent[k])]
        /\ deliveries' = {F[d] : d \in deliveries}
        /\ UNCHANGED <<laneDown, published, queue, dropped, targets, log, puts, restarts>>
    BY DEF Tick
  <1>2. ASSUME NEW w \in Waits PROVE (IF w > 0 THEN w - 1 ELSE 0) \in Waits
    <2>1. CASE w \in 0 .. 0
      BY <2>1, WaitsType
    <2>2. ASSUME NEW i \in DOMAIN RetryDelays, w \in 0 .. RetryDelays[i]
          PROVE  (IF w > 0 THEN w - 1 ELSE 0) \in Waits
      <3>1. RetryDelays[i] \in Nat
        OBVIOUS
      <3>2. (IF w > 0 THEN w - 1 ELSE 0) \in 0 .. RetryDelays[i]
        BY <2>2, <3>1
      <3> QED BY <3>2 DEF Waits
    <2> QED BY <2>1, <2>2 DEF Waits
  <1>3. ASSUME NEW d \in deliveries
        PROVE  F[d] \in Delivery /\ F[d].id = d.id /\ F[d].target = d.target
    <2>1. d \in Delivery
      BY DEF IInv, TypeOK
    <2> QED
      BY <1>2, <2>1 DEF Delivery
  <1>4. F \in [deliveries -> Delivery]
    BY <1>3
  <1>5. ASSUME NEW n \in 0 .. StormWindow PROVE Aged(n) \in 0 .. StormWindow
    BY DEF Aged
  <1>6. Aged(StormWindow) = StormWindow
    BY DEF Aged
  <1> HIDE DEF F
  <1>7. /\ \A k \in DOMAIN stormLast : k \in Keys /\ stormLast[k] \in 0 .. StormWindow
        /\ sent \in [Keys -> 0 .. StormWindow] /\ StormTable
    BY DEF IInv, TypeOK
  <1>8. /\ DOMAIN stormLast' = DOMAIN stormLast
        /\ \A k \in DOMAIN stormLast : stormLast'[k] = Aged(stormLast[k])
        /\ \A k \in Keys : sent'[k] = Aged(sent[k])
    BY <1>1
  <1>9. /\ DOMAIN stormLast' \subseteq Keys
        /\ \A k \in DOMAIN stormLast' : stormLast'[k] \in 0 .. StormWindow
        /\ sent' \in [Keys -> 0 .. StormWindow]
    BY <1>1, <1>5, <1>7, <1>8
  <1>10. StormTable'
    BY <1>6, <1>7, <1>8 DEF StormTable
  <1> QED
    BY <1>1, <1>3, <1>4, <1>9, <1>10, CarryOnStep

LEMMA RestartStep == IInv /\ Restart => IInv'
  <1> SUFFICES ASSUME IInv, Restart PROVE IInv'
    OBVIOUS
  <1> USE WebhookAssumption
  <1>1. /\ restarts' \in 0 .. MaxRestarts /\ queue' = <<>> /\ dropped' = 0 /\ deliveries' = {}
        /\ sent' = [k \in Keys |-> StormWindow]
        /\ UNCHANGED <<published, targets, log, puts>>
    BY DEF Restart, IInv, TypeOK
  <1>2. DOMAIN stormLast' = {} /\ laneDown' \in [Lanes -> BOOLEAN]
    BY DEF Restart
  <1>3. queue' \in Seq(Event) /\ Len(queue') <= QueueSize /\ DOMAIN queue' = {}
    BY <1>1
  <1>4. sent' \in [Keys -> 0 .. StormWindow]
    BY <1>1
  <1>5. TypeOK'
    BY <1>1, <1>2, <1>3, <1>4 DEF IInv, TypeOK
  <1> QED
    BY <1>1, <1>2, <1>3, <1>5
       DEF IInv, Numbered, Waiting, OneEach, OneConclusion, StormTable

LEMMA NextIInv == IInv /\ [Next]_vars => IInv'
  <1> SUFFICES ASSUME IInv, [Next]_vars PROVE IInv'
    OBVIOUS
  <1>1. CASE UNCHANGED vars
    BY <1>1 DEF vars, IInv, TypeOK, Numbered, Waiting, OneEach, OneConclusion, StormTable
  <1> QED
    BY <1>1, ProducerStep, DispatchStep, PostStep, TestStep, PutStep, TickStep, RestartStep
       DEF Next

LEMMA Invariance == Spec => []IInv
  BY InitIInv, NextIInv, PTL DEF Spec

-------------------------------------------------------------------------------
\* The queue never exceeds eventQueueSize, no delivery makes more attempts than there
\* are retry delays allow, and every other variable keeps its type.
THEOREM WebhookTypeCorrect == Spec => []TypeOK
  <1>1. IInv => TypeOK
    BY DEF IInv
  <1> QED
    BY <1>1, Invariance, PTL

\* A delivery has at most one row in the log and none while it runs (recordDelivery),
\* for any number of retries, targets, tests and restarts.
THEOREM DeliveryConcludedOnce == Spec => []OneConclusion
  <1>1. IInv => OneConclusion
    BY DEF IInv
  <1> QED
    BY <1>1, Invariance, PTL

\* Only the worker takes the head of the queue.
LEMMA TakenByDispatch ==
    ASSUME IInv, [Next]_vars, queue # <<>>, Taken(Head(queue))
    PROVE  DispatchTo(Head(queue))
  <1>1. queue' = Tail(queue) /\ queue' # queue /\ restarts' = restarts
    BY TailQueue DEF Taken, IInv
  <1>2. ASSUME NEW l \in Lanes, NEW type, EnqueueEvent(type, l) PROVE FALSE
    <2>1. queue \in Seq(Event) /\ Len(queue) \in Nat
      BY LenProperties DEF IInv, TypeOK
    <2>2. queue' = Append(queue, [id |-> published, type |-> type, lane |-> l])
      BY <1>1, <1>2 DEF EnqueueEvent
    <2>3. Len(queue') = Len(queue) + 1
      BY <2>1, <2>2
    <2>4. Len(Tail(queue)) = Len(queue) - 1
      BY <2>1, HeadTailProperties
    <2> QED BY <1>1, <2>1, <2>3, <2>4
  <1>3. ASSUME NEW l \in Lanes, NoteLaneUnavailable(l) \/ RecordSuccess(l) \/ Reset(l)
        PROVE  FALSE
    BY <1>2, <1>3 DEF NoteLaneUnavailable, RecordSuccess, Reset
  <1>4. ASSUME NEW d \in deliveries, PostSucceeds(d) \/ PostFails(d) PROVE FALSE
    BY <1>1, <1>4 DEF PostSucceeds, PostFails
  <1>5. ASSUME NEW t \in Targets, DeliverTest(t) PROVE FALSE
    BY <1>1, <1>5 DEF DeliverTest
  <1>6. ~PutWebhooks /\ ~Tick /\ ~UNCHANGED vars
    BY <1>1 DEF PutWebhooks, Tick, vars
  <1>7. ~Restart
    BY <1>1, WebhookAssumption DEF Restart, IInv, TypeOK
  <1> QED
    BY <1>3, <1>4, <1>5, <1>6, <1>7 DEF Next, Dispatch

\* A delivery of the head begins exactly at the targets that dispatch chose.
LEMMA BeginsIfChosen ==
    ASSUME IInv, queue # <<>>, DispatchTo(Head(queue)), NEW t \in Targets
    PROVE  Begins(t, Head(queue)) <=> t \in Chosen(Head(queue))
  <1> DEFINE ev == Head(queue)
  <1>1. deliveries' = deliveries \cup
          {[id |-> ev.id, target |-> u, attempt |-> 1, wait |-> 0] : u \in Chosen(ev)}
    BY DEF DispatchTo
  <1>2. \A d \in deliveries : d.id # ev.id
    BY TailQueue DEF IInv, Waiting
  <1> HIDE DEF ev
  <1>3. ASSUME Begins(t, ev) PROVE t \in Chosen(ev)
    <2>1. PICK d \in deliveries' : d.id = ev.id /\ d.target = t
      BY <1>3 DEF Begins
    <2>2. PICK u \in Chosen(ev) : d = [id |-> ev.id, target |-> u, attempt |-> 1, wait |-> 0]
      BY <1>1, <1>2, <2>1
    <2> QED BY <2>1, <2>2
  <1>4. ASSUME t \in Chosen(ev) PROVE Begins(t, ev)
    <2> DEFINE d == [id |-> ev.id, target |-> t, attempt |-> 1, wait |-> 0]
    <2>1. d \in deliveries'
      BY <1>1, <1>4
    <2> QED BY <2>1 DEF Begins
  <1> QED BY <1>3, <1>4 DEF ev

\* A target that wants the head of the queue is sent it if and only if the same
\* alert did not begin within the window.
LEMMA ChosenByHistory ==
    ASSUME IInv, queue # <<>>, NEW t \in Targets
    PROVE  t \in Chosen(Head(queue)) <=>
              /\ targets[t].enabled /\ TargetMatches(t, Head(queue))
              /\ ~Recent(t, Head(queue))
  <1>1. Head(queue) \in Event
    BY TailQueue DEF IInv
  <1>2. <<t, Head(queue).lane, Head(queue).type>> \in Keys
    BY <1>1 DEF Event, Keys
  <1> QED
    BY <1>2, AllowedByHistory DEF IInv, Chosen, StormKey, Recent

\* No target is sent the same alert twice within stormWindow, for any size of the
\* table of keys and any number of lanes and targets.
THEOREM NoAlertTwiceInWindow == Spec => OncePerWindow
  <1> DEFINE Once == \A t \in Targets : queue # <<>> =>
                LET ev == Head(queue) IN Taken(ev) /\ Begins(t, ev) => ~Recent(t, ev)
  <1>1. ASSUME IInv, [Next]_vars PROVE Once
    <2> SUFFICES ASSUME NEW t \in Targets, queue # <<>>, Taken(Head(queue)),
                        Begins(t, Head(queue))
                 PROVE  ~Recent(t, Head(queue))
      OBVIOUS
    <2>1. DispatchTo(Head(queue))
      BY <1>1, TakenByDispatch
    <2> QED
      BY <1>1, <2>1, BeginsIfChosen, ChosenByHistory
  <1> QED
    BY <1>1, Invariance, PTL DEF Spec, OncePerWindow

\* An alert that a target wants is withheld only as a repetition of itself.
THEOREM AlertsWithheldOnlyAsRepeats == Spec => WithheldOnlyAsRepeat
  <1> DEFINE Withheld == \A t \in Targets : queue # <<>> =>
                LET ev == Head(queue) IN
                Taken(ev) /\ targets[t].enabled /\ TargetMatches(t, ev)
                    => Begins(t, ev) \/ Recent(t, ev)
  <1>1. ASSUME IInv, [Next]_vars PROVE Withheld
    <2> SUFFICES ASSUME NEW t \in Targets, queue # <<>>, Taken(Head(queue)),
                        targets[t].enabled, TargetMatches(t, Head(queue))
                 PROVE  Begins(t, Head(queue)) \/ Recent(t, Head(queue))
      OBVIOUS
    <2>1. DispatchTo(Head(queue))
      BY <1>1, TakenByDispatch
    <2> QED
      BY <1>1, <2>1, BeginsIfChosen, ChosenByHistory
  <1> QED
    BY <1>1, Invariance, PTL DEF Spec, WithheldOnlyAsRepeat

===============================================================================
