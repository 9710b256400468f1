-------------------------- MODULE LaneFailoverProofs ---------------------------
(***************************************************************************)
(* Theorems about what a lane does while its members fail: the circuit     *)
(* breakers open again when a probe fails, their backoff does not shrink,  *)
(* and every selection is explained.                                       *)
(***************************************************************************)
EXTENDS LaneRoutingProofs, FiniteSetTheorems, SequenceTheorems

--------------------------------------------------------------------------------
(* The rolling window *)

\* The failures of a window are finitely many.
LEMMA FailuresFinite ==
    ASSUME NEW s \in Seq(BOOLEAN)
    PROVE  IsFiniteSet(Failures(s)) /\ Cardinality(Failures(s)) \in Nat
<1>1. DOMAIN s = 1..Len(s) /\ Len(s) \in Nat
  OBVIOUS
<1>2. IsFiniteSet(1..Len(s))
  BY <1>1, FS_Interval
<1>3. Failures(s) \in SUBSET (1..Len(s))
  BY <1>1 DEF Failures
<1>4. IsFiniteSet(Failures(s))
  BY <1>2, <1>3, FS_Subset
<1> QED BY <1>4, FS_CardinalityType

\* A failure at the end of the window is one failure more.
LEMMA FailureAppended ==
    ASSUME NEW s \in Seq(BOOLEAN)
    PROVE  Cardinality(Failures(Append(s, FALSE))) = Cardinality(Failures(s)) + 1
<1>1. Failures(Append(s, FALSE)) = Failures(s) \cup {Len(s) + 1}
  BY DEF Failures
<1>2. Len(s) + 1 \notin Failures(s)
  BY DEF Failures
<1> QED BY <1>1, <1>2, FailuresFinite, FS_AddElement

\* Dropping the oldest result drops at most one failure.
LEMMA OldestDropped ==
    ASSUME NEW s \in Seq(BOOLEAN), s # << >>
    PROVE  Cardinality(Failures(Tail(s))) >= Cardinality(Failures(s)) - 1
<1> DEFINE S == Failures(s) \ {1}
           T == Failures(Tail(s))
           f == [i \in S |-> i - 1]
<1>1. Tail(s) \in Seq(BOOLEAN) /\ Len(Tail(s)) = Len(s) - 1 /\ Len(s) \in Nat
  OBVIOUS
<1>2. ASSUME NEW i \in S PROVE i - 1 \in T
  <2>1. i \in 2..Len(s) /\ ~s[i]
    BY DEF Failures
  <2>2. i - 1 \in 1..Len(Tail(s)) /\ Tail(s)[i - 1] = s[i]
    BY <1>1, <2>1
  <2> QED BY <1>1, <2>1, <2>2 DEF Failures
<1>3. S \subseteq Int
  BY DEF Failures
<1>4. f \in Injection(S, T)
  <2>1. f \in [S -> T]
    BY <1>2
  <2>2. \A i, j \in S : f[i] = f[j] => i = j
    BY <1>3
  <2> HIDE DEF S, T, f
  <2>3. DOMAIN f = S
    BY <2>1
  <2> QED BY <2>1, <2>2, <2>3 DEF Injection, IsInjective
<1>5. IsFiniteSet(T) /\ IsFiniteSet(Failures(s))
  BY <1>1, FailuresFinite
<1>6. Cardinality(S) <= Cardinality(T)
  <2> HIDE DEF S, T, f
  <2> QED BY <1>4, <1>5, FS_Injection
<1>7. Cardinality(S) >= Cardinality(Failures(s)) - 1
  <2>1. Cardinality(S) = IF 1 \in Failures(s) THEN Cardinality(Failures(s)) - 1
                         ELSE Cardinality(Failures(s))
    BY <1>5, FS_RemoveElement
  <2> QED BY <2>1, FailuresFinite
<1>8. Cardinality(S) \in Nat /\ Cardinality(T) \in Nat /\ Cardinality(Failures(s)) \in Nat
  BY <1>1, <1>5, FailuresFinite, FS_RemoveElement, FS_CardinalityType
<1> HIDE DEF S, T
<1> QED BY <1>6, <1>7, <1>8 DEF T

\* A failure rate at or above the limit stays there with one failure more.
LEMMA RateGrows ==
    ASSUME NEW f \in Nat, NEW n \in Nat, NEW num \in Nat, NEW den \in Nat,
           num <= den, f * den >= num * n
    PROVE  (f + 1) * den >= num * (n + 1)
<1>1. (f + 1) * den = f * den + den /\ num * (n + 1) = num * n + num
  OBVIOUS
<1>2. f * den \in Nat /\ num * n \in Nat
  OBVIOUS
<1> QED BY <1>1, <1>2

\* More failures in a window of the same length are no lower rate.
LEMMA RateKept ==
    ASSUME NEW f \in Nat, NEW g \in Nat, NEW n \in Nat, NEW num \in Nat, NEW den \in Nat,
           g >= f, f * den >= num * n
    PROVE  g * den >= num * n
<1>1. PICK e \in Nat : g = f + e
  <2>1. g - f \in Nat /\ g = f + (g - f)
    OBVIOUS
  <2> QED BY <2>1
<1>2. g * den = f * den + e * den /\ e * den \in Nat
  BY <1>1
<1>3. f * den \in Nat /\ num * n \in Nat
  OBVIOUS
<1> QED BY <1>2, <1>3

\* The window without its oldest result.
LEMMA TailLength ==
    ASSUME NEW s \in Seq(BOOLEAN), s # << >>
    PROVE  Tail(s) \in Seq(BOOLEAN) /\ Len(Tail(s)) = Len(s) - 1 /\ Len(s) \in Nat
OBVIOUS

\* The window with one result more.
LEMMA AppendLength ==
    ASSUME NEW s \in Seq(BOOLEAN), NEW ok \in BOOLEAN
    PROVE  Append(s, ok) \in Seq(BOOLEAN) /\ Append(s, ok) # << >>
           /\ Len(Append(s, ok)) = Len(s) + 1
OBVIOUS

\* A failure never takes away the evidence of a full enough, bad enough window.
LEMMA FailureKeepsWindow ==
    ASSUME NEW st \in CircuitSettings, NEW c \in Circuit, NEW d \in Circuit,
           d.outcomes = RecordOutcome(c.outcomes, FALSE),
           RollingFailureTriggersOpen(c, st)
    PROVE  RollingFailureTriggersOpen(d, st)
<1>1. PICK s \in Seq(BOOLEAN) : s = c.outcomes
  BY DEF Circuit
<1>2. PICK L \in Nat : L = Len(s)
  OBVIOUS
<1>3. PICK f \in Nat : f = Cardinality(Failures(s))
  BY FailuresFinite
<1>4. PICK num \in Nat, den \in Nat, min \in Nat :
        num = st.rateNum /\ den = st.rateDen /\ min = st.minSamples /\ num <= den
  BY DEF CircuitSettings
<1>5. L >= min /\ f * den >= num * L
  BY <1>1, <1>2, <1>3, <1>4 DEF RollingFailureTriggersOpen
<1>6. PICK a \in Seq(BOOLEAN) : a = Append(s, FALSE) /\ a # << >> /\ Len(a) = L + 1
  BY <1>2, AppendLength
<1>7. Cardinality(Failures(a)) = f + 1
  BY <1>3, <1>6, FailureAppended
<1>8. CASE d.outcomes = a
  <2>1. L + 1 >= min
    BY <1>5
  <2>3. (f + 1) * den >= num * (L + 1)
    BY <1>4, <1>5, RateGrows
  <2>2. Len(d.outcomes) = L + 1 /\ Cardinality(Failures(d.outcomes)) = f + 1
    BY <1>6, <1>7, <1>8
  <2> QED BY <1>4, <2>1, <2>2, <2>3 DEF RollingFailureTriggersOpen
<1>9. CASE d.outcomes = Tail(a)
  <2>1. Len(Tail(a)) = L /\ Tail(a) \in Seq(BOOLEAN)
    <3>1. a # << >> /\ Len(a) = L + 1
      BY <1>6
    <3> QED BY <3>1, TailLength
  <2>2. PICK g \in Nat : g = Cardinality(Failures(Tail(a)))
    BY <2>1, FailuresFinite
  <2>3. g >= (f + 1) - 1
    BY <1>6, <1>7, <2>2, OldestDropped
  <2>4. g * den >= num * L
    BY <1>5, <2>3, RateKept
  <2> QED BY <1>4, <1>5, <1>9, <2>1, <2>2, <2>4 DEF RollingFailureTriggersOpen
<1> QED BY <1>1, <1>6, <1>8, <1>9 DEF RecordOutcome

--------------------------------------------------------------------------------
(* What each step does to the state of its request *)

\* The parts of a request state that only the steps of the relay loop write.
Carries(p, q) ==
    /\ p.name = q.name /\ p.tries = q.tries
    /\ p.maxRetry = q.maxRetry /\ p.inRelay = q.inRelay /\ p.result = q.result

\* The same, for the steps that also keep configuration, attempts and their records.
Holds(p, q) ==
    /\ Carries(p, q)
    /\ p.snap = q.snap /\ p.cur = q.cur /\ p.att = q.att /\ p.hist = q.hist

\* PBRServe answers 503 or starts from a clean request state.
LEMMA ArriveMoves ==
    ASSUME IInv, NEW r \in Requests, Arrive(r)
    PROVE  \/ req'[r] = Finished("503")
           \/ \E pin \in Pins :
                LET p == req'[r] IN
                /\ p.pc = "apply" /\ p.name = pin /\ p.snap = ResolveRoute(lane, pin)
                /\ p.snap.body.chain # << >>
                /\ p.att = [m \in Members |-> 0] /\ p.hist = [m \in Members |-> {}]
                /\ p.tries = 0 /\ p.inRelay = FALSE /\ p.result = "none"
<1>1. PICK pin \in Pins, endpoint \in Endpoints :
        LET snap == ResolveRoute(lane, pin)
            q == [IdleRequest EXCEPT !.pc = "apply", !.name = pin,
                                     !.endpoint = endpoint, !.snap = snap]
        IN  Becomes(r, IF snap.body.chain = << >> THEN Finished("503") ELSE q)
  BY DEF Arrive
<1> DEFINE snap == ResolveRoute(lane, pin)
           q == [IdleRequest EXCEPT !.pc = "apply", !.name = pin,
                                    !.endpoint = endpoint, !.snap = snap]
<1>2. /\ q.pc = "apply" /\ q.name = pin /\ q.snap = snap
      /\ q.att = [m \in Members |-> 0] /\ q.hist = [m \in Members |-> {}]
      /\ q.tries = 0 /\ q.inRelay = FALSE /\ q.result = "none"
  BY DEF IdleRequest
<1>3. Becomes(r, IF snap.body.chain = << >> THEN Finished("503") ELSE q)
  BY <1>1
<1> HIDE DEF snap, q
<1>4. req'[r] = IF snap.body.chain = << >> THEN Finished("503") ELSE q
  BY <1>3, Moved
<1> QED BY <1>2, <1>4 DEF snap

\* applyRouteLocked and a reload that fails or finds nothing new.
LEMMA PhaseMoves ==
    ASSUME IInv, NEW r \in Requests, NEW pc, Becomes(r, [req[r] EXCEPT !.pc = pc])
    PROVE  req'[r].pc = pc /\ Holds(req'[r], req[r])
<1>1. req[r] \in RequestState /\ req'[r] = [req[r] EXCEPT !.pc = pc]
  BY BodyOf, Moved DEF IInv
<1> QED BY <1>1 DEF RequestState, Holds, Carries

\* reloadLocked with a new configuration.
LEMMA ReloadMoves ==
    ASSUME IInv, NEW r \in Requests, Reload(r)
    PROVE  LET q == req[r]
               p == req'[r]
               snap == ResolveRoute(lane, q.name)
           IN  \/ p.pc = "pick" /\ Holds(p, q) /\ snap = q.snap
               \/ /\ p.pc = "apply" /\ p.snap = snap /\ Carries(p, q) /\ p.hist = q.hist
                  /\ \A m \in Members : p.att[m] \in {0, q.att[m]}
                  /\ snap # q.snap
<1> DEFINE q == req[r]
           snap == ResolveRoute(lane, q.name)
           kept == ChainSet(q.snap.body) \cap ChainSet(snap.body)
<1>1. q \in RequestState
  BY BodyOf DEF IInv
<1>2. PICK cur : cur = IF q.cur \in ChainSet(snap.body) THEN q.cur ELSE NoMember
  OBVIOUS
<1>3. PICK att : att = [m \in Members |-> IF m \in kept THEN q.att[m] ELSE 0]
  OBVIOUS
<1> DEFINE fresh == [q EXCEPT !.pc = "apply", !.snap = snap, !.cur = cur, !.att = att]
<1>4. Becomes(r, IF snap = q.snap THEN [q EXCEPT !.pc = "pick"] ELSE fresh)
  BY <1>2, <1>3 DEF Reload
<1>5. CASE snap = q.snap
  BY <1>4, <1>5, PhaseMoves
<1>6. CASE snap # q.snap
  <2>1. req'[r] = fresh
    BY <1>4, <1>6, Moved
  <2>2. fresh.pc = "apply" /\ fresh.snap = snap /\ Carries(fresh, q) /\ fresh.hist = q.hist
        /\ fresh.att = att
    BY <1>1 DEF RequestState, Carries
  <2>3. \A m \in Members : att[m] \in {0, q.att[m]}
    BY <1>3
  <2> QED BY <1>6, <2>1, <2>2, <2>3
<1> QED BY <1>5, <1>6

\* A choice is counted and its attempts records stored.
LEMMA ChooseMoves ==
    ASSUME IInv, NEW r \in Requests, NEW m, NEW claimed, NEW hist,
           Choose(r, m, claimed, hist)
    PROVE  LET q == req[r]
               p == req'[r]
           IN  /\ p.pc = "mark" /\ p.chosen = m /\ p.snap = q.snap /\ Carries(p, q)
               /\ p.att = [q.att EXCEPT ![m] = @ + 1] /\ p.hist = hist
<1>1. PICK att : att = [req[r].att EXCEPT ![m] = @ + 1]
  OBVIOUS
<1>2. req[r] \in RequestState
  BY BodyOf DEF IInv
<1>3. Becomes(r, [req[r] EXCEPT !.pc = "mark", !.chosen = m, !.claimed = claimed,
                                !.att = att, !.hist = hist])
  BY <1>1, <1>2 DEF Choose, RequestState
<1>4. req'[r] = [req[r] EXCEPT !.pc = "mark", !.chosen = m, !.claimed = claimed,
                               !.att = att, !.hist = hist]
  BY <1>3, Moved
<1> QED BY <1>1, <1>2, <1>4 DEF RequestState, Carries

\* The traversal finds nobody.
LEMMA PickNoneMoves ==
    ASSUME IInv, NEW r \in Requests, PickNone(r)
    PROVE  LET q == req[r]
               p == req'[r]
           IN  /\ p.pc = "exhausted" /\ p.snap = q.snap /\ Carries(p, q)
               /\ p.att = q.att /\ p.hist = ExhaustedHist(r)
<1>1. PICK hist : hist = ExhaustedHist(r)
  OBVIOUS
<1>2. req[r] \in RequestState
  BY BodyOf DEF IInv
<1>3. req'[r] = [req[r] EXCEPT !.pc = "exhausted", !.hist = hist]
  BY <1>1, Moved DEF PickNone
<1> QED BY <1>1, <1>2, <1>3 DEF RequestState, Carries

\* markCurrentLocked.
LEMMA MarkMoves ==
    ASSUME IInv, NEW r \in Requests, MarkCurrentMember(r)
    PROVE  LET q == req[r]
               p == req'[r]
           IN  /\ q.pc = "mark" /\ p.pc = "setup" /\ p.cur = q.chosen
               /\ p.snap = q.snap /\ Carries(p, q) /\ p.att = q.att /\ p.hist = q.hist
<1>1. req[r] \in RequestState
  BY BodyOf DEF IInv
<1>2. req'[r] = [req[r] EXCEPT !.pc = "setup", !.cur = req[r].chosen, !.chosen = NoMember]
  BY Moved DEF MarkCurrentMember
<1> QED BY <1>1, <1>2 DEF RequestState, Carries, MarkCurrentMember, At

\* The attempt is sent; the loop's bound is computed on entry.
LEMMA ReadyMoves ==
    ASSUME IInv, NEW r \in Requests, ChannelReady(r)
    PROVE  LET q == req[r]
               p == req'[r]
           IN  /\ q.pc = "setup" /\ p.pc = "inflight" /\ p.inRelay = TRUE
               /\ p.maxRetry = IF q.inRelay THEN q.maxRetry ELSE MaxRetriesForLoop(Body(r))
               /\ p.name = q.name /\ p.tries = q.tries /\ p.snap = q.snap
               /\ p.result = q.result
               /\ p.cur = q.cur /\ p.att = q.att /\ p.hist = q.hist
<1>1. req[r] \in RequestState
  BY BodyOf DEF IInv
<1>2. PICK bound : bound = IF req[r].inRelay THEN req[r].maxRetry
                           ELSE MaxRetriesForLoop(Body(r))
  OBVIOUS
<1>3. req'[r] = [req[r] EXCEPT !.pc = "inflight", !.inRelay = TRUE, !.maxRetry = bound]
  <2>1. Becomes(r, [req[r] EXCEPT !.pc = "inflight", !.inRelay = TRUE, !.maxRetry = bound])
    BY <1>1, <1>2 DEF ChannelReady, RequestState
  <2> QED BY <2>1, Moved
<1> QED BY <1>1, <1>2, <1>3 DEF RequestState, ChannelReady, At

\* The channel is not usable; the member is recorded as failed.
LEMMA UnavailableMoves ==
    ASSUME IInv, NEW r \in Requests, ChannelUnavailable(r)
    PROVE  LET q == req[r]
               p == req'[r]
           IN  /\ q.pc = "setup" /\ p.pc = "giveback" /\ Carries(p, q)
               /\ p.snap = q.snap /\ p.cur = q.cur /\ p.att = q.att
               /\ p.hist = NoteFailed(q.hist, q.cur)
<1>1. req[r] \in RequestState
  BY BodyOf DEF IInv
<1>2. PICK hist : hist = NoteFailed(req[r].hist, req[r].cur)
  OBVIOUS
<1>3. req'[r] = [req[r] EXCEPT !.pc = "giveback", !.hist = hist]
  BY <1>2, Moved DEF ChannelUnavailable
<1> QED BY <1>1, <1>2, <1>3 DEF RequestState, Carries, ChannelUnavailable, At

\* The claim is given back before the next selection.
LEMMA GiveBackMoves ==
    ASSUME IInv, NEW r \in Requests, GiveBackProbe(r)
    PROVE  req[r].pc = "giveback" /\ req'[r].pc = "reload" /\ Holds(req'[r], req[r])
<1>1. req[r] \in RequestState
  BY BodyOf DEF IInv
<1>2. req'[r] = [req[r] EXCEPT !.pc = "reload", !.claimed = NoMember]
  BY Moved DEF GiveBackProbe
<1> QED BY <1>1, <1>2 DEF RequestState, Holds, Carries, GiveBackProbe, At

\* Another attempt at the same member.
LEMMA RetryMoves ==
    ASSUME IInv, NEW r \in Requests, NEW kind, RetrySameMember(r, kind)
    PROVE  LET q == req[r]
               p == req'[r]
           IN  /\ q.pc = "inflight" /\ p.pc = "setup" /\ p.tries = q.tries + 1
               /\ p.name = q.name /\ p.maxRetry = q.maxRetry /\ p.inRelay = q.inRelay
               /\ p.result = q.result
               /\ p.snap = q.snap /\ p.cur = q.cur
               /\ p.att = [q.att EXCEPT ![q.cur] = @ + 1]
               /\ p.hist = NoteFailed(q.hist, q.cur)
<1>1. req[r] \in RequestState
  BY BodyOf DEF IInv
<1>2. PICK hist : hist = NoteFailed(req[r].hist, req[r].cur)
  OBVIOUS
<1>3. PICK att : att = [req[r].att EXCEPT ![req[r].cur] = @ + 1]
  OBVIOUS
<1>4. PICK tries : tries = req[r].tries + 1
  OBVIOUS
<1>5. Becomes(r, [req[r] EXCEPT !.pc = "setup", !.tries = tries, !.last = kind,
                                !.att = att, !.hist = hist])
  BY <1>1, <1>2, <1>3, <1>4 DEF RetrySameMember, RequestState
<1>6. req'[r] = [req[r] EXCEPT !.pc = "setup", !.tries = tries, !.last = kind,
                               !.att = att, !.hist = hist]
  BY <1>5, Moved
<1> QED BY <1>1, <1>2, <1>3, <1>4, <1>6 DEF RequestState, RetrySameMember, At

\* The request leaves its member.
LEMMA LeaveMoves ==
    ASSUME IInv, NEW r \in Requests, NEW kind, NEW n, LeaveMember(r, kind, n)
    PROVE  LET q == req[r]
               p == req'[r]
           IN  /\ p.pc = "reload" /\ p.tries = q.tries + 1
               /\ p.name = q.name /\ p.maxRetry = q.maxRetry /\ p.inRelay = q.inRelay
               /\ p.result = q.result
               /\ p.snap = q.snap /\ p.cur = q.cur
               /\ p.att = [q.att EXCEPT ![q.cur] = n]
               /\ p.hist = NoteFailed(q.hist, q.cur)
<1>1. req[r] \in RequestState
  BY BodyOf DEF IInv
<1>2. PICK hist : hist = NoteFailed(req[r].hist, req[r].cur)
  OBVIOUS
<1>3. PICK att : att = [req[r].att EXCEPT ![req[r].cur] = n]
  OBVIOUS
<1>4. PICK tries : tries = req[r].tries + 1
  OBVIOUS
<1>5. PICK claimed : claimed = IF req[r].claimed = req[r].cur THEN NoMember ELSE req[r].claimed
  OBVIOUS
<1>6. Becomes(r, [req[r] EXCEPT !.pc = "reload", !.tries = tries, !.last = kind,
                                !.att = att, !.hist = hist, !.claimed = claimed])
  BY <1>1, <1>2, <1>3, <1>4, <1>5 DEF LeaveMember, RequestState
<1>7. req'[r] = [req[r] EXCEPT !.pc = "reload", !.tries = tries, !.last = kind,
                               !.att = att, !.hist = hist, !.claimed = claimed]
  BY <1>6, Moved
<1> QED BY <1>1, <1>2, <1>3, <1>4, <1>7 DEF RequestState

--------------------------------------------------------------------------------
(* The order of a request *)

\* Every chain that a request works with lists each member once.
LEMMA ChainDistinct ==
    ASSUME NEW snap \in Snapshot
    PROVE  \A i, j \in DOMAIN snap.body.chain :
             snap.body.chain[i] = snap.body.chain[j] => i = j
<1>1. CASE snap.body \in LaneBodies
  BY <1>1, DistinctAssumption DEF IsInjective
<1>2. CASE snap.body = UnconfiguredBody
  BY <1>2 DEF UnconfiguredBody
<1> QED BY <1>1, <1>2 DEF Snapshot

Once(s, n) == \A j, k \in 1..n : s[j] = s[k] => j = k
Lists(s, t, n) == \A k \in 1..n : \E l \in 1..n : s[l] = t[k]
Fronted(order, chain, i) == order = <<chain[i]>> \o RemoveAt(chain, i)

\* A member moved to the front: where each position of the result comes from.
LEMMA MovedToFront ==
    ASSUME NEW S, NEW chain \in Seq(S), NEW n \in Nat, n = Len(chain), NEW i \in 1..n,
           NEW order, Fronted(order, chain, i)
    PROVE  /\ order \in Seq(S) /\ Len(order) = n
           /\ \A k \in 1..n : order[k] = IF k = 1 THEN chain[i]
                                         ELSE IF k <= i THEN chain[k - 1] ELSE chain[k]
<1>1. PICK left : left = SubSeq(chain, 1, i - 1)
  OBVIOUS
<1>2. PICK right : right = SubSeq(chain, i + 1, n)
  OBVIOUS
<1>3. \A k \in 1..n : chain[k] \in S
  OBVIOUS
<1>4. /\ left \in Seq(S) /\ Len(left) = i - 1
      /\ \A k \in 1..(i - 1) : left[k] = chain[k]
  <2>1. \A k \in 1..(i - 1) : chain[k] \in S
    BY <1>3
  <2>2. /\ left \in Seq(S) /\ Len(left) = IF 1 <= i - 1 THEN (i - 1) - 1 + 1 ELSE 0
        /\ \A k \in 1..((i - 1) - 1 + 1) : left[k] = chain[1 + k - 1]
    BY <1>1, <2>1, SubSeqProperties
  <2>3. (i - 1) - 1 + 1 = i - 1 /\ \A k \in Int : 1 + k - 1 = k
    OBVIOUS
  <2> QED BY <2>2, <2>3
<1>5. /\ right \in Seq(S) /\ Len(right) = n - i
      /\ \A k \in 1..(n - i) : right[k] = chain[i + k]
  <2>1. \A k \in (i + 1)..n : chain[k] \in S
    BY <1>3
  <2>2. /\ right \in Seq(S) /\ Len(right) = IF i + 1 <= n THEN n - (i + 1) + 1 ELSE 0
        /\ \A k \in 1..(n - (i + 1) + 1) : right[k] = chain[(i + 1) + k - 1]
    BY <1>2, <2>1, SubSeqProperties
  <2>3. n - (i + 1) + 1 = n - i /\ \A k \in Int : (i + 1) + k - 1 = i + k
    OBVIOUS
  <2> QED BY <2>2, <2>3
<1>6. PICK rest : rest = left \o right
  OBVIOUS
<1>7. /\ rest \in Seq(S) /\ Len(rest) = n - 1
      /\ \A k \in 1..(n - 1) : rest[k] = IF k <= i - 1 THEN left[k] ELSE right[k - (i - 1)]
  <2>1. /\ rest \in Seq(S) /\ Len(rest) = Len(left) + Len(right)
        /\ \A k \in 1 .. Len(left) + Len(right) :
             rest[k] = IF k <= Len(left) THEN left[k] ELSE right[k - Len(left)]
    BY <1>4, <1>5, <1>6, ConcatProperties
  <2>2. (i - 1) + (n - i) = n - 1
    OBVIOUS
  <2> QED BY <1>4, <1>5, <2>1, <2>2
<1>8. order = <<chain[i]>> \o rest
  BY <1>1, <1>2, <1>6 DEF RemoveAt, Fronted
<1>9. PICK first \in Seq(S) : first = <<chain[i]>> /\ Len(first) = 1 /\ first[1] = chain[i]
  <2>1. PICK x \in S : x = chain[i]
    BY <1>3
  <2>2. <<x>> \in Seq(S) /\ Len(<<x>>) = 1 /\ <<x>>[1] = x
    OBVIOUS
  <2> QED BY <2>1, <2>2
<1>10. /\ order \in Seq(S) /\ Len(order) = n
       /\ \A k \in 1..n : order[k] = IF k <= 1 THEN first[k] ELSE rest[k - 1]
  <2>1. /\ order \in Seq(S) /\ Len(order) = Len(first) + Len(rest)
        /\ \A k \in 1 .. Len(first) + Len(rest) :
             order[k] = IF k <= Len(first) THEN first[k] ELSE rest[k - Len(first)]
    <3>1. order = first \o rest
      BY <1>8, <1>9
    <3> QED BY <1>7, <1>9, <3>1, ConcatProperties
  <2>2. 1 + (n - 1) = n
    OBVIOUS
  <2> QED BY <1>7, <1>9, <2>1, <2>2
<1>11. ASSUME NEW k \in 1..n
       PROVE  order[k] = IF k = 1 THEN chain[i] ELSE IF k <= i THEN chain[k - 1] ELSE chain[k]
  <2>1. CASE k = 1
    BY <1>9, <1>10, <2>1
  <2>2. CASE k # 1 /\ k <= i
    <3>1. k - 1 \in 1..(n - 1) /\ k - 1 <= i - 1 /\ k - 1 \in 1..(i - 1) /\ ~(k <= 1)
      BY <2>2
    <3>2. order[k] = rest[k - 1] /\ rest[k - 1] = left[k - 1] /\ left[k - 1] = chain[k - 1]
      BY <1>4, <1>7, <1>10, <3>1
    <3> QED BY <2>2, <3>2
  <2>3. CASE k # 1 /\ ~(k <= i)
    <3>1. /\ k - 1 \in 1..(n - 1) /\ ~(k - 1 <= i - 1) /\ ~(k <= 1)
          /\ (k - 1) - (i - 1) = k - i /\ k - i \in 1..(n - i) /\ i + (k - i) = k
      BY <2>3
    <3>2. order[k] = rest[k - 1] /\ rest[k - 1] = right[k - i]
      BY <1>7, <1>10, <3>1
    <3>3. right[k - i] = chain[k]
      BY <1>5, <3>1
    <3> QED BY <2>3, <3>2, <3>3
  <2> QED BY <2>1, <2>2, <2>3
<1> QED BY <1>10, <1>11

\* Hence it lists the same members, each once.
LEMMA MovedToFrontLists ==
    ASSUME NEW S, NEW chain \in Seq(S), NEW n \in Nat, n = Len(chain), NEW i \in 1..n,
           NEW order, Fronted(order, chain, i),
           Once(chain, n)
    PROVE  Lists(order, chain, n) /\ Lists(chain, order, n) /\ Once(order, n)
<1> DEFINE from == [k \in 1..n |-> IF k = 1 THEN i ELSE IF k <= i THEN k - 1 ELSE k]
<1>1. \A k \in 1..n : from[k] \in 1..n
  OBVIOUS
<1>2. \A k \in 1..n : order[k] = chain[from[k]]
  <2>1. \A k \in 1..n : order[k] = IF k = 1 THEN chain[i]
                                   ELSE IF k <= i THEN chain[k - 1] ELSE chain[k]
    BY MovedToFront
  <2> QED BY <2>1
<1>3. \A j, k \in 1..n : from[j] = from[k] => j = k
  OBVIOUS
<1>4. ASSUME NEW k \in 1..n PROVE \E l \in 1..n : from[l] = k
  <2>1. CASE k = i
    <3>1. 1 \in 1..n /\ from[1] = k
      BY <2>1
    <3> QED BY <3>1
  <2>2. CASE k < i
    <3>1. k + 1 \in 1..n /\ from[k + 1] = k
      BY <2>2
    <3> QED BY <3>1
  <2>3. CASE k > i
    <3>1. from[k] = k
      BY <2>3
    <3> QED BY <3>1
  <2> QED BY <2>1, <2>2, <2>3
<1> HIDE DEF from
<1>5. \A k \in 1..n : \E l \in 1..n : order[l] = chain[k]
  <2> SUFFICES ASSUME NEW k \in 1..n PROVE \E l \in 1..n : order[l] = chain[k]
    OBVIOUS
  <2>1. PICK l \in 1..n : from[l] = k
    BY <1>4
  <2> QED BY <1>2, <2>1
<1>6. \A k \in 1..n : \E l \in 1..n : order[k] = chain[l]
  BY <1>1, <1>2
<1>7. \A j, k \in 1..n : order[j] = order[k] => j = k
  <2> SUFFICES ASSUME NEW j \in 1..n, NEW k \in 1..n, order[j] = order[k]
               PROVE  j = k
    OBVIOUS
  <2>1. chain[from[j]] = chain[from[k]] /\ from[j] \in 1..n /\ from[k] \in 1..n
    BY <1>1, <1>2
  <2>2. from[j] = from[k]
    BY <2>1 DEF Once
  <2> QED BY <1>3, <2>2
<1> QED BY <1>5, <1>6, <1>7 DEF Lists, Once

\* Moving the named member to the front keeps every member, once.
LEMMA OrderLists ==
    ASSUME NEW snap \in Snapshot
    PROVE  /\ Order(snap) \in Seq(Members)
           /\ \A m : m \in ChainSet(snap.body) <=> \E i \in DOMAIN Order(snap) : Order(snap)[i] = m
           /\ \A i, j \in DOMAIN Order(snap) : Order(snap)[i] = Order(snap)[j] => i = j
<1>1. PICK chain \in Seq(Members) : chain = snap.body.chain
  BY SnapshotBody DEF LaneBody
<1>2. PICK n \in Nat : n = Len(chain) /\ DOMAIN chain = 1..n
  OBVIOUS
<1>3. \A m : m \in ChainSet(snap.body) <=> \E i \in 1..n : chain[i] = m
  BY <1>1, <1>2 DEF ChainSet, Range
<1>4. Once(chain, n)
  BY <1>1, <1>2, ChainDistinct DEF Once
<1>5. CASE snap.pin \notin ChainSet(snap.body)
  <2>1. Order(snap) = chain
    BY <1>1, <1>5 DEF Order
  <2> QED BY <1>2, <1>3, <1>4, <2>1 DEF Once
<1>6. CASE snap.pin \in ChainSet(snap.body)
  <2>1. PICK i \in 1..n :
          i = (CHOOSE j \in DOMAIN chain : chain[j] = snap.pin) /\ chain[i] = snap.pin
    BY <1>2, <1>3, <1>6
  <2>2. PICK order : order = <<chain[i]>> \o RemoveAt(chain, i) /\ Fronted(order, chain, i)
    BY DEF Fronted
  <2>3. Order(snap) = order
    BY <1>1, <1>6, <2>1, <2>2 DEF Order
  <2>4. Fronted(order, chain, i) /\ n = Len(chain)
    BY <1>2, <2>2
  <2>7. order \in Seq(Members) /\ Len(order) = n
    BY <2>4, MovedToFront
  <2>5. DOMAIN order = 1..n
    BY <2>7
  <2>6. Lists(order, chain, n) /\ Lists(chain, order, n) /\ Once(order, n)
    BY <1>4, <2>4, MovedToFrontLists
  <2>8. \A m : m \in ChainSet(snap.body) <=> \E k \in 1..n : order[k] = m
    <3>1. ASSUME NEW m, m \in ChainSet(snap.body) PROVE \E k \in 1..n : order[k] = m
      <4>1. PICK l \in 1..n : chain[l] = m
        BY <1>3, <3>1
      <4> QED BY <2>6, <4>1 DEF Lists
    <3>2. ASSUME NEW m, NEW k \in 1..n, order[k] = m PROVE m \in ChainSet(snap.body)
      <4>1. PICK l \in 1..n : chain[l] = order[k]
        BY <2>6 DEF Lists
      <4> QED BY <1>3, <3>2, <4>1
    <3> QED BY <3>1, <3>2
  <2> QED BY <2>3, <2>5, <2>6, <2>7, <2>8 DEF Once
<1> QED BY <1>5, <1>6

--------------------------------------------------------------------------------
(* The attempts chain explains the selection *)

\* The members in front of m in the request's order all have a record.
FrontNoted(q, m) ==
    LET order == Order(q.snap)
    IN  \A i \in DOMAIN order : order[i] = m => \A j \in 1..(i - 1) : q.hist[order[j]] # {}

\* A request has selected a member of its chain, a member that it has attempted is
\* recorded unless it is the one in hand, and in failover mode the members in front
\* of the one in hand, or all of them when none is left, are recorded.
Explained(q) ==
    LET chain == ChainSet(q.snap.body)
        failover == q.snap.body.mode # "manual"
    IN  /\ q.pc = "mark" => q.chosen \in chain /\ (failover => FrontNoted(q, q.chosen))
        /\ q.pc \in AtMember => q.cur \in chain /\ (failover => FrontNoted(q, q.cur))
        /\ q.pc = "exhausted" /\ failover => \A m \in chain : q.hist[m] # {}
        /\ \A m \in Members : q.att[m] > 0 =>
              \/ q.hist[m] # {}
              \/ q.pc = "mark" /\ q.chosen = m
              \/ q.pc \in {"setup", "inflight"} /\ q.cur = m

ExplainedInv == \A r \in Requests : Explained(req[r])

\* A request between two selections is explained by its records alone.
LEMMA ExplainedBetween ==
    ASSUME NEW p, p.pc \in {"idle", "apply", "prune", "pick", "reload", "done"},
           \A m \in Members : p.att[m] > 0 => p.hist[m] # {}
    PROVE  Explained(p)
BY DEF Explained, AtMember

\* A finished request has no attempts left to explain.
LEMMA FinishedExplained ==
    ASSUME NEW result
    PROVE  Explained(Finished(result))
<1>1. Finished(result).pc = "done" /\ Finished(result).att = [m \in Members |-> 0]
  BY DEF Finished, IdleRequest
<1>2. \A m \in Members : ~(Finished(result).att[m] > 0)
  BY <1>1
<1> QED BY <1>1, <1>2, ExplainedBetween

\* Before a selection every attempted member has a record.
LEMMA AttemptsNoted ==
    ASSUME NEW q, Explained(q), q.pc \in {"apply", "prune", "pick", "reload", "giveback"},
           NEW m \in Members, q.att[m] > 0
    PROVE  q.hist[m] # {}
BY DEF Explained

\* recordSkipLocked never removes a record, and gives one to each member it is told of.
LEMMA SkipsNoted ==
    ASSUME NEW hist, NEW members, NEW why, NEW m \in Members, hist[m] # {} \/ m \in members
    PROVE  NoteSkips(hist, members, why)[m] # {}
BY DEF NoteSkips

\* failedAttempt records its member and removes no record.
LEMMA FailureNoted ==
    ASSUME NEW hist \in [Members -> SUBSET Status], NEW k \in Members
    PROVE  /\ NoteFailed(hist, k)[k] # {}
           /\ \A m \in Members : hist[m] # {} => NoteFailed(hist, k)[m] # {}
BY DEF NoteFailed

\* A traversal that passes over the first n members leaves a record of each: those
\* with budget left are noted now, the others were attempted before.
LEMMA PassedNoted ==
    ASSUME IInv, NEW r \in Requests, At(r, "pick"), Explained(req[r]),
           NEW i \in Nat, i <= Len(Order(req[r].snap)) + 1, NEW why,
           NEW j \in 1..(i - 1)
    PROVE  NoteSkips(req[r].hist, Passed(r, i), why)[Order(req[r].snap)[j]] # {}
<1> DEFINE order == Order(req[r].snap)
<1>1. order \in Seq(Members)
  BY OrderLists, BodyOf DEF IInv
<1>2. j \in 1..Len(order)
  BY <1>1
<1>3. PICK m \in Members : m = order[j]
  BY <1>1, <1>2
<1>4. CASE BudgetLeft(r, m)
  <2>1. m \in Passed(r, i)
    BY <1>3, <1>4 DEF Passed
  <2> QED BY <1>3, <2>1, SkipsNoted
<1>5. CASE ~BudgetLeft(r, m)
  <2>1. req[r].att[m] \in Nat /\ Body(r).attempts[m] \in Nat \ {0}
    BY BodyOf DEF IInv, RequestState, LaneBody
  <2>2. req[r].att[m] > 0
    BY <1>5, <2>1 DEF BudgetLeft
  <2>3. req[r].hist[m] # {}
    BY <2>2, AttemptsNoted DEF At
  <2> QED BY <1>3, <2>3, SkipsNoted
<1> QED BY <1>4, <1>5

\* Choosing a member counts an attempt that is the one in hand.
LEMMA ChosenAttempts ==
    ASSUME IInv, NEW r \in Requests, At(r, "pick"), Explained(req[r]), NEW k \in Members,
           NEW claimed, NEW hist, Choose(r, k, claimed, hist),
           \A m \in Members : req[r].hist[m] # {} => hist[m] # {},
           NEW m \in Members, req'[r].att[m] > 0
    PROVE  req'[r].hist[m] # {} \/ (req'[r].pc = "mark" /\ req'[r].chosen = m)
<1>1. /\ req'[r].pc = "mark" /\ req'[r].chosen = k /\ req'[r].hist = hist
      /\ req'[r].att = [req[r].att EXCEPT ![k] = @ + 1]
  BY ChooseMoves
<1>2. CASE m = k
  BY <1>1, <1>2
<1>3. CASE m # k
  <2>1. req[r].att \in [Members -> Nat]
    BY BodyOf DEF IInv, RequestState
  <2>2. req[r].att[m] > 0
    BY <1>1, <1>3, <2>1
  <2>3. req[r].hist[m] # {}
    BY <2>2, AttemptsNoted DEF At
  <2> QED BY <1>1, <2>3
<1> QED BY <1>2, <1>3

\* A failover selection of position i, with the members in front of it noted.
LEMMA FailoverChoiceExplained ==
    ASSUME IInv, NEW r \in Requests, At(r, "pick"), Explained(req[r]),
           NEW i \in DOMAIN Order(req[r].snap), NEW claimed, NEW why,
           Choose(r, Order(req[r].snap)[i], claimed,
                  NoteSkips(req[r].hist, Passed(r, i), why))
    PROVE  Explained(req'[r])
<1>1. PICK order \in Seq(Members) : order = Order(req[r].snap)
  BY OrderLists, BodyOf DEF IInv
<1>2. PICK k \in Members : k = order[i]
  BY <1>1
<1>3. PICK hist : hist = NoteSkips(req[r].hist, Passed(r, i), why)
  OBVIOUS
<1>4. Choose(r, k, claimed, hist)
  BY <1>1, <1>2, <1>3
<1>5. /\ req'[r].pc = "mark" /\ req'[r].chosen = k /\ req'[r].hist = hist
      /\ req'[r].snap = req[r].snap
  BY <1>4, ChooseMoves
<1>6. i \in Nat /\ i <= Len(order) + 1
  BY <1>1
<1>7. \A j \in 1..(i - 1) : hist[order[j]] # {}
  BY <1>1, <1>3, <1>6, PassedNoted
<1>8. k \in ChainSet(req'[r].snap.body)
  BY <1>1, <1>2, <1>5, OrderLists, BodyOf DEF IInv
<1>9. FrontNoted(req'[r], k)
  <2>1. \A l \in DOMAIN order : order[l] = k => l = i
    BY <1>1, <1>2, OrderLists, BodyOf DEF IInv
  <2> QED BY <1>1, <1>5, <1>7, <2>1 DEF FrontNoted
<1>10. \A m \in Members : req[r].hist[m] # {} => hist[m] # {}
  BY <1>3, SkipsNoted
<1>11. \A m \in Members : req'[r].att[m] > 0 =>
         req'[r].hist[m] # {} \/ (req'[r].pc = "mark" /\ req'[r].chosen = m)
  BY <1>4, <1>10, ChosenAttempts
<1> QED BY <1>5, <1>8, <1>9, <1>11 DEF Explained, AtMember

\* Selection and its end.
LEMMA SelectsExplained ==
    ASSUME IInv, NEW r \in Requests, Explained(req[r]), Selects(r)
    PROVE  Explained(req'[r])
<1>1. ASSUME PickAffinity(r) PROVE Explained(req'[r])
  <2>1. PICK i \in DOMAIN Order(req[r].snap) :
          /\ Order(req[r].snap)[i] = rt.current
          /\ Choose(r, rt.current, req[r].claimed,
                    NoteSkips(req[r].hist, Passed(r, i), RuntimeReasons))
    BY <1>1 DEF PickAffinity
  <2> QED BY <1>1, <2>1, FailoverChoiceExplained DEF PickAffinity
<1>2. ASSUME PickByPriority(r) PROVE Explained(req'[r])
  <2>1. PICK i \in DOMAIN Order(req[r].snap) : \E claimed :
          Choose(r, Order(req[r].snap)[i], claimed,
                 NoteSkips(req[r].hist, Passed(r, i), SkipReasons(r)))
    BY <1>2 DEF PickByPriority
  <2> QED BY <1>2, <2>1, FailoverChoiceExplained DEF PickByPriority
<1>3. ASSUME PickManual(r) PROVE Explained(req'[r])
  <2>1. PICK k, claimed : k = Body(r).active /\ Choose(r, k, claimed, req[r].hist)
    BY <1>3 DEF PickManual
  <2>2. k \in ChainSet(Body(r)) /\ k \in Members /\ At(r, "pick") /\ IsManual(r)
    BY <1>3, <2>1, BodyOf DEF PickManual, ManualReady, IInv
  <2>3. /\ req'[r].pc = "mark" /\ req'[r].chosen = k /\ req'[r].snap = req[r].snap
    BY <2>1, ChooseMoves
  <2>4. \A m \in Members : req'[r].att[m] > 0 =>
          req'[r].hist[m] # {} \/ (req'[r].pc = "mark" /\ req'[r].chosen = m)
    BY <2>1, <2>2, ChosenAttempts
  <2> QED BY <2>2, <2>3, <2>4 DEF Explained, AtMember, Body, IsManual
<1>4. ASSUME PickNone(r) PROVE Explained(req'[r])
  <2>1. /\ req'[r].pc = "exhausted" /\ req'[r].snap = req[r].snap
        /\ req'[r].att = req[r].att /\ req'[r].hist = ExhaustedHist(r)
    BY <1>4, PickNoneMoves
  <2>2. At(r, "pick")
    BY <1>4 DEF PickNone
  <2>3. \A m \in Members : req'[r].att[m] > 0 => req'[r].hist[m] # {}
    <3> SUFFICES ASSUME NEW m \in Members, req[r].att[m] > 0 PROVE ExhaustedHist(r)[m] # {}
      BY <2>1
    <3>1. req[r].hist[m] # {}
      BY <2>2, AttemptsNoted DEF At
    <3> QED BY <3>1, SkipsNoted DEF ExhaustedHist
  <2>4. ASSUME ~IsManual(r), NEW m \in ChainSet(Body(r)) PROVE ExhaustedHist(r)[m] # {}
    <3>1. PICK order \in Seq(Members) : order = Order(req[r].snap)
      BY OrderLists, BodyOf DEF IInv
    <3>2. PICK j \in DOMAIN order : order[j] = m
      BY <2>4, <3>1, OrderLists, BodyOf DEF IInv, Body
    <3>3. PICK i \in Nat : i = Len(order) + 1 /\ j \in 1..(i - 1)
      BY <3>1
    <3>4. ExhaustedHist(r) = NoteSkips(req[r].hist, Passed(r, i), SkipReasons(r))
      BY <2>4, <3>1, <3>3 DEF ExhaustedHist
    <3>5. i <= Len(Order(req[r].snap)) + 1
      BY <3>1, <3>3
    <3> QED BY <2>2, <3>1, <3>2, <3>3, <3>4, <3>5, PassedNoted
  <2> QED BY <2>1, <2>3, <2>4 DEF Explained, AtMember, Body, IsManual
<1>5. ASSUME MarkCurrentMember(r) PROVE Explained(req'[r])
  <2>1. LET q == req[r]
            p == req'[r]
        IN  /\ q.pc = "mark" /\ p.pc = "setup" /\ p.cur = q.chosen
            /\ p.snap = q.snap /\ p.att = q.att /\ p.hist = q.hist
    BY <1>5, MarkMoves
  <2> QED BY <2>1 DEF Explained, AtMember, FrontNoted
<1>6. ASSUME NoMemberLeft(r) PROVE Explained(req'[r])
  BY <1>6, Moved, FinishedExplained DEF NoMemberLeft
<1> QED BY <1>1, <1>2, <1>3, <1>4, <1>5, <1>6 DEF Selects

\* PBRServe, applyRouteLocked and reloadLocked: a new configuration starts without
\* attempts at the members that are new in it.
LEMMA ConfigureExplained ==
    ASSUME IInv, NEW r \in Requests, Explained(req[r]),
           Arrive(r) \/ ApplyRoute(r) \/ Prune(r) \/ Reload(r) \/ ReloadFails(r)
    PROVE  Explained(req'[r])
<1>1. ASSUME NEW pc \in {"prune", "pick"}, Becomes(r, [req[r] EXCEPT !.pc = pc]),
             req[r].pc \in {"apply", "prune", "reload"}
      PROVE  Explained(req'[r])
  <2>1. req'[r].pc = pc /\ Holds(req'[r], req[r])
    BY <1>1, PhaseMoves
  <2>2. \A m \in Members : req'[r].att[m] > 0 => req'[r].hist[m] # {}
    BY <1>1, <2>1, AttemptsNoted DEF Holds
  <2> QED BY <2>1, <2>2, ExplainedBetween
<1>2. ASSUME Arrive(r) PROVE Explained(req'[r])
  <2>1. CASE req'[r] = Finished("503")
    BY <2>1, FinishedExplained
  <2>2. CASE req'[r].pc = "apply" /\ req'[r].att = [m \in Members |-> 0]
    <3>1. \A m \in Members : ~(req'[r].att[m] > 0)
      BY <2>2
    <3> QED BY <2>2, <3>1, ExplainedBetween
  <2> QED BY <1>2, <2>1, <2>2, ArriveMoves
<1>3. ASSUME Reload(r) PROVE Explained(req'[r])
  <2>1. req[r].pc = "reload"
    BY <1>3 DEF Reload, At
  <2>2. /\ req'[r].pc \in {"pick", "apply"} /\ req'[r].hist = req[r].hist
        /\ \A m \in Members : req'[r].att[m] \in {0, req[r].att[m]}
    BY <1>3, ReloadMoves DEF Holds
  <2>3. \A m \in Members : req'[r].att[m] > 0 => req'[r].hist[m] # {}
    <3> SUFFICES ASSUME NEW m \in Members, req'[r].att[m] > 0 PROVE req[r].hist[m] # {}
      BY <2>2
    <3>1. req[r].att[m] > 0
      BY <2>2
    <3> QED BY <2>1, <3>1, AttemptsNoted
  <2> QED BY <2>2, <2>3, ExplainedBetween
<1>4. ASSUME ApplyRoute(r) \/ Prune(r) \/ ReloadFails(r) PROVE Explained(req'[r])
  BY <1>1, <1>4 DEF ApplyRoute, Prune, ReloadFails, At
<1> QED BY <1>2, <1>3, <1>4

\* At a member: the request keeps it, or leaves it with a record.
LEMMA AttemptExplained ==
    ASSUME IInv, NEW r \in Requests, Explained(req[r]),
           \/ ChannelReady(r) \/ ChannelUnavailable(r) \/ GiveBackProbe(r)
           \/ RelayRefusesRequest(r) \/ StubHandler(r) \/ AttemptEnds(r)
    PROVE  Explained(req'[r])
<1> DEFINE q == req[r]
           p == req'[r]
<1>1. ASSUME p.pc \in AtMember, q.pc \in {"setup", "inflight"}, p.snap = q.snap, p.cur = q.cur,
             \A m \in Members : q.hist[m] # {} => p.hist[m] # {},
             \A m \in Members : m # q.cur => p.att[m] = q.att[m],
             p.pc = "giveback" => p.hist[q.cur] # {}
      PROVE  Explained(p)
  <2>1. q.cur \in Members /\ q.snap \in Snapshot
    BY <1>1, MemberData, BodyOf DEF IInv, AtMember
  <2>2. q.cur \in ChainSet(q.snap.body) /\ (q.snap.body.mode # "manual" => FrontNoted(q, q.cur))
    BY <1>1 DEF Explained, AtMember
  <2>3. FrontNoted(q, q.cur) => FrontNoted(p, q.cur)
    <3>1. PICK order \in Seq(Members) : order = Order(q.snap)
      BY <2>1, OrderLists
    <3> SUFFICES ASSUME FrontNoted(q, q.cur), NEW i \in DOMAIN order, order[i] = q.cur,
                        NEW j \in 1..(i - 1)
                 PROVE  p.hist[order[j]] # {}
      BY <1>1, <3>1 DEF FrontNoted
    <3>2. order[j] \in Members
      BY <3>1
    <3>3. q.hist[order[j]] # {}
      BY <3>1 DEF FrontNoted
    <3> QED BY <1>1, <3>2, <3>3
  <2>4. ASSUME NEW m \in Members, p.att[m] > 0
        PROVE  p.hist[m] # {} \/ (p.pc \in {"setup", "inflight"} /\ p.cur = m)
    <3>1. CASE m = q.cur
      BY <1>1, <3>1 DEF AtMember
    <3>2. CASE m # q.cur
      BY <1>1, <2>4, <3>2 DEF Explained
    <3> QED BY <3>1, <3>2
  <2> HIDE DEF p, q
  <2> QED BY <1>1, <2>2, <2>3, <2>4 DEF Explained, AtMember
<1>2. ASSUME ChannelReady(r) PROVE Explained(p)
  BY <1>1, <1>2, ReadyMoves DEF AtMember
<1>3. ASSUME ChannelUnavailable(r) PROVE Explained(p)
  <2>1. /\ q.pc = "setup" /\ p.pc = "giveback" /\ p.snap = q.snap /\ p.cur = q.cur
        /\ p.att = q.att /\ p.hist = NoteFailed(q.hist, q.cur)
    BY <1>3, UnavailableMoves
  <2>2. q.cur \in Members /\ q.hist \in [Members -> SUBSET Status]
    BY <2>1, MemberData DEF AtMember, RequestState
  <2> QED BY <1>1, <2>1, <2>2, FailureNoted DEF AtMember
<1>4. ASSUME GiveBackProbe(r) PROVE Explained(p)
  <2>1. q.pc = "giveback" /\ p.pc = "reload" /\ Holds(p, q)
    BY <1>4, GiveBackMoves
  <2>2. \A m \in Members : p.att[m] > 0 => p.hist[m] # {}
    BY <2>1, AttemptsNoted DEF Holds
  <2> QED BY <2>1, <2>2, ExplainedBetween
<1>5. ASSUME NEW kind, RetrySameMember(r, kind) PROVE Explained(p)
  <2>1. /\ q.pc = "inflight" /\ p.pc = "setup" /\ p.snap = q.snap /\ p.cur = q.cur
        /\ p.att = [q.att EXCEPT ![q.cur] = @ + 1] /\ p.hist = NoteFailed(q.hist, q.cur)
    BY <1>5, RetryMoves
  <2>2. /\ q.cur \in Members /\ q.hist \in [Members -> SUBSET Status]
        /\ q.att \in [Members -> Nat]
    BY <2>1, MemberData DEF AtMember, RequestState
  <2>3. \A m \in Members : m # q.cur => p.att[m] = q.att[m]
    BY <2>1, <2>2
  <2> QED BY <1>1, <2>1, <2>2, <2>3, FailureNoted, SMTT(20) DEF AtMember
<1>6. ASSUME At(r, "inflight"), NEW kind, NEW n, LeaveMember(r, kind, n) PROVE Explained(p)
  <2>1. /\ q.pc = "inflight" /\ p.pc = "reload"
        /\ p.att = [q.att EXCEPT ![q.cur] = n] /\ p.hist = NoteFailed(q.hist, q.cur)
    BY <1>6, LeaveMoves DEF At
  <2>2. /\ q.cur \in Members /\ q.hist \in [Members -> SUBSET Status]
        /\ q.att \in [Members -> Nat]
    BY <2>1, MemberData DEF AtMember, RequestState
  <2>3. ASSUME NEW m \in Members, p.att[m] > 0 PROVE p.hist[m] # {}
    <3>1. CASE m = q.cur
      BY <2>1, <2>2, <3>1, FailureNoted
    <3>2. CASE m # q.cur
      <4>1. q.att[m] > 0
        BY <2>1, <2>2, <2>3, <3>2
      <4>2. q.hist[m] # {}
        BY <2>1, <3>2, <4>1 DEF Explained
      <4> QED BY <2>1, <2>2, <4>2, FailureNoted
    <3> QED BY <3>1, <3>2
  <2>4. p.pc = "reload" /\ \A m \in Members : p.att[m] > 0 => p.hist[m] # {}
    BY <2>1, <2>3
  <2> QED BY <2>4, ExplainedBetween
<1>7. ASSUME NEW result, Becomes(r, Finished(result)) PROVE Explained(p)
  BY <1>7, Moved, FinishedExplained
<1>8. CASE AttemptEnds(r)
  BY <1>5, <1>6, <1>7, <1>8
  DEF AttemptEnds, Success, StopOnError, LoopEnds, FailMember, RejectMember
<1>9. CASE RelayRefusesRequest(r) \/ StubHandler(r)
  BY <1>7, <1>9 DEF RelayRefusesRequest, StubHandler
<1> QED BY <1>2, <1>3, <1>4, <1>8, <1>9

\* A request moves alone.
LEMMA OthersStay ==
    ASSUME IInv, NEW r \in Requests, Arrive(r) \/ Proceeds(r), NEW o \in Requests, o # r
    PROVE  req'[o] = req[o]
<1>1. PICK q : Becomes(r, q)
  BY DEF Arrive, Proceeds, ApplyRoute, Prune, Reload, ReloadFails, Selects, PickAffinity,
         PickByPriority, PickManual, PickNone, MarkCurrentMember, NoMemberLeft, Choose,
         ChannelReady, ChannelUnavailable, GiveBackProbe, RelayRefusesRequest, StubHandler,
         AttemptEnds, Success, StopOnError, LoopEnds, RetrySameMember, FailMember,
         RejectMember, LeaveMember
<1> QED BY <1>1 DEF Becomes, IInv, RequestsInv

\* Operators do not touch the requests.
LEMMA EnvironmentLeavesRequests ==
    ASSUME Environment
    PROVE  req' = req
BY DEF Environment, EditLane, ResetLaneCircuits, SetCircuitOptions, Tick, FlipChannel

\* Every request stays explained.
LEMMA ExplainedHolds == Spec => []ExplainedInv
<1>1. Init => ExplainedInv
  <2> SUFFICES ASSUME Init, NEW r \in Requests PROVE Explained(req[r])
    BY DEF ExplainedInv
  <2>1. req[r].pc = "idle" /\ req[r].att = [m \in Members |-> 0]
    BY DEF Init, IdleRequest
  <2>2. \A m \in Members : ~(req[r].att[m] > 0)
    BY <2>1
  <2> QED BY <2>1, <2>2, ExplainedBetween
<1>2. IInv /\ ExplainedInv /\ [Next]_vars => ExplainedInv'
  <2> SUFFICES ASSUME IInv, ExplainedInv, [Next]_vars PROVE ExplainedInv'
    OBVIOUS
  <2>1. CASE UNCHANGED vars \/ Environment
    BY <2>1, EnvironmentLeavesRequests DEF vars, ExplainedInv
  <2>2. ASSUME NEW r \in Requests, Arrive(r) \/ Proceeds(r) PROVE ExplainedInv'
    <3>1. Explained(req'[r])
      BY <2>2, ConfigureExplained, SelectsExplained, AttemptExplained DEF Proceeds, ExplainedInv
    <3> QED BY <2>2, <3>1, OthersStay DEF ExplainedInv
  <2> QED BY <2>1, <2>2 DEF Next
<1> QED BY <1>1, <1>2, InvariantHolds, PTL DEF Spec

\* The attempts chain explains the selection, for every lane, whatever operators edit
\* and other requests do meanwhile: each member in front of the one a failover request
\* has selected, and each member when it finds none, has a record saying why.
THEOREM SelectionAlwaysExplained == Spec => []SelectionExplained
<1>1. IInv /\ ExplainedInv => SelectionExplained
  BY DEF ExplainedInv, Explained, FrontNoted, SelectionExplained, Selected, Target, At,
         AtMember, IsManual, Body
<1> QED BY <1>1, InvariantHolds, ExplainedHolds, PTL

--------------------------------------------------------------------------------
(* One step of one circuit *)

\* A member cools down for its own time after an error, and for the lane's when its
\* channel is unavailable.
Cooldowns(m) ==
    {CooldownSecondsFor(kind, body.cooldown[m]) : kind \in Outcomes, body \in LaneBodies}
    \cup {CooldownSecondsFor("soft_transient", body.laneCooldown) : body \in LaneBodies}

\* What a step may make of the circuit c of member m.
CircuitMoves(c, d, m) ==
    \/ d = c
    \/ d.state = "closed" /\ d.score = 0
    \/ c.state = "open" /\ d = [c EXCEPT !.state = "half_open"]
    \/ \E kind \in Kinds, cooldown \in Cooldowns(m) :
          d = FailedCircuit(c, kind, cooldown, settings, now)

CircuitsMove == \A m \in Members : CircuitMoves(rt.circuits[m], rt'.circuits[m], m)

\* The configuration of a request at a member is one that was saved.
LEMMA BodyConfigured ==
    ASSUME IInv, ExplainedInv, NEW r \in Requests, req[r].pc \in AtMember
    PROVE  Body(r) \in LaneBodies
<1>1. req[r].cur \in ChainSet(Body(r))
  BY DEF ExplainedInv, Explained, Body
<1>2. Body(r) # UnconfiguredBody
  BY <1>1 DEF UnconfiguredBody, ChainSet, Range
<1> QED BY <1>2, BodyOf DEF IInv, Snapshot, Body

\* releaseProbe and the end of an affinity window leave the circuits alone.
LEMMA SlotKeepsCircuits ==
    ASSUME NEW s, RuntimeInv(s), NEW k
    PROVE  ReleaseProbe(s, k).circuits = s.circuits /\ EndAffinity(s, k).circuits = s.circuits
BY DEF ReleaseProbe, EndAffinity, RuntimeInv, Runtime

\* recordFailure writes the circuit of its member only.
LEMMA RecordFailureCircuits ==
    ASSUME NEW s, RuntimeInv(s), NEW k \in Members, NEW kind, NEW seconds \in Nat, NEW apply,
           NEW st, NEW t
    PROVE  LET circuits == RecordFailure(s, k, kind, seconds, apply, st, t).circuits
           IN  /\ circuits[k] = FailedCircuit(s.circuits[k], kind,
                                              CooldownSecondsFor(kind, seconds), st, t)
               /\ \A m \in Members : m # k => circuits[m] = s.circuits[m]
<1> DEFINE e == EndAffinity(s, k)
           cooldown == CooldownSecondsFor(kind, seconds)
<1>1. RuntimeInv(e) /\ e.circuits = s.circuits
  BY EndAffinityInv, SlotKeepsCircuits
<1>2. PICK c : c = FailedCircuit(e.circuits[k], kind, cooldown, st, t)
  OBVIOUS
<1>3. PICK until : until = IF apply /\ cooldown > 0 THEN t + cooldown ELSE e.cooldowns[k]
  OBVIOUS
<1>4. RecordFailure(s, k, kind, seconds, apply, st, t)
        = [e EXCEPT !.circuits[k] = c, !.cooldowns[k] = until]
  BY <1>2, <1>3 DEF RecordFailure
<1>5. [e EXCEPT !.circuits[k] = c, !.cooldowns[k] = until].circuits = [e.circuits EXCEPT ![k] = c]
  <2> HIDE DEF e
  <2> QED BY <1>1 DEF RuntimeInv, Runtime
<1> HIDE DEF e, cooldown
<1>6. s.circuits \in [Members -> Circuit]
  BY DEF RuntimeInv, Runtime
<1> QED BY <1>1, <1>2, <1>4, <1>5, <1>6 DEF cooldown

\* recordSuccess closes the circuit of its member.
LEMMA RecordSuccessCircuits ==
    ASSUME NEW s, RuntimeInv(s), NEW k \in Members, NEW seconds, NEW t
    PROVE  RecordSuccess(s, k, seconds, t).circuits
             = [s.circuits EXCEPT ![k] = ClosedCircuit(@)]
<1> DEFINE e == ReleaseProbe(s, k)
<1>1. RuntimeInv(e) /\ e.circuits = s.circuits
  BY ReleaseProbeInv, SlotKeepsCircuits
<1>2. PICK c : c = ClosedCircuit(e.circuits[k])
  OBVIOUS
<1>3. PICK until : until = IF s.armed /\ seconds > 0 THEN t + seconds ELSE e.affinityUntil
  OBVIOUS
<1>4. RecordSuccess(s, k, seconds, t)
        = [e EXCEPT !.cooldowns[k] = 0, !.circuits[k] = c, !.laneDown = FALSE,
                    !.affinityUntil = until, !.armed = FALSE]
  BY <1>2, <1>3 DEF RecordSuccess
<1>5. [e EXCEPT !.cooldowns[k] = 0, !.circuits[k] = c, !.laneDown = FALSE,
                !.affinityUntil = until, !.armed = FALSE].circuits = [e.circuits EXCEPT ![k] = c]
  <2> HIDE DEF e
  <2> QED BY <1>1 DEF RuntimeInv, Runtime
<1> HIDE DEF e
<1> QED BY <1>1, <1>2, <1>4, <1>5

\* A success forgets the failures so far.
LEMMA ClosedCircuitForgets ==
    ASSUME NEW c \in Circuit
    PROVE  ClosedCircuit(c).state = "closed" /\ ClosedCircuit(c).score = 0
BY DEF ClosedCircuit, Circuit

\* takeProbe turns one open circuit half open.
LEMMA TakeProbeCircuits ==
    ASSUME NEW s, RuntimeInv(s), NEW k \in Members, NEW m \in Members
    PROVE  LET c == s.circuits[m]
               d == TakeProbe(s, k).circuits[m]
           IN  d = c \/ (c.state = "open" /\ d = [c EXCEPT !.state = "half_open"])
<1> DEFINE c == s.circuits[k]
           d == [c EXCEPT !.state = IF c.state = "open" THEN "half_open" ELSE c.state]
<1>1. TakeProbe(s, k) = [s EXCEPT !.probe = k, !.circuits[k] = d]
  BY DEF TakeProbe, RuntimeInv, Runtime, Circuit
<1>2. d = c \/ (c.state = "open" /\ d = [c EXCEPT !.state = "half_open"])
  BY DEF RuntimeInv, Runtime, Circuit
<1> HIDE DEF d, c
<1>3. TakeProbe(s, k).circuits = [s.circuits EXCEPT ![k] = d]
  BY <1>1 DEF RuntimeInv, Runtime
<1> QED BY <1>2, <1>3 DEF RuntimeInv, Runtime, c

\* Pruning keeps a circuit or starts it afresh.
LEMMA PruneCircuits ==
    ASSUME NEW s, RuntimeInv(s), NEW valid, NEW version, NEW m \in Members
    PROVE  PruneStaleState(s, valid, version).circuits[m] \in {s.circuits[m], FreshCircuit}
<1>1. PruneStaleLocked(s, valid).circuits[m] \in {s.circuits[m], FreshCircuit}
  BY DEF PruneStaleLocked, RuntimeInv, Runtime
<1> DEFINE base == IF valid = s.prunedSet THEN s ELSE PruneStaleLocked(s, valid)
<1>2. base.circuits[m] \in {s.circuits[m], FreshCircuit} /\ "circuits" \in DOMAIN base
  BY <1>1 DEF PruneStaleLocked, RuntimeInv, Runtime
<1>3. PICK newest : newest = IF version > s.prunedVersion THEN version ELSE s.prunedVersion
  OBVIOUS
<1>4. PruneStaleState(s, valid, version)
        \in {s, [s EXCEPT !.prunedSet = valid, !.prunedVersion = version],
              [base EXCEPT !.prunedSet = valid, !.prunedVersion = newest]}
  BY <1>3 DEF PruneStaleState
<1> HIDE DEF base
<1>5. [base EXCEPT !.prunedSet = valid, !.prunedVersion = newest].circuits = base.circuits
  BY <1>2
<1>6. [s EXCEPT !.prunedSet = valid, !.prunedVersion = version].circuits = s.circuits
  BY DEF RuntimeInv, Runtime
<1> QED BY <1>2, <1>4, <1>5, <1>6

\* The steps that record the end of an attempt, or of an attempt that could not start.
LEMMA AttemptCircuits ==
    ASSUME IInv, ExplainedInv, NEW r \in Requests,
           \/ ChannelUnavailable(r) \/ Success(r) \/ RejectMember(r)
           \/ \E kind \in Outcomes : FailMember(r, kind)
    PROVE  CircuitsMove
<1> DEFINE k == req[r].cur
<1>1. req[r].pc \in AtMember
  BY DEF ChannelUnavailable, Success, RejectMember, FailMember, At, AtMember
<1>2. RuntimeInv(rt) /\ k \in Members /\ Body(r) \in LaneBodies
  BY <1>1, MemberData, BodyConfigured DEF IInv
<1>3. rt.circuits \in [Members -> Circuit]
  BY <1>2 DEF RuntimeInv, Runtime
<1>4. ASSUME NEW kind \in Kinds, NEW cooldown \in Cooldowns(k),
             rt'.circuits[k] = FailedCircuit(rt.circuits[k], kind, cooldown, settings, now),
             \A m \in Members : m # k => rt'.circuits[m] = rt.circuits[m]
      PROVE  CircuitsMove
  <2> SUFFICES ASSUME NEW m \in Members
               PROVE  CircuitMoves(rt.circuits[m], rt'.circuits[m], m)
    BY DEF CircuitsMove
  <2>1. CASE m = k
    <3>1. rt'.circuits[m] = FailedCircuit(rt.circuits[m], kind, cooldown, settings, now)
      BY <1>2, <1>3, <1>4, <2>1
    <3> QED BY <2>1, <3>1 DEF CircuitMoves
  <2>2. CASE m # k
    BY <1>3, <1>4, <2>2 DEF CircuitMoves
  <2> QED BY <2>1, <2>2
<1>5. CASE ChannelUnavailable(r)
  <2>1. PICK seconds \in Nat, apply \in BOOLEAN :
          /\ seconds = Body(r).laneCooldown
          /\ rt' = RecordFailure(rt, k, "soft_transient", seconds, apply, settings, now)
    BY <1>1, <1>5, MemberData DEF ChannelUnavailable
  <2>4. /\ rt'.circuits[k] = FailedCircuit(rt.circuits[k], "soft_transient",
                               CooldownSecondsFor("soft_transient", seconds), settings, now)
        /\ \A m \in Members : m # k => rt'.circuits[m] = rt.circuits[m]
    BY <1>2, <2>1, RecordFailureCircuits
  <2>2. CooldownSecondsFor("soft_transient", seconds) \in Cooldowns(k)
    BY <1>2, <2>1 DEF Cooldowns
  <2>3. "soft_transient" \in Kinds
    BY DEF Kinds, SwitchKinds
  <2> QED BY <1>4, <2>2, <2>3, <2>4
<1>6. ASSUME NEW kind \in Outcomes, FailMember(r, kind) PROVE CircuitsMove
  <2>7. PICK seconds \in Nat, apply \in BOOLEAN :
          /\ seconds = Body(r).cooldown[k]
          /\ rt' = ReleaseProbe(RecordFailure(rt, k, kind, seconds, apply, settings, now), k)
    BY <1>1, <1>6, MemberData DEF FailMember
  <2> DEFINE s == RecordFailure(rt, k, kind, seconds, apply, settings, now)
  <2>1. RuntimeInv(s)
    BY <1>1, <1>2, MemberData, RecordFailureInv
  <2>2. /\ s.circuits[k] = FailedCircuit(rt.circuits[k], kind,
                                         CooldownSecondsFor(kind, seconds), settings, now)
        /\ \A m \in Members : m # k => s.circuits[m] = rt.circuits[m]
    BY <1>2, RecordFailureCircuits
  <2>3. rt' = ReleaseProbe(s, k)
    BY <2>7
  <2> HIDE DEF s
  <2>4. rt'.circuits = s.circuits
    BY <2>1, <2>3, SlotKeepsCircuits
  <2>5. CooldownSecondsFor(kind, seconds) \in Cooldowns(k)
    BY <1>2, <2>7 DEF Cooldowns
  <2>6. kind \in Kinds
    BY OutcomeAssumption
  <2> QED BY <1>4, <2>2, <2>4, <2>5, <2>6
<1>7. CASE Success(r)
  <2> DEFINE s == RecordSuccess(rt, k, Body(r).affinity[k], now)
  <2>1. RuntimeInv(s)
    BY <1>1, <1>2, MemberData, RecordSuccessInv
  <2>2. s.circuits = [rt.circuits EXCEPT ![k] = ClosedCircuit(@)]
    BY <1>2, RecordSuccessCircuits
  <2>3. rt' = ReleaseProbe(s, req[r].claimed)
    BY <1>7 DEF Success
  <2> HIDE DEF s
  <2>4. rt'.circuits = s.circuits
    BY <2>1, <2>3, SlotKeepsCircuits
  <2>5. ASSUME NEW m \in Members PROVE CircuitMoves(rt.circuits[m], rt'.circuits[m], m)
    <3>1. CASE m = k
      <4>1. rt'.circuits[m] = ClosedCircuit(rt.circuits[m]) /\ rt.circuits[m] \in Circuit
        BY <1>3, <2>2, <2>4, <3>1
      <4> QED BY <4>1, ClosedCircuitForgets DEF CircuitMoves
    <3>2. CASE m # k
      BY <1>3, <2>2, <2>4, <3>2 DEF CircuitMoves
    <3> QED BY <3>1, <3>2
  <2> QED BY <2>5 DEF CircuitsMove
<1>8. CASE RejectMember(r)
  <2>1. RuntimeInv(EndAffinity(rt, k)) /\ EndAffinity(rt, k).circuits = rt.circuits
    BY <1>2, EndAffinityInv, SlotKeepsCircuits
  <2>2. rt' = ReleaseProbe(EndAffinity(rt, k), k)
    BY <1>8 DEF RejectMember, RecordReject
  <2>3. rt'.circuits = rt.circuits
    BY <2>1, <2>2, SlotKeepsCircuits
  <2> QED BY <2>3 DEF CircuitsMove, CircuitMoves
<1> QED BY <1>5, <1>6, <1>7, <1>8

\* Every step of the system moves every circuit in one of these ways.
LEMMA StepMovesCircuits ==
    ASSUME IInv, ExplainedInv, [Next]_vars
    PROVE  CircuitsMove
<1>1. RuntimeInv(rt) /\ rt.circuits \in [Members -> Circuit]
  BY DEF IInv, RuntimeInv, Runtime
<1>2. ASSUME rt'.circuits = rt.circuits PROVE CircuitsMove
  BY <1>2 DEF CircuitsMove, CircuitMoves
<1>3. ASSUME \A m \in Members : rt'.circuits[m] \in {rt.circuits[m], FreshCircuit}
      PROVE  CircuitsMove
  BY <1>3 DEF CircuitsMove, CircuitMoves, FreshCircuit
<1>4. CASE UNCHANGED vars
  BY <1>2, <1>4 DEF vars
<1>5. CASE Environment
  <2>1. CASE ResetLaneCircuits
    BY <1>1, <1>3, <2>1 DEF ResetLaneCircuits, Reset, RuntimeInv, Runtime
  <2>2. CASE ~ResetLaneCircuits
    BY <1>2, <1>5, <2>2 DEF Environment, EditLane, SetCircuitOptions, Tick, FlipChannel
  <2> QED BY <2>1, <2>2
<1>6. ASSUME NEW r \in Requests, Arrive(r) \/ Proceeds(r) PROVE CircuitsMove
  <2>1. CASE rt' = rt
    BY <1>2, <2>1
  <2>2. ASSUME NEW k \in Members, rt' = TakeProbe(rt, k) PROVE CircuitsMove
    BY <1>1, <2>2, TakeProbeCircuits DEF CircuitsMove, CircuitMoves
  <2>3. ASSUME NEW k, rt' = ReleaseProbe(rt, k) PROVE CircuitsMove
    BY <1>1, <1>2, <2>3, SlotKeepsCircuits
  <2>4. CASE Arrive(r) \/ Reload(r) \/ ReloadFails(r) \/ PickAffinity(r) \/ PickNone(r)
               \/ ChannelReady(r) \/ StubHandler(r)
               \/ \E kind \in Outcomes : RetrySameMember(r, kind)
    BY <2>1, <2>4 DEF Arrive, Reload, ReloadFails, PickAffinity, PickNone, ChannelReady,
                      StubHandler, RetrySameMember
  <2>5. CASE ApplyRoute(r)
    BY <1>1, <1>2, <2>5 DEF ApplyRoute, ApplySignature, RuntimeInv, Runtime
  <2>6. CASE Prune(r)
    BY <1>1, <1>3, <2>6, PruneCircuits DEF Prune
  <2>7. CASE PickByPriority(r)
    <3>1. PICK i \in DOMAIN Order(req[r].snap) :
            rt' \in {rt, TakeProbe(rt, Order(req[r].snap)[i])}
      BY <2>7 DEF PickByPriority
    <3>2. Order(req[r].snap)[i] \in Members
      BY OrderType, BodyOf DEF IInv
    <3> QED BY <2>1, <2>2, <3>1, <3>2
  <2>8. CASE PickManual(r)
    <3>1. rt' \in {rt, TakeProbe(rt, Body(r).active)}
      BY <2>8 DEF PickManual
    <3>2. Body(r).active \in Members
      BY <2>8, BodyOf DEF PickManual, ManualReady, IInv
    <3> QED BY <2>1, <2>2, <3>1, <3>2
  <2>9. CASE MarkCurrentMember(r) \/ NoMemberLeft(r)
    BY <1>1, <1>2, <2>9
    DEF MarkCurrentMember, MarkCurrent, NoMemberLeft, NoteLaneUnavailable, RuntimeInv, Runtime
  <2>10. CASE GiveBackProbe(r) \/ RelayRefusesRequest(r)
               \/ \E kind \in Outcomes : StopOnError(r, kind) \/ LoopEnds(r, kind)
    BY <2>3, <2>10 DEF GiveBackProbe, RelayRefusesRequest, StopOnError, LoopEnds
  <2> QED BY <1>6, <2>4, <2>5, <2>6, <2>7, <2>8, <2>9, <2>10, AttemptCircuits
          DEF Proceeds, Selects, AttemptEnds
<1> QED BY <1>4, <1>5, <1>6 DEF Next

--------------------------------------------------------------------------------
(* A failed probe opens the circuit again *)

\* d is c after a failure: it either opens, which is counted and timed from now, or
\* adds to its evidence and leaves the rest.
Fails(c, d, kind, cooldown, st) ==
    /\ d \in Circuit
    /\ d.score = c.score + Weight(kind)
    /\ d.outcomes = RecordOutcome(c.outcomes, FALSE)
    /\ \/ /\ c.state # "open" /\ HasOpenEvidence(d, st) /\ d.state = "open"
          /\ d.openCount = c.openCount + 1
          /\ d.openUntil - d.openedAt = OpenSecondsFor(c, cooldown, st)
       \/ /\ c.state = "open" \/ ~HasOpenEvidence(d, st)
          /\ d.state = c.state /\ d.openCount = c.openCount
          /\ d.openUntil = c.openUntil /\ d.openedAt = c.openedAt

\* recordFailure, field by field.
LEMMA FailedCircuitFails ==
    ASSUME NEW c \in Circuit, NEW kind, NEW cooldown \in Nat,
           NEW st \in CircuitSettings, NEW t \in Int
    PROVE  Fails(c, FailedCircuit(c, kind, cooldown, st, t), kind, cooldown, st)
<1>1. PICK score \in Nat : score = c.score + Weight(kind)
  BY WeightPositive DEF Circuit
<1>2. PICK window \in Seq(BOOLEAN) : window = RecordOutcome(c.outcomes, FALSE)
  BY RecordOutcomeType DEF Circuit
<1>3. PICK failed : failed = [c EXCEPT !.score = score, !.outcomes = window]
  OBVIOUS
<1>4. /\ failed \in Circuit /\ failed.score = score /\ failed.outcomes = window
      /\ failed.state = c.state /\ failed.openCount = c.openCount
      /\ failed.openUntil = c.openUntil /\ failed.openedAt = c.openedAt
  BY <1>3 DEF Circuit
<1>5. OpenSecondsFor(failed, cooldown, st) = OpenSecondsFor(c, cooldown, st)
  BY <1>4 DEF OpenSecondsFor
<1>6. PICK secs \in Int : secs = OpenSecondsFor(c, cooldown, st)
  BY OpenSecondsType
<1>7. PICK opened : opened = OpenCircuit(failed, cooldown, st, t)
  OBVIOUS
<1>8. opened = [failed EXCEPT !.state = "open", !.openCount = failed.openCount + 1,
                              !.openedAt = t, !.openUntil = t + secs]
  BY <1>5, <1>6, <1>7 DEF OpenCircuit
<1>9. /\ opened \in Circuit /\ opened.score = score /\ opened.outcomes = window
      /\ opened.state = "open" /\ opened.openCount = c.openCount + 1
      /\ opened.openedAt = t /\ opened.openUntil = t + secs
  <2>1. opened \in Circuit
    BY <1>4, <1>7, OpenCircuitType
  <2> QED BY <1>4, <1>8, <2>1 DEF Circuit
<1>10. (t + secs) - t = secs
  OBVIOUS
<1>11. HasOpenEvidence(opened, st) <=> HasOpenEvidence(failed, st)
  BY <1>4, <1>9 DEF HasOpenEvidence, RollingFailureTriggersOpen
<1>12. FailedCircuit(c, kind, cooldown, st, t)
         = IF failed.state # "open" /\ HasOpenEvidence(failed, st) THEN opened ELSE failed
  BY <1>1, <1>2, <1>3, <1>7 DEF FailedCircuit
<1>13. CASE failed.state # "open" /\ HasOpenEvidence(failed, st)
  BY <1>1, <1>2, <1>4, <1>6, <1>9, <1>10, <1>11, <1>12, <1>13 DEF Fails
<1>14. CASE ~(failed.state # "open" /\ HasOpenEvidence(failed, st))
  BY <1>1, <1>2, <1>4, <1>12, <1>14 DEF Fails
<1> QED BY <1>13, <1>14

\* A failure keeps the evidence there is.
LEMMA FailureKeepsEvidence ==
    ASSUME NEW c \in Circuit, NEW kind, NEW cooldown \in Nat,
           NEW st \in CircuitSettings, NEW t \in Int, HasOpenEvidence(c, st)
    PROVE  HasOpenEvidence(FailedCircuit(c, kind, cooldown, st, t), st)
<1>1. PICK d \in Circuit : /\ d = FailedCircuit(c, kind, cooldown, st, t)
                           /\ d.score = c.score + Weight(kind)
                           /\ d.outcomes = RecordOutcome(c.outcomes, FALSE)
  <2>1. PICK e : e = FailedCircuit(c, kind, cooldown, st, t) /\ Fails(c, e, kind, cooldown, st)
    BY FailedCircuitFails
  <2> QED BY <2>1 DEF Fails
<1>2. CASE c.score >= st.threshold
  <2>1. c.score \in Nat /\ st.threshold \in Nat /\ Weight(kind) \in Nat
    BY WeightPositive DEF Circuit, CircuitSettings
  <2>2. d.score >= st.threshold
    BY <1>1, <1>2, <2>1
  <2> QED BY <1>1, <2>2 DEF HasOpenEvidence
<1>3. CASE RollingFailureTriggersOpen(c, st)
  <2>1. RollingFailureTriggersOpen(d, st)
    BY <1>1, <1>3, FailureKeepsWindow
  <2> QED BY <1>1, <2>1 DEF HasOpenEvidence
<1> QED BY <1>2, <1>3 DEF HasOpenEvidence

\* Cooldowns are numbers of seconds.
LEMMA CooldownsType == ASSUME NEW m \in Members PROVE Cooldowns(m) \subseteq Nat
BY BodyAssumption, CooldownType DEF Cooldowns, LaneBody

\* The settings change by SetCircuitOptions only.
SettingsInv == settings = InitialSettings

LEMMA SettingsHold ==
    ASSUME "options" \notin Operations
    PROVE  Spec => []SettingsInv
<1>1. Init => SettingsInv
  BY DEF Init, SettingsInv
<1>2. SettingsInv /\ [Next]_vars => SettingsInv'
  <2> SUFFICES ASSUME [Next]_vars PROVE settings' = settings
    BY DEF SettingsInv
  <2>1. CASE UNCHANGED vars
    BY <2>1 DEF vars
  <2>2. CASE Environment
    <3>1. ~SetCircuitOptions
      BY DEF SetCircuitOptions, Operate
    <3> QED BY <2>2, <3>1 DEF Environment, EditLane, ResetLaneCircuits, Tick, FlipChannel
  <2>3. ASSUME NEW r \in Requests, Arrive(r) \/ Proceeds(r) PROVE settings' = settings
    BY <2>3 DEF envVars, Arrive, Proceeds, ApplyRoute, Prune, Reload,
         ReloadFails, Selects, PickAffinity, PickByPriority, PickManual, PickNone,
         MarkCurrentMember, NoMemberLeft, ChannelReady, ChannelUnavailable, GiveBackProbe,
         RelayRefusesRequest, StubHandler, AttemptEnds, Success, StopOnError, LoopEnds,
         RetrySameMember, FailMember, RejectMember
  <2> QED BY <2>1, <2>2, <2>3 DEF Next
<1> QED BY <1>1, <1>2, PTL DEF Spec

\* The evidence that opened a circuit is still there while it is open or half open.
EvidenceInv ==
    \A m \in Members : rt.circuits[m].state # "closed" => HasOpenEvidence(rt.circuits[m], settings)

\* Evidence is kept by every move of a circuit.
LEMMA MoveKeepsEvidence ==
    ASSUME IInv, NEW m \in Members, NEW d, CircuitMoves(rt.circuits[m], d, m),
           rt.circuits[m].state # "closed" => HasOpenEvidence(rt.circuits[m], settings)
    PROVE  d.state # "closed" => HasOpenEvidence(d, settings)
<1> DEFINE c == rt.circuits[m]
<1>1. c \in Circuit /\ settings \in CircuitSettings /\ now \in Int
  BY SettingsAssumption DEF IInv, RuntimeInv, Runtime, EnvInv
<1>2. CASE d = c \/ d.state = "closed"
  BY <1>2
<1>3. CASE c.state = "open" /\ d = [c EXCEPT !.state = "half_open"]
  <2>1. d.score = c.score /\ d.outcomes = c.outcomes
    BY <1>1, <1>3 DEF Circuit
  <2>2. HasOpenEvidence(c, settings)
    BY <1>3
  <2> HIDE DEF c
  <2> QED BY <2>1, <2>2 DEF HasOpenEvidence, RollingFailureTriggersOpen
<1>4. ASSUME NEW kind \in Kinds, NEW cooldown \in Cooldowns(m),
             d = FailedCircuit(c, kind, cooldown, settings, now)
      PROVE  d.state # "closed" => HasOpenEvidence(d, settings)
  <2>1. cooldown \in Nat
    BY CooldownsType
  <2>2. CASE c.state = "closed"
    <3>1. Fails(c, d, kind, cooldown, settings)
      BY <1>1, <1>4, <2>1, FailedCircuitFails
    <3> QED BY <2>2, <3>1 DEF Fails
  <2>3. CASE c.state # "closed"
    BY <1>1, <1>4, <2>1, <2>3, FailureKeepsEvidence
  <2> QED BY <2>2, <2>3
<1> QED BY <1>2, <1>3, <1>4 DEF CircuitMoves

\* The evidence is kept until a success, a reset or a pruning.
LEMMA EvidenceHolds ==
    ASSUME "options" \notin Operations
    PROVE  Spec => []EvidenceInv
<1>1. Init => EvidenceInv
  BY DEF Init, InitRuntime, FreshCircuit, EvidenceInv
<1>2. IInv /\ ExplainedInv /\ SettingsInv /\ SettingsInv' /\ EvidenceInv /\ [Next]_vars
        => EvidenceInv'
  <2> SUFFICES ASSUME IInv, ExplainedInv, SettingsInv, SettingsInv', EvidenceInv, [Next]_vars,
                      NEW m \in Members
               PROVE  rt'.circuits[m].state # "closed"
                        => HasOpenEvidence(rt'.circuits[m], settings')
    BY DEF EvidenceInv
  <2>1. CircuitMoves(rt.circuits[m], rt'.circuits[m], m)
    BY StepMovesCircuits DEF CircuitsMove
  <2>2. settings' = settings
    BY DEF SettingsInv
  <2>3. rt.circuits[m].state # "closed" => HasOpenEvidence(rt.circuits[m], settings)
    BY DEF EvidenceInv
  <2>4. rt'.circuits[m].state # "closed" => HasOpenEvidence(rt'.circuits[m], settings)
    BY <2>1, <2>3, MoveKeepsEvidence
  <2> QED BY <2>2, <2>4
<1> QED BY <1>1, <1>2, InvariantHolds, ExplainedHolds, SettingsHold, PTL DEF Spec

\* A failure recorded on a half-open circuit opens it again, whatever the kind of the
\* error and however much other requests, resets and edits interleave, as long as the
\* operator leaves the circuit settings alone (a raised threshold takes the evidence
\* away; hence the hypothesis).
THEOREM FailedProbeReopens ==
    ASSUME "options" \notin Operations
    PROVE  Spec => ReopenOnProbeFailure
<1>1. IInv /\ ExplainedInv /\ EvidenceInv /\ [Next]_vars =>
        [\A m \in Members :
           (rt.circuits[m].state = "half_open"
              /\ rt'.circuits[m].score > rt.circuits[m].score)
           => rt'.circuits[m].state = "open"]_vars
  <2> SUFFICES ASSUME IInv, ExplainedInv, EvidenceInv, [Next]_vars, NEW m \in Members,
                      rt.circuits[m].state = "half_open",
                      rt'.circuits[m].score > rt.circuits[m].score
               PROVE  rt'.circuits[m].state = "open"
    OBVIOUS
  <2> DEFINE c == rt.circuits[m]
             d == rt'.circuits[m]
  <2>1. c \in Circuit /\ settings \in CircuitSettings /\ now \in Int
    BY SettingsAssumption DEF IInv, RuntimeInv, Runtime, EnvInv
  <2>2. CircuitMoves(c, d, m)
    BY StepMovesCircuits DEF CircuitsMove
  <2>3. c.score \in Nat /\ d # c /\ d.score # 0
    BY <2>1 DEF Circuit
  <2>4. PICK kind \in Kinds, cooldown \in Cooldowns(m) :
          d = FailedCircuit(c, kind, cooldown, settings, now)
    BY <2>2, <2>3 DEF CircuitMoves
  <2>5. HasOpenEvidence(d, settings)
    <3>1. HasOpenEvidence(c, settings)
      BY DEF EvidenceInv
    <3> QED BY <2>1, <2>4, <3>1, CooldownsType, FailureKeepsEvidence
  <2>6. Fails(c, d, kind, cooldown, settings)
    BY <2>1, <2>4, CooldownsType, FailedCircuitFails
  <2> QED BY <2>5, <2>6 DEF Fails
<1> QED BY <1>1, InvariantHolds, ExplainedHolds, EvidenceHolds, PTL DEF Spec, ReopenOnProbeFailure

--------------------------------------------------------------------------------
(* The backoff does not shrink *)

\* The first-opening times that a member can meet are within a factor of two of each
\* other: an open_seconds setting decides alone, and without one the cooldowns do,
\* doubled for the hard errors.
SteadyBase(m, base) ==
    \A cooldown \in Cooldowns(m) :
        /\ base <= BaseSeconds(cooldown, InitialSettings)
        /\ BaseSeconds(cooldown, InitialSettings) <= 2 * base

\* An open or half-open circuit was opened for at most the doubled base of its
\* openings, and at most the cap.
Bounded(c, base) ==
    c.state # "closed" =>
        /\ c.openUntil - c.openedAt <= base * Doubled[c.openCount]
        /\ c.openUntil - c.openedAt <= InitialSettings.maxOpenSeconds

\* How long an opening lasts, between the doubled base and the next one.
LEMMA OpenSecondsBounds ==
    ASSUME NEW m, NEW base \in Nat, SteadyBase(m, base), NEW cooldown \in Cooldowns(m),
           cooldown \in Nat, NEW c \in Circuit, NEW n \in Nat, n = c.openCount,
           NEW long \in Int, long = OpenSecondsFor(c, cooldown, InitialSettings),
           NEW cap \in Nat, cap = InitialSettings.maxOpenSeconds
    PROVE  /\ long <= cap /\ long <= base * Doubled[n + 1]
           /\ long = cap \/ long >= base * Doubled[n]
<1>1. PICK first \in Nat : first = BaseSeconds(cooldown, InitialSettings)
  <2>1. InitialSettings.openSeconds \in Nat
    BY SettingsAssumption DEF CircuitSettings
  <2> QED BY <2>1 DEF BaseSeconds
<1>2. base <= first /\ first <= 2 * base
  BY <1>1 DEF SteadyBase
<1>3. PICK d \in Nat : d = Doubled[n] /\ Doubled[n + 1] = 2 * d
  BY DoubledDef
<1>4. long = IF first * d > cap THEN cap ELSE first * d
  BY <1>1, <1>3 DEF OpenSecondsFor
<1>5. first * d <= base * (2 * d) /\ base * d <= first * d
  <2>1. PICK e \in Nat, f \in Nat : first = base + e /\ 2 * base = first + f
    <3>1. first - base \in Nat /\ 2 * base - first \in Nat
      BY <1>2
    <3>2. first = base + (first - base) /\ 2 * base = first + (2 * base - first)
      OBVIOUS
    <3> QED BY <3>1, <3>2
  <2>2. first * d = base * d + e * d /\ e * d \in Nat /\ base * d \in Nat
    BY <2>1
  <2>3. base * (2 * d) = (2 * base) * d
    OBVIOUS
  <2>4. (2 * base) * d = first * d + f * d /\ f * d \in Nat /\ first * d \in Nat
    BY <2>1
  <2> QED BY <2>2, <2>3, <2>4
<1>6. first * d \in Nat /\ base * d \in Nat /\ base * (2 * d) \in Nat
  OBVIOUS
<1> QED BY <1>3, <1>4, <1>5, <1>6

\* A move keeps a circuit bounded and does not shorten the opening of a half-open one.
LEMMA MoveKeepsBound ==
    ASSUME IInv, SettingsInv, NEW m \in Members, NEW base \in Nat, SteadyBase(m, base),
           NEW d, CircuitMoves(rt.circuits[m], d, m), Bounded(rt.circuits[m], base)
    PROVE  /\ Bounded(d, base)
           /\ rt.circuits[m].state = "half_open" /\ d.state = "open" =>
                d.openUntil - d.openedAt >= rt.circuits[m].openUntil - rt.circuits[m].openedAt
<1> DEFINE c == rt.circuits[m]
<1>1. c \in Circuit /\ InitialSettings \in CircuitSettings /\ now \in Int
  BY SettingsAssumption DEF IInv, RuntimeInv, Runtime, EnvInv
<1>2. CASE d = c
  BY <1>2
<1>3. CASE d.state = "closed"
  BY <1>3 DEF Bounded
<1>4. CASE c.state = "open" /\ d = [c EXCEPT !.state = "half_open"]
  <2>1. /\ d.state = "half_open" /\ d.openUntil = c.openUntil /\ d.openedAt = c.openedAt
        /\ d.openCount = c.openCount
    BY <1>1, <1>4 DEF Circuit
  <2> HIDE DEF c
  <2> QED BY <1>4, <2>1 DEF Bounded, c
<1>5. ASSUME NEW kind \in Kinds, NEW cooldown \in Cooldowns(m),
             d = FailedCircuit(c, kind, cooldown, settings, now)
      PROVE  /\ Bounded(d, base)
             /\ c.state = "half_open" /\ d.state = "open" =>
                  d.openUntil - d.openedAt >= c.openUntil - c.openedAt
  <2>1. cooldown \in Nat
    BY CooldownsType
  <2>2. Fails(c, d, kind, cooldown, InitialSettings)
    BY <1>1, <1>5, <2>1, FailedCircuitFails DEF SettingsInv
  <2>3. PICK n \in Nat : n = c.openCount
    BY <1>1 DEF Circuit
  <2>4. PICK cap \in Nat : cap = InitialSettings.maxOpenSeconds
    BY <1>1 DEF CircuitSettings
  <2>5. PICK long \in Int : long = OpenSecondsFor(c, cooldown, InitialSettings)
    BY <1>1, <2>1, OpenSecondsType
  <2>6. /\ long <= cap /\ long <= base * Doubled[n + 1]
        /\ long = cap \/ long >= base * Doubled[n]
    BY <1>1, <2>1, <2>3, <2>4, <2>5, OpenSecondsBounds
  <2>7. PICK was \in Int : was = c.openUntil - c.openedAt
    BY <1>1 DEF Circuit
  <2>8. PICK b \in Int : b = base * Doubled[n]
    BY DoubledDef
  <2>9. c.state # "closed" => was <= b /\ was <= cap
    BY <2>3, <2>4, <2>7, <2>8 DEF Bounded
  <2> HIDE DEF c
  <2>10. CASE /\ d.state = "open" /\ d.openCount = n + 1 /\ c.state # "open"
              /\ d.openUntil - d.openedAt = long
    <3>1. Bounded(d, base)
      BY <2>4, <2>6, <2>10 DEF Bounded
    <3>2. c.state = "half_open" => long >= was
      BY <2>6, <2>8, <2>9
    <3> QED BY <2>7, <2>10, <3>1, <3>2
  <2>11. CASE /\ d.state = c.state /\ d.openCount = n
              /\ d.openUntil = c.openUntil /\ d.openedAt = c.openedAt
    <3>1. Bounded(d, base)
      BY <2>4, <2>7, <2>8, <2>9, <2>11 DEF Bounded
    <3> QED BY <2>11, <3>1
  <2> QED BY <2>2, <2>3, <2>5, <2>10, <2>11 DEF Fails
<1> QED BY <1>2, <1>3, <1>4, <1>5 DEF CircuitMoves

\* Every circuit stays within the bound of its member.
BoundedInv(base) == \A m \in Members : Bounded(rt.circuits[m], base[m])

LEMMA BoundedHolds ==
    ASSUME "options" \notin Operations, NEW base \in [Members -> Nat],
           \A m \in Members : SteadyBase(m, base[m])
    PROVE  Spec => []BoundedInv(base)
<1>1. Init => BoundedInv(base)
  BY DEF Init, InitRuntime, FreshCircuit, BoundedInv, Bounded
<1>2. IInv /\ ExplainedInv /\ SettingsInv /\ BoundedInv(base) /\ [Next]_vars
        => BoundedInv(base)'
  <2> SUFFICES ASSUME IInv, ExplainedInv, SettingsInv, BoundedInv(base), [Next]_vars,
                      NEW m \in Members
               PROVE  Bounded(rt'.circuits[m], base[m])
    BY DEF BoundedInv, Bounded
  <2>1. CircuitMoves(rt.circuits[m], rt'.circuits[m], m)
    BY StepMovesCircuits DEF CircuitsMove
  <2>2. Bounded(rt.circuits[m], base[m]) /\ base[m] \in Nat
    BY DEF BoundedInv
  <2> QED BY <2>1, <2>2, MoveKeepsBound
<1> QED BY <1>1, <1>2, InvariantHolds, ExplainedHolds, SettingsHold, PTL DEF Spec

\* The backoff of an outage never gets shorter from one opening to the next, whichever
\* errors open the circuit, if the settings are left alone and the first-opening times
\* of a member are within a factor of two.  (One doubling makes up for that factor and
\* no more: a lane cooldown three times the member's shortens the second opening; hence
\* the hypothesis.)
THEOREM BackoffGrows ==
    ASSUME "options" \notin Operations,
           \A m \in Members : \E base \in Nat : SteadyBase(m, base)
    PROVE  Spec => BackoffNeverShrinks
<1>1. PICK base \in [Members -> Nat] : \A m \in Members : SteadyBase(m, base[m])
  <2> DEFINE f == [m \in Members |-> CHOOSE b \in Nat : SteadyBase(m, b)]
  <2>1. \A m \in Members : f[m] \in Nat /\ SteadyBase(m, f[m])
    OBVIOUS
  <2> HIDE DEF f
  <2>2. [m \in Members |-> f[m]] \in [Members -> Nat]
    BY <2>1
  <2> QED BY <2>1, <2>2
<1>2. Spec => []BoundedInv(base)
  BY <1>1, BoundedHolds
<1>3. IInv /\ ExplainedInv /\ SettingsInv /\ BoundedInv(base) /\ [Next]_vars =>
        [\A m \in Members :
            LET c == rt.circuits[m]
                d == rt'.circuits[m]
            IN  (c.state = "half_open" /\ d.state = "open")
                => d.openUntil - d.openedAt >= c.openUntil - c.openedAt]_vars
  <2> SUFFICES ASSUME IInv, ExplainedInv, SettingsInv, BoundedInv(base), [Next]_vars,
                      NEW m \in Members,
                      rt.circuits[m].state = "half_open", rt'.circuits[m].state = "open"
               PROVE  rt'.circuits[m].openUntil - rt'.circuits[m].openedAt
                        >= rt.circuits[m].openUntil - rt.circuits[m].openedAt
    OBVIOUS
  <2>1. CircuitMoves(rt.circuits[m], rt'.circuits[m], m)
    BY StepMovesCircuits DEF CircuitsMove
  <2>2. Bounded(rt.circuits[m], base[m]) /\ base[m] \in Nat /\ SteadyBase(m, base[m])
    BY <1>1 DEF BoundedInv
  <2> QED BY <2>1, <2>2, MoveKeepsBound
<1> QED BY <1>2, <1>3, InvariantHolds, ExplainedHolds, SettingsHold, PTL
        DEF Spec, BackoffNeverShrinks

--------------------------------------------------------------------------------
(* Sums over a chain *)

\* total adds up f along the chain.
Totals(total, chain, f, n) ==
    /\ total \in [0..n -> Nat]
    /\ total[0] = 0
    /\ \A i \in 1..n : total[i] = total[i - 1] + f[chain[i]]

\* SumOver is the last of the totals that its definition says.
LEMMA SumOverTotals ==
    ASSUME NEW chain \in Seq(Members), NEW f \in [Members -> Nat], NEW n \in Nat,
           n = Len(chain)
    PROVE  \E total : Totals(total, chain, f, n) /\ SumOver(chain, f) = total[n]
<1> DEFINE step == [p \in Nat \X Nat |->
                      IF p[1] + 1 \in 1..n THEN p[2] + f[chain[p[1] + 1]] ELSE p[2]]
           Rec(g) == [i \in 0..n |-> IF i = 0 THEN 0 ELSE g[i - 1] + f[chain[i]]]
<1>1. \A i \in 1..n : f[chain[i]] \in Nat
  OBVIOUS
<1>2. step \in [Nat \X Nat -> Nat]
  <2>1. ASSUME NEW p \in Nat \X Nat
        PROVE  (IF p[1] + 1 \in 1..n THEN p[2] + f[chain[p[1] + 1]] ELSE p[2]) \in Nat
    BY <1>1
  <2> QED BY <2>1
<1>3. PICK g : Follows(g, n, 0, step, Nat)
  <2> HIDE DEF step
  <2> QED BY <1>2, FollowsExists
<1>4. g = Rec(g)
  <2>1. g \in [0..n -> Nat] /\ g[0] = 0
    BY <1>3 DEF Follows
  <2>2. ASSUME NEW i \in 1..n PROVE g[i] = g[i - 1] + f[chain[i]]
    <3>0. i - 1 \in Nat /\ i - 1 < n /\ (i - 1) + 1 = i /\ i - 1 \in 0..n
      OBVIOUS
    <3>1. i - 1 \in Nat /\ i - 1 < n /\ (i - 1) + 1 = i /\ g[i - 1] \in Nat
      BY <2>1, <3>0
    <3>2. g[(i - 1) + 1] = step[<<i - 1, g[i - 1]>>]
      BY <1>3, <3>1 DEF Follows
    <3>3. step[<<i - 1, g[i - 1]>>] = g[i - 1] + f[chain[i]]
      BY <3>1
    <3> QED BY <3>1, <3>2, <3>3
  <2>3. \A i \in 0..n : g[i] = IF i = 0 THEN 0 ELSE g[i - 1] + f[chain[i]]
    BY <2>1, <2>2
  <2> QED BY <2>1, <2>3
<1>5. PICK total : total = (CHOOSE h : h = Rec(h)) /\ total = Rec(total)
  <2> HIDE DEF Rec
  <2> QED BY <1>4, Zenon
<1>6. SumOver(chain, f) = total[n]
  BY <1>5 DEF SumOver
<1>7. total = Rec(total)
  BY <1>5
<1>8. total[0] = 0 /\ \A i \in 1..n : total[i] = total[i - 1] + f[chain[i]]
  <2>1. \A i \in 0..n : total[i] = IF i = 0 THEN 0 ELSE total[i - 1] + f[chain[i]]
    BY <1>7
  <2> QED BY <2>1
<1> DEFINE S == {i \in Nat : i <= n => total[i] \in Nat}
<1>9. 0 \in S
  BY <1>8
<1>10. ASSUME NEW i \in Nat, i \in S PROVE i + 1 \in S
  <2> SUFFICES ASSUME i + 1 <= n PROVE total[i + 1] \in Nat
    OBVIOUS
  <2>1. i + 1 \in 1..n /\ (i + 1) - 1 = i /\ total[i] \in Nat
    BY <1>10
  <2> QED BY <1>1, <1>8, <2>1
<1> HIDE DEF S
<1>11. Nat \subseteq S
  BY <1>9, <1>10, SetInduction
<1>12. \A i \in 0..n : total[i] \in Nat
  BY <1>11 DEF S
<1>13. total \in [0..n -> Nat]
  BY <1>7, <1>12
<1> QED BY <1>6, <1>8, <1>13 DEF Totals

\* A sum grows with its terms, and strictly when one of them does.
LEMMA SumGrows ==
    ASSUME NEW chain \in Seq(Members), NEW f \in [Members -> Nat], NEW g \in [Members -> Nat],
           \A m \in Members : f[m] <= g[m]
    PROVE  /\ SumOver(chain, f) \in Nat /\ SumOver(chain, g) \in Nat
           /\ SumOver(chain, f) <= SumOver(chain, g)
           /\ \A k \in Range(chain) :
                f[k] < g[k] => SumOver(chain, f) + 1 <= SumOver(chain, g)
<1>1. PICK n \in Nat : n = Len(chain) /\ DOMAIN chain = 1..n
  OBVIOUS
<1>2. PICK F : Totals(F, chain, f, n) /\ SumOver(chain, f) = F[n]
  BY <1>1, SumOverTotals
<1>3. PICK G : Totals(G, chain, g, n) /\ SumOver(chain, g) = G[n]
  BY <1>1, SumOverTotals
<1>4. /\ \A i \in 0..n : F[i] \in Nat /\ G[i] \in Nat
      /\ F[0] = 0 /\ G[0] = 0
  BY <1>2, <1>3 DEF Totals
<1>5. ASSUME NEW i \in Nat, i + 1 <= n
      PROVE  /\ chain[i + 1] \in Members
             /\ F[i + 1] = F[i] + f[chain[i + 1]] /\ G[i + 1] = G[i] + g[chain[i + 1]]
  <2>1. i + 1 \in 1..n /\ (i + 1) - 1 = i
    BY <1>5
  <2>2. chain[i + 1] \in Members
    BY <1>1, <2>1
  <2> QED BY <1>2, <1>3, <2>1, <2>2 DEF Totals
<1>6. \A i \in 0..n : F[i] <= G[i]
  <2> DEFINE S == {i \in Nat : i <= n => F[i] <= G[i]}
  <2>1. 0 \in S
    BY <1>4
  <2>2. ASSUME NEW i \in Nat, i \in S PROVE i + 1 \in S
    <3> SUFFICES ASSUME i + 1 <= n PROVE F[i + 1] <= G[i + 1]
      OBVIOUS
    <3>1. i \in 0..n /\ F[i] <= G[i]
      BY <2>2
    <3>2. PICK m \in Members : m = chain[i + 1]
      BY <1>5
    <3>3. f[m] \in Nat /\ g[m] \in Nat /\ f[m] <= g[m]
      OBVIOUS
    <3> QED BY <1>4, <1>5, <3>1, <3>2, <3>3
  <2> HIDE DEF S
  <2>3. Nat \subseteq S
    BY <2>1, <2>2, SetInduction
  <2> QED BY <2>3 DEF S
<1>7. ASSUME NEW k \in Range(chain), f[k] < g[k] PROVE F[n] + 1 <= G[n]
  <2>1. PICK j \in 1..n : chain[j] = k
    BY <1>1 DEF Range
  <2> DEFINE S == {i \in Nat : j <= i /\ i <= n => F[i] + 1 <= G[i]}
  <2>2. 0 \in S
    OBVIOUS
  <2>3. ASSUME NEW i \in Nat, i \in S PROVE i + 1 \in S
    <3> SUFFICES ASSUME j <= i + 1, i + 1 <= n PROVE F[i + 1] + 1 <= G[i + 1]
      OBVIOUS
    <3>1. i \in 0..n /\ F[i] \in Nat /\ G[i] \in Nat /\ F[i] <= G[i]
      BY <1>4, <1>6
    <3>2. PICK m \in Members : m = chain[i + 1]
      BY <1>5
    <3>3. f[m] \in Nat /\ g[m] \in Nat /\ f[m] <= g[m]
      OBVIOUS
    <3>4. F[i + 1] = F[i] + f[m] /\ G[i + 1] = G[i] + g[m]
      BY <1>5, <3>2
    <3>5. CASE j = i + 1
      <4>1. f[m] < g[m]
        BY <1>7, <2>1, <3>2, <3>5
      <4> QED BY <3>1, <3>3, <3>4, <4>1
    <3>6. CASE j # i + 1
      <4>1. F[i] + 1 <= G[i]
        BY <2>3, <3>6
      <4> QED BY <3>1, <3>3, <3>4, <4>1
    <3> QED BY <3>5, <3>6
  <2> HIDE DEF S
  <2>4. Nat \subseteq S
    BY <2>2, <2>3, SetInduction
  <2> QED BY <2>1, <2>4 DEF S
<1>8. n \in 0..n
  OBVIOUS
<1> QED BY <1>2, <1>3, <1>4, <1>6, <1>7, <1>8

--------------------------------------------------------------------------------
(* The loop bound is never reached *)

InHand == {"mark"} \cup AtMember

\* How often a request has selected or retried members of its configuration.
Selections(q) == SumOver(q.snap.body.chain, q.att)

\* A request in progress works with the lane as saved in row, stays within the members'
\* budgets, and has been through the relay loop no more often than it has selected
\* members; with a member in hand, less often.
Spare(q, row) ==
    q.pc \notin {"idle", "done"} =>
        /\ q.snap = ResolveRoute(row, q.name)
        /\ \A m \in Members : q.att[m] <= q.snap.body.attempts[m]
        /\ q.tries <= Selections(q)
        /\ q.pc \in InHand => q.tries + 1 <= Selections(q)
        /\ q.inRelay => q.maxRetry = MaxRetriesForLoop(q.snap.body)
        /\ q.pc = "inflight" => q.inRelay

SpareInv == \A r \in Requests : Spare(req[r], lane) /\ req[r].result # "raw"

\* The lane changes by edits only.
LEMMA LaneStays ==
    ASSUME "edit" \notin Operations, [Next]_vars
    PROVE  lane' = lane
<1>1. CASE UNCHANGED vars
  BY <1>1 DEF vars
<1>2. CASE Environment
  <2>1. ~EditLane
    BY DEF EditLane, Operate
  <2> QED BY <1>2, <2>1 DEF Environment, ResetLaneCircuits, SetCircuitOptions, Tick, FlipChannel
<1>3. ASSUME NEW r \in Requests, Arrive(r) \/ Proceeds(r) PROVE lane' = lane
  BY <1>3 DEF envVars, Arrive, Proceeds, ApplyRoute, Prune, Reload,
         ReloadFails, Selects, PickAffinity, PickByPriority, PickManual, PickNone,
         MarkCurrentMember, NoMemberLeft, ChannelReady, ChannelUnavailable, GiveBackProbe,
         RelayRefusesRequest, StubHandler, AttemptEnds, Success, StopOnError, LoopEnds,
         RetrySameMember, FailMember, RejectMember
<1> QED BY <1>1, <1>2, <1>3 DEF Next

\* The numbers of a request state.
LEMMA RequestNumbers ==
    ASSUME NEW q \in RequestState
    PROVE  /\ q.snap \in Snapshot /\ q.snap.body.chain \in Seq(Members)
           /\ q.snap.body.attempts \in [Members -> Nat]
           /\ q.att \in [Members -> Nat] /\ q.tries \in Nat
           /\ Selections(q) \in Nat
<1>1. q.snap \in Snapshot /\ q.att \in [Members -> Nat] /\ q.tries \in Nat
  BY DEF RequestState
<1>2. q.snap.body.chain \in Seq(Members) /\ q.snap.body.attempts \in [Members -> Nat]
  <2>1. q.snap.body \in LaneBody
    BY <1>1, SnapshotBody
  <2>2. q.snap.body.attempts \in [Members -> Nat \ {0}] /\ q.snap.body.chain \in Seq(Members)
    BY <2>1 DEF LaneBody
  <2> QED BY <2>2
<1>3. \A m \in Members : q.att[m] <= q.att[m]
  BY <1>1
<1>4. Selections(q) \in Nat
  BY <1>1, <1>2, <1>3, SumGrows DEF Selections
<1> QED BY <1>1, <1>2, <1>4

\* A request that moves on with its counts as they are.
LEMMA SpareKept ==
    ASSUME NEW q, NEW p, NEW row, Spare(q, row), q.pc \notin {"idle", "done"},
           p.snap = q.snap, p.att = q.att, Carries(p, q),
           p.pc # "inflight", p.pc \in InHand => q.pc \in InHand
    PROVE  Spare(p, row)
BY DEF Spare, Selections, Carries, AtMember

\* A finished request has nothing left to spare.
LEMMA FinishedSpare ==
    ASSUME NEW result, result # "raw", NEW row
    PROVE  Spare(Finished(result), row) /\ Finished(result).result # "raw"
BY DEF Finished, IdleRequest, Spare

\* One attempt more at a member of the chain is one selection more.
LEMMA OneMore ==
    ASSUME NEW q \in RequestState, NEW p \in RequestState, NEW k \in Members,
           k \in ChainSet(q.snap.body), p.snap = q.snap,
           p.att = [q.att EXCEPT ![k] = @ + 1]
    PROVE  Selections(q) + 1 <= Selections(p)
<1>1. PICK f \in [Members -> Nat] : f = q.att
  BY DEF RequestState
<1>2. PICK g \in [Members -> Nat] : g = p.att
  BY DEF RequestState
<1>3. PICK chain \in Seq(Members) : chain = q.snap.body.chain
  BY RequestNumbers
<1>4. \A m \in Members : g[m] = IF m = k THEN f[m] + 1 ELSE f[m]
  BY <1>1, <1>2
<1>5. (\A m \in Members : f[m] <= g[m]) /\ f[k] < g[k]
  BY <1>1, <1>2, <1>4
<1>6. k \in Range(chain)
  BY <1>3 DEF ChainSet
<1>7. SumOver(chain, f) + 1 <= SumOver(chain, g)
  BY <1>5, <1>6, SumGrows
<1> QED BY <1>1, <1>2, <1>3, <1>7 DEF Selections

\* A selection with budget left.
LEMMA ChooseSpare ==
    ASSUME IInv, IInv', NEW r \in Requests, At(r, "pick"), Spare(req[r], lane),
           req[r].result # "raw", NEW k \in Members, k \in ChainSet(Body(r)), BudgetLeft(r, k),
           NEW claimed, NEW hist, Choose(r, k, claimed, hist)
    PROVE  Spare(req'[r], lane) /\ req'[r].result # "raw"
<1> DEFINE q == req[r]
           p == req'[r]
<1>1. q \in RequestState /\ p \in RequestState
  BY BodyOf DEF IInv, RequestsInv, RequestInv
<1>2. /\ p.pc = "mark" /\ p.snap = q.snap /\ Carries(p, q)
      /\ p.att = [q.att EXCEPT ![k] = @ + 1]
  BY ChooseMoves
<1>3. Selections(q) + 1 <= Selections(p)
  BY <1>1, <1>2, OneMore DEF Body
<1>4. /\ q.tries \in Nat /\ Selections(q) \in Nat /\ Selections(p) \in Nat
      /\ q.att \in [Members -> Nat] /\ q.snap.body.attempts \in [Members -> Nat]
  BY <1>1, RequestNumbers
<1>5. /\ q.snap = ResolveRoute(lane, q.name) /\ q.tries <= Selections(q)
      /\ \A m \in Members : q.att[m] <= q.snap.body.attempts[m]
      /\ q.inRelay => q.maxRetry = MaxRetriesForLoop(q.snap.body)
  BY DEF Spare, At
<1>6. q.att[k] < q.snap.body.attempts[k]
  BY DEF BudgetLeft, Body
<1> HIDE DEF p, q
<1>7. \A m \in Members : p.att[m] <= p.snap.body.attempts[m]
  BY <1>2, <1>4, <1>5, <1>6
<1>8. p.tries <= Selections(p) /\ p.tries + 1 <= Selections(p)
  BY <1>2, <1>3, <1>4, <1>5 DEF Carries
<1>9. Spare(p, lane)
  BY <1>2, <1>5, <1>7, <1>8 DEF Spare, Carries
<1>10. p.result # "raw"
  BY <1>2 DEF Carries, q
<1> QED BY <1>9, <1>10 DEF p

\* PBRServe, applyRouteLocked, reloadLocked and selection.
LEMMA BeforeAttemptSpare ==
    ASSUME IInv, IInv', NEW r \in Requests, Spare(req[r], lane), req[r].result # "raw",
           \/ Arrive(r) \/ ApplyRoute(r) \/ Prune(r) \/ Reload(r) \/ ReloadFails(r)
           \/ Selects(r)
    PROVE  Spare(req'[r], lane) /\ req'[r].result # "raw"
<1> DEFINE q == req[r]
           p == req'[r]
<1>1. q \in RequestState /\ p \in RequestState
  BY BodyOf DEF IInv, RequestsInv, RequestInv
<1>2. ASSUME NEW pc \in {"prune", "pick"}, Becomes(r, [q EXCEPT !.pc = pc]),
             q.pc \in {"apply", "prune", "reload"}
      PROVE  Spare(p, lane) /\ p.result # "raw"
  <2>1. p.pc = pc /\ Holds(p, q)
    BY <1>2, PhaseMoves
  <2>2. p.pc \notin InHand /\ p.pc # "inflight"
    BY <2>1 DEF InHand, AtMember
  <2> QED BY <1>2, <2>1, <2>2, SpareKept DEF Holds, Carries
<1>3. ASSUME Arrive(r) PROVE Spare(p, lane) /\ p.result # "raw"
  <2>1. CASE p = Finished("503")
    BY <2>1, FinishedSpare
  <2>2. ASSUME NEW pin, p.pc = "apply", p.name = pin, p.snap = ResolveRoute(lane, pin),
               p.att = [m \in Members |-> 0], p.tries = 0, p.inRelay = FALSE,
               p.result = "none"
        PROVE  Spare(p, lane) /\ p.result # "raw"
    <3>1. Selections(p) \in Nat /\ p.snap.body.attempts \in [Members -> Nat]
      BY <1>1, RequestNumbers
    <3>2. \A m \in Members : p.att[m] <= p.snap.body.attempts[m]
      BY <2>2, <3>1
    <3>3. p.tries <= Selections(p)
      BY <2>2, <3>1
    <3> HIDE DEF p
    <3> QED BY <2>2, <3>2, <3>3 DEF Spare, InHand, AtMember
  <2> QED BY <1>3, <2>1, <2>2, ArriveMoves
<1>4. ASSUME Reload(r) PROVE Spare(p, lane) /\ p.result # "raw"
  <2>1. q.pc = "reload" /\ q.snap = ResolveRoute(lane, q.name)
    BY <1>4 DEF Reload, At, Spare
  <2>2. p.pc = "pick" /\ Holds(p, q)
    BY <1>4, <2>1, ReloadMoves
  <2>3. p.pc \notin InHand /\ p.pc # "inflight"
    BY <2>2 DEF InHand, AtMember
  <2> QED BY <2>1, <2>2, <2>3, SpareKept DEF Holds, Carries
<1>5. ASSUME ApplyRoute(r) \/ Prune(r) \/ ReloadFails(r)
      PROVE  Spare(p, lane) /\ p.result # "raw"
  BY <1>2, <1>5 DEF ApplyRoute, Prune, ReloadFails, At
<1>6. ASSUME PickAffinity(r) PROVE Spare(p, lane) /\ p.result # "raw"
  <2>1. /\ At(r, "pick") /\ rt.current \in ChainSet(Body(r)) /\ rt.current \in Members
        /\ BudgetLeft(r, rt.current)
        /\ \E claimed, hist : Choose(r, rt.current, claimed, hist)
    BY <1>6, BodyOf DEF PickAffinity, StaysOnCurrent, IInv
  <2> QED BY <2>1, ChooseSpare
<1>7. ASSUME PickByPriority(r) PROVE Spare(p, lane) /\ p.result # "raw"
  <2>1. PICK k :
          /\ \E i \in DOMAIN Order(q.snap) : k = Order(q.snap)[i]
          /\ Passes(r, k)
          /\ \E claimed, hist : Choose(r, k, claimed, hist)
    BY <1>7 DEF PickByPriority
  <2>2. q.snap \in Snapshot /\ ChainSet(Body(r)) \subseteq Members
    BY BodyOf DEF IInv
  <2>3. k \in ChainSet(Body(r))
    BY <2>1, <2>2, OrderLists DEF Body
  <2>4. BudgetLeft(r, k) /\ At(r, "pick")
    BY <1>7, <2>1 DEF PickByPriority, Passes
  <2> QED BY <2>1, <2>2, <2>3, <2>4, ChooseSpare
<1>8. ASSUME PickManual(r) PROVE Spare(p, lane) /\ p.result # "raw"
  <2>1. PICK k : /\ k = Body(r).active /\ k \in ChainSet(Body(r)) /\ BudgetLeft(r, k)
                 /\ \E claimed, hist : Choose(r, k, claimed, hist)
    BY <1>8 DEF PickManual, ManualReady
  <2>2. k \in Members /\ At(r, "pick")
    BY <1>8, <2>1, BodyOf DEF PickManual, IInv
  <2> QED BY <2>1, <2>2, ChooseSpare
<1>9. ASSUME PickNone(r) PROVE Spare(p, lane) /\ p.result # "raw"
  <2>1. /\ q.pc = "pick" /\ p.pc = "exhausted" /\ p.snap = q.snap /\ p.att = q.att
        /\ Carries(p, q)
    BY <1>9, PickNoneMoves DEF PickNone, At
  <2>2. p.pc \notin InHand /\ p.pc # "inflight"
    BY <2>1 DEF InHand, AtMember
  <2> QED BY <2>1, <2>2, SpareKept DEF Carries
<1>10. ASSUME MarkCurrentMember(r) PROVE Spare(p, lane) /\ p.result # "raw"
  <2>1. /\ q.pc = "mark" /\ p.pc = "setup" /\ p.snap = q.snap /\ p.att = q.att
        /\ Carries(p, q)
    BY <1>10, MarkMoves
  <2>2. q.pc \in InHand /\ p.pc # "inflight"
    BY <2>1 DEF InHand
  <2> QED BY <2>1, <2>2, SpareKept DEF Carries
<1>11. ASSUME NoMemberLeft(r) PROVE Spare(p, lane) /\ p.result # "raw"
  BY <1>11, Moved, FinishedSpare DEF NoMemberLeft
<1> QED BY <1>3, <1>4, <1>5, <1>6, <1>7, <1>8, <1>9, <1>10, <1>11 DEF Selects

\* With a member in hand, a request has been through the loop less often than its bound.
LEMMA BoundAhead ==
    ASSUME IInv, NEW r \in Requests, At(r, "inflight"), Spare(req[r], lane)
    PROVE  req[r].tries < req[r].maxRetry
<1> DEFINE q == req[r]
<1>1. q \in RequestState
  BY BodyOf DEF IInv
<1>2. PICK chain \in Seq(Members), f \in [Members -> Nat], g \in [Members -> Nat],
           tries \in Nat :
        chain = q.snap.body.chain /\ f = q.att /\ g = q.snap.body.attempts /\ tries = q.tries
  BY <1>1, RequestNumbers
<1>3. /\ \A m \in Members : f[m] <= g[m]
      /\ tries + 1 <= SumOver(chain, f) /\ q.maxRetry = SumOver(chain, g)
  BY <1>2 DEF Spare, At, InHand, AtMember, Selections, MaxRetriesForLoop
<1>4. SumOver(chain, f) <= SumOver(chain, g)
      /\ SumOver(chain, f) \in Nat /\ SumOver(chain, g) \in Nat
  BY <1>3, SumGrows
<1> QED BY <1>2, <1>3, <1>4

\* Leaving a member uses its budget up or leaves its count as it is.
LEMMA LeaveSpare ==
    ASSUME IInv, IInv', NEW r \in Requests, At(r, "inflight"), Spare(req[r], lane),
           req[r].result # "raw", NEW kind, NEW n,
           n \in {req[r].att[req[r].cur], Body(r).attempts[req[r].cur]},
           LeaveMember(r, kind, n)
    PROVE  Spare(req'[r], lane) /\ req'[r].result # "raw"
<1> DEFINE q == req[r]
           p == req'[r]
           k == q.cur
<1>1. q \in RequestState /\ p \in RequestState /\ k \in Members
  BY BodyOf DEF IInv, RequestsInv, RequestInv, At, AtMember
<1>2. /\ p.pc = "reload" /\ p.tries = q.tries + 1 /\ p.name = q.name
      /\ p.maxRetry = q.maxRetry /\ p.inRelay = q.inRelay /\ p.result = q.result
      /\ p.snap = q.snap /\ p.att = [q.att EXCEPT ![k] = n]
  BY LeaveMoves
<1>3. PICK chain \in Seq(Members), f \in [Members -> Nat], g \in [Members -> Nat],
           b \in [Members -> Nat], tries \in Nat :
        /\ chain = q.snap.body.chain /\ f = q.att /\ g = p.att
        /\ b = q.snap.body.attempts /\ tries = q.tries
  BY <1>1, RequestNumbers
<1>4. /\ q.snap = ResolveRoute(lane, q.name) /\ \A m \in Members : f[m] <= b[m]
      /\ tries + 1 <= SumOver(chain, f)
      /\ q.inRelay => q.maxRetry = MaxRetriesForLoop(q.snap.body)
  BY <1>3 DEF Spare, At, InHand, AtMember, Selections
<1>5. n \in {f[k], b[k]} /\ g = [f EXCEPT ![k] = n]
  BY <1>2, <1>3 DEF Body
<1>6. \A m \in Members : f[m] <= g[m] /\ g[m] <= b[m]
  <2> HIDE DEF k, p, q
  <2> QED BY <1>1, <1>4, <1>5
<1>7. SumOver(chain, f) <= SumOver(chain, g)
      /\ SumOver(chain, f) \in Nat /\ SumOver(chain, g) \in Nat
  BY <1>6, SumGrows
<1>8. p.tries <= Selections(p)
  BY <1>2, <1>3, <1>4, <1>7 DEF Selections
<1> HIDE DEF p, q, k
<1>9. Spare(p, lane)
  BY <1>2, <1>3, <1>4, <1>6, <1>8 DEF Spare, InHand, AtMember
<1>10. p.result # "raw"
  BY <1>2 DEF q
<1> QED BY <1>9, <1>10 DEF p

\* Trying the same member again is one more selection.
LEMMA RetrySpare ==
    ASSUME IInv, IInv', NEW r \in Requests, Explained(req[r]), Spare(req[r], lane),
           req[r].result # "raw", NEW kind, RetrySameMember(r, kind)
    PROVE  Spare(req'[r], lane) /\ req'[r].result # "raw"
<1> DEFINE q == req[r]
           p == req'[r]
           k == q.cur
<1>1. /\ q.pc = "inflight" /\ p.pc = "setup" /\ p.tries = q.tries + 1
      /\ p.name = q.name /\ p.maxRetry = q.maxRetry /\ p.inRelay = q.inRelay
      /\ p.result = q.result /\ p.snap = q.snap
      /\ p.att = [q.att EXCEPT ![k] = @ + 1]
  BY RetryMoves
<1>2. q \in RequestState /\ p \in RequestState /\ k \in Members
  BY <1>1, BodyOf DEF IInv, RequestsInv, RequestInv, AtMember
<1>3. k \in ChainSet(q.snap.body)
  BY <1>1 DEF Explained, AtMember
<1>4. Selections(q) + 1 <= Selections(p)
  BY <1>1, <1>2, <1>3, OneMore
<1>5. /\ q.tries \in Nat /\ Selections(q) \in Nat /\ Selections(p) \in Nat
      /\ q.att \in [Members -> Nat] /\ q.snap.body.attempts \in [Members -> Nat]
  BY <1>2, RequestNumbers
<1>6. /\ q.snap = ResolveRoute(lane, q.name) /\ q.tries + 1 <= Selections(q)
      /\ \A m \in Members : q.att[m] <= q.snap.body.attempts[m]
      /\ q.inRelay => q.maxRetry = MaxRetriesForLoop(q.snap.body)
  BY <1>1 DEF Spare, InHand, AtMember
<1>7. q.att[k] < q.snap.body.attempts[k]
  BY DEF RetrySameMember, BudgetLeft, Body
<1> HIDE DEF p, q, k
<1>8. \A m \in Members : p.att[m] <= p.snap.body.attempts[m]
  BY <1>1, <1>2, <1>5, <1>6, <1>7
<1>9. p.tries <= Selections(p) /\ p.tries + 1 <= Selections(p)
  BY <1>1, <1>4, <1>5, <1>6
<1>10. Spare(p, lane)
  BY <1>1, <1>6, <1>8, <1>9 DEF Spare
<1>11. p.result # "raw"
  BY <1>1 DEF q
<1> QED BY <1>10, <1>11 DEF p

\* Channel set-up and the end of an attempt.
LEMMA AttemptSpare ==
    ASSUME IInv, IInv', NEW r \in Requests, Explained(req[r]), Spare(req[r], lane),
           req[r].result # "raw",
           \/ ChannelReady(r) \/ ChannelUnavailable(r) \/ GiveBackProbe(r)
           \/ RelayRefusesRequest(r) \/ StubHandler(r) \/ AttemptEnds(r)
    PROVE  Spare(req'[r], lane) /\ req'[r].result # "raw"
<1> DEFINE q == req[r]
           p == req'[r]
<1>1. ASSUME ChannelReady(r) PROVE Spare(p, lane) /\ p.result # "raw"
  <2>1. /\ q.pc = "setup" /\ p.pc = "inflight" /\ p.inRelay = TRUE
        /\ p.maxRetry = IF q.inRelay THEN q.maxRetry ELSE MaxRetriesForLoop(q.snap.body)
        /\ p.name = q.name /\ p.tries = q.tries /\ p.snap = q.snap
        /\ p.result = q.result /\ p.att = q.att
    BY <1>1, ReadyMoves DEF Body
  <2>2. /\ q.snap = ResolveRoute(lane, q.name)
        /\ \A m \in Members : q.att[m] <= q.snap.body.attempts[m]
        /\ q.tries <= Selections(q) /\ q.tries + 1 <= Selections(q)
        /\ q.inRelay => q.maxRetry = MaxRetriesForLoop(q.snap.body)
    BY <2>1 DEF Spare, InHand, AtMember
  <2>3. q.result # "raw"
    OBVIOUS
  <2> HIDE DEF p, q
  <2> QED BY <2>1, <2>2, <2>3 DEF Spare, Selections
<1>2. ASSUME ChannelUnavailable(r) PROVE Spare(p, lane) /\ p.result # "raw"
  <2>1. /\ q.pc = "setup" /\ p.pc = "giveback" /\ Carries(p, q)
        /\ p.snap = q.snap /\ p.att = q.att
    BY <1>2, UnavailableMoves
  <2>2. q.pc \in InHand /\ p.pc # "inflight"
    BY <2>1 DEF InHand, AtMember
  <2> QED BY <2>1, <2>2, SpareKept DEF Carries
<1>3. ASSUME GiveBackProbe(r) PROVE Spare(p, lane) /\ p.result # "raw"
  <2>1. q.pc = "giveback" /\ p.pc = "reload" /\ Holds(p, q)
    BY <1>3, GiveBackMoves
  <2>2. p.pc \notin InHand /\ p.pc # "inflight"
    BY <2>1 DEF InHand, AtMember
  <2> QED BY <2>1, <2>2, SpareKept DEF Holds, Carries
<1>4. ASSUME NEW result, result # "raw", Becomes(r, Finished(result))
      PROVE  Spare(p, lane) /\ p.result # "raw"
  BY <1>4, Moved, FinishedSpare
<1>5. ASSUME RelayRefusesRequest(r) \/ StubHandler(r) PROVE Spare(p, lane) /\ p.result # "raw"
  BY <1>4, <1>5 DEF RelayRefusesRequest, StubHandler
<1>6. ASSUME AttemptEnds(r) PROVE Spare(p, lane) /\ p.result # "raw"
  <2>1. ASSUME Success(r) PROVE Spare(p, lane) /\ p.result # "raw"
    BY <1>4, <2>1 DEF Success
  <2>2. ASSUME NEW kind, StopOnError(r, kind) PROVE Spare(p, lane) /\ p.result # "raw"
    BY <1>4, <2>2 DEF StopOnError
  <2>3. ASSUME NEW kind PROVE ~LoopEnds(r, kind)
    <3> SUFFICES ASSUME LoopEnds(r, kind) PROVE FALSE
      OBVIOUS
    <3>1. At(r, "inflight") /\ q.tries = q.maxRetry
      BY DEF LoopEnds
    <3>2. PICK tries \in Nat : tries = q.tries
      BY BodyOf, RequestNumbers DEF IInv
    <3> QED BY <3>1, <3>2, BoundAhead
  <2>4. ASSUME NEW kind, RetrySameMember(r, kind) PROVE Spare(p, lane) /\ p.result # "raw"
    BY <2>4, RetrySpare
  <2>5. ASSUME NEW kind, FailMember(r, kind) PROVE Spare(p, lane) /\ p.result # "raw"
    <3>1. At(r, "inflight") /\ LeaveMember(r, kind, q.att[q.cur])
      BY <2>5 DEF FailMember
    <3> QED BY <3>1, LeaveSpare
  <2>6. ASSUME RejectMember(r) PROVE Spare(p, lane) /\ p.result # "raw"
    <3>1. PICK n : /\ n = IF BudgetLeft(r, q.cur) THEN Body(r).attempts[q.cur] ELSE q.att[q.cur]
                   /\ At(r, "inflight") /\ LeaveMember(r, "upstream_reject", n)
      BY <2>6 DEF RejectMember
    <3>2. n \in {q.att[q.cur], Body(r).attempts[q.cur]}
      BY <3>1
    <3> QED BY <3>1, <3>2, LeaveSpare
  <2> QED BY <1>6, <2>1, <2>2, <2>3, <2>4, <2>5, <2>6 DEF AttemptEnds
<1> QED BY <1>1, <1>2, <1>3, <1>5, <1>6

\* Every request stays within its bound while the lane is not edited.
LEMMA SpareHolds ==
    ASSUME "edit" \notin Operations
    PROVE  Spec => []SpareInv
<1>1. Init => SpareInv
  <2> SUFFICES ASSUME Init, NEW r \in Requests PROVE Spare(req[r], lane) /\ req[r].result # "raw"
    BY DEF SpareInv
  <2>1. req[r].pc = "idle" /\ req[r].result = "none"
    BY DEF Init, IdleRequest
  <2> QED BY <2>1 DEF Spare
<1>2. IInv /\ IInv' /\ ExplainedInv /\ SpareInv /\ [Next]_vars => SpareInv'
  <2> SUFFICES ASSUME IInv, IInv', ExplainedInv, SpareInv, [Next]_vars,
                      NEW o \in Requests
               PROVE  Spare(req'[o], lane) /\ req'[o].result # "raw"
    BY LaneStays DEF SpareInv
  <2>1. Spare(req[o], lane) /\ req[o].result # "raw" /\ Explained(req[o])
    BY DEF SpareInv, ExplainedInv
  <2>2. CASE UNCHANGED vars \/ Environment
    BY <2>1, <2>2, EnvironmentLeavesRequests DEF vars
  <2>3. ASSUME NEW r \in Requests, Arrive(r) \/ Proceeds(r), r # o
        PROVE  Spare(req'[o], lane) /\ req'[o].result # "raw"
    BY <2>1, <2>3, OthersStay
  <2>4. ASSUME Arrive(o) \/ Proceeds(o)
        PROVE  Spare(req'[o], lane) /\ req'[o].result # "raw"
    BY <2>1, <2>4, BeforeAttemptSpare, AttemptSpare DEF Proceeds
  <2> QED BY <2>2, <2>3, <2>4 DEF Next
<1> QED BY <1>1, <1>2, InvariantHolds, ExplainedHolds, PTL DEF Spec

\* The relay loop never ends at its bound while the lane is not edited: the bound is the
\* sum of the members' budgets, and a request that is at a member has been round the loop
\* less often than that.  So a request whose members are used up is answered 503, never
\* with the error of its last upstream, whatever other requests, resets, disabled channels
\* and changed circuit settings do meanwhile.  (An edit in mid-request changes the budgets
\* but not the bound computed on entry; hence the hypothesis.)
THEOREM NoRawErrorLeaks ==
    ASSUME "edit" \notin Operations
    PROVE  Spec => []NoRawUpstreamError
<1>1. SpareInv => NoRawUpstreamError
  BY DEF SpareInv, NoRawUpstreamError
<1> QED BY <1>1, SpareHolds, PTL

================================================================================
