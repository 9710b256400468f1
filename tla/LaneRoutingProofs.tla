--------------------------- MODULE LaneRoutingProofs ---------------------------
(***************************************************************************)
(* Theorems about LaneRouting, for every set of members and requests,      *)
(* every family of lane configurations and every bound.                    *)
(***************************************************************************)
EXTENDS LaneRouting, Induction

--------------------------------------------------------------------------------
(* Circuits *)

\* A circuit that the Circuits map does not hold yet is a well-formed circuit.
LEMMA FreshCircuitType == FreshCircuit \in Circuit
BY DEF FreshCircuit, Circuit, CircuitStates

\* The window stays a sequence of results.
LEMMA RecordOutcomeType ==
    ASSUME NEW s \in Seq(BOOLEAN), NEW ok \in BOOLEAN
    PROVE  RecordOutcome(s, ok) \in Seq(BOOLEAN)
<1> DEFINE longer == Append(s, ok)
<1>1. longer \in Seq(BOOLEAN) /\ longer # << >>
  OBVIOUS
<1>2. Tail(longer) \in Seq(BOOLEAN)
  BY <1>1
<1> QED BY <1>1, <1>2 DEF RecordOutcome

\* weightOf: every error kind that reaches recordFailure raises the score.
LEMMA WeightPositive == ASSUME NEW kind PROVE Weight(kind) \in Nat \ {0}
BY DEF Weight, HardKinds

\* cooldownSecondsFor: a doubled cooldown is still a number of seconds.
LEMMA CooldownType ==
    ASSUME NEW kind, NEW base \in Nat
    PROVE  CooldownSecondsFor(kind, base) \in Nat
BY DEF CooldownSecondsFor

\* openCircuit computes a number of seconds.
LEMMA OpenSecondsType ==
    ASSUME NEW c \in Circuit, NEW cooldown \in Nat, NEW st \in CircuitSettings
    PROVE  OpenSecondsFor(c, cooldown, st) \in Int
<1>1. Doubled[c.openCount] \in Nat /\ c.openCount \in Nat
  BY DoubledDef DEF Circuit
<1>2. st.openSeconds \in Nat /\ st.maxOpenSeconds \in Nat
  BY DEF CircuitSettings
<1>3. BaseSeconds(cooldown, st) \in Nat
  BY <1>2 DEF BaseSeconds
<1>4. BaseSeconds(cooldown, st) * Doubled[c.openCount] \in Nat
  BY <1>1, <1>3
<1> QED BY <1>2, <1>4 DEF OpenSecondsFor

\* Opening a circuit keeps its failure score.
LEMMA OpenCircuitType ==
    ASSUME NEW c \in Circuit, NEW cooldown \in Nat, NEW st \in CircuitSettings,
           NEW t \in Int
    PROVE  /\ OpenCircuit(c, cooldown, st, t) \in Circuit
           /\ OpenCircuit(c, cooldown, st, t).score = c.score
<1>1. PICK secs \in Int : secs = OpenSecondsFor(c, cooldown, st)
  BY OpenSecondsType
<1>2. t + secs \in Int /\ c.openCount + 1 \in Nat
  BY DEF Circuit
<1>3. OpenCircuit(c, cooldown, st, t)
        = [c EXCEPT !.state = "open", !.openCount = @ + 1, !.openedAt = t,
                    !.openUntil = t + secs]
  BY <1>1 DEF OpenCircuit
<1> QED BY <1>2, <1>3 DEF Circuit, CircuitStates

\* A failed circuit always carries a positive score.
LEMMA FailedCircuitType ==
    ASSUME NEW c \in Circuit, NEW kind, NEW cooldown \in Nat,
           NEW st \in CircuitSettings, NEW t \in Int
    PROVE  /\ FailedCircuit(c, kind, cooldown, st, t) \in Circuit
           /\ FailedCircuit(c, kind, cooldown, st, t).score > 0
<1>1. PICK score \in Nat : score = c.score + Weight(kind) /\ score > 0
  BY WeightPositive DEF Circuit
<1>2. PICK window \in Seq(BOOLEAN) : window = RecordOutcome(c.outcomes, FALSE)
  BY RecordOutcomeType DEF Circuit
<1> DEFINE failed == [c EXCEPT !.score = score, !.outcomes = window]
<1>3. failed \in Circuit /\ failed.score > 0
  BY <1>1, <1>2 DEF Circuit
<1>4. /\ OpenCircuit(failed, cooldown, st, t) \in Circuit
      /\ OpenCircuit(failed, cooldown, st, t).score > 0
  BY <1>3, OpenCircuitType
<1>5. FailedCircuit(c, kind, cooldown, st, t) \in {failed, OpenCircuit(failed, cooldown, st, t)}
  BY <1>1, <1>2 DEF FailedCircuit
<1> QED BY <1>3, <1>4, <1>5

\* recordSuccess closes the circuit, whatever state it was in.
LEMMA ClosedCircuitType ==
    ASSUME NEW c \in Circuit
    PROVE  ClosedCircuit(c) \in Circuit /\ ClosedCircuit(c).state = "closed"
<1>1. PICK window \in Seq(BOOLEAN) : window = RecordOutcome(c.outcomes, TRUE)
  BY RecordOutcomeType DEF Circuit
<1>2. PICK n \in Nat : n = IF c.state = "closed" THEN c.openCount ELSE 0
  BY DEF Circuit
<1>3. ClosedCircuit(c) = [c EXCEPT !.state = "closed", !.score = 0, !.openCount = n,
                                   !.openUntil = 0, !.outcomes = window]
  BY <1>1, <1>2 DEF ClosedCircuit
<1>4. 0 \in Nat /\ 0 \in Int /\ "closed" \in CircuitStates
  BY DEF CircuitStates
<1>5. ClosedCircuit(c) \in Circuit
  BY <1>3, <1>4 DEF Circuit
<1>6. ClosedCircuit(c).state = "closed"
  BY <1>3 DEF Circuit
<1> QED BY <1>5, <1>6

--------------------------------------------------------------------------------
(* The runtime: what every method of Runtime preserves *)

\* A member that is cooling down or whose circuit is not closed has failed since
\* its last success.
Caused(s) ==
    \A m \in Members :
        s.circuits[m].state # "closed" \/ s.cooldowns[m] # 0 => s.circuits[m].score > 0

\* A running or armed affinity window has a current member.
Held(s) == s.affinityUntil # 0 \/ s.armed => s.current # NoMember

RuntimeInv(s) == s \in Runtime /\ Caused(s) /\ Held(s)

\* newRuntime: nothing is cooling down and no window is open.
LEMMA InitRuntimeInv ==
    ASSUME NEW sig \in Snapshot
    PROVE  RuntimeInv(InitRuntime(sig))
BY FreshCircuitType
DEF RuntimeInv, InitRuntime, Runtime, MemberOrNone, Caused, Held, FreshCircuit

\* takeProbe and recordProbeStart turn an open circuit half open and keep its score.
LEMMA TakeProbeInv ==
    ASSUME NEW s, RuntimeInv(s), NEW k \in Members
    PROVE  RuntimeInv(TakeProbe(s, k))
<1> DEFINE c == s.circuits[k]
           d == [c EXCEPT !.state = IF c.state = "open" THEN "half_open" ELSE c.state]
           t == [s EXCEPT !.probe = k, !.circuits[k] = d]
<1>1. d \in Circuit /\ d.score = c.score /\ (c.state = "closed" => d.state = "closed")
  BY DEF RuntimeInv, Runtime, Circuit, CircuitStates
<1>2. TakeProbe(s, k) = t
  BY DEF TakeProbe, RuntimeInv, Runtime, Circuit
<1> HIDE DEF d
<1>3. t \in Runtime
  BY <1>1 DEF RuntimeInv, Runtime, MemberOrNone
<1>4. Caused(t)
  BY <1>1 DEF RuntimeInv, Runtime, Caused
<1>5. Held(t)
  BY DEF RuntimeInv, Runtime, Held
<1> QED BY <1>2, <1>3, <1>4, <1>5 DEF RuntimeInv

\* releaseProbe writes the slot only.
LEMMA ReleaseProbeInv ==
    ASSUME NEW s, RuntimeInv(s), NEW k
    PROVE  RuntimeInv(ReleaseProbe(s, k))
BY DEF RuntimeInv, Runtime, MemberOrNone, Caused, Held, ReleaseProbe

\* A failing current member ends the window but stays the current member.
LEMMA EndAffinityInv ==
    ASSUME NEW s, RuntimeInv(s), NEW k \in Members
    PROVE  RuntimeInv(EndAffinity(s, k))
<1> DEFINE f == [s EXCEPT !.affinityUntil = 0, !.armed = TRUE]
<1>1. CASE s.current = k
  <2>1. 0 \in Int /\ TRUE \in BOOLEAN
    OBVIOUS
  <2>2. f \in Runtime
    BY <2>1 DEF RuntimeInv, Runtime
  <2>3. Caused(f) /\ Held(f)
    BY <1>1, NoMemberAssumption DEF RuntimeInv, Runtime, Caused, Held
  <2> QED BY <1>1, <2>2, <2>3 DEF EndAffinity, RuntimeInv
<1>2. CASE s.current # k
  BY <1>2 DEF EndAffinity
<1> QED BY <1>1, <1>2

\* recordFailure raises the score together with the cooldown or the opening.
LEMMA RecordFailureInv ==
    ASSUME NEW s, RuntimeInv(s), NEW k \in Members, NEW kind, NEW seconds \in Nat,
           NEW apply \in BOOLEAN, NEW st \in CircuitSettings, NEW t \in Int
    PROVE  RuntimeInv(RecordFailure(s, k, kind, seconds, apply, st, t))
<1> DEFINE e == EndAffinity(s, k)
<1>1. RuntimeInv(e)
  BY EndAffinityInv
<1>2. PICK cooldown \in Nat : cooldown = CooldownSecondsFor(kind, seconds)
  BY CooldownType
<1>3. PICK c \in Circuit : /\ c = FailedCircuit(e.circuits[k], kind, cooldown, st, t)
                           /\ c.score > 0
  BY <1>1, FailedCircuitType DEF RuntimeInv, Runtime
<1>4. PICK until \in Int :
        until = IF apply /\ cooldown > 0 THEN t + cooldown ELSE e.cooldowns[k]
  BY <1>1 DEF RuntimeInv, Runtime
<1> DEFINE f == [e EXCEPT !.circuits[k] = c, !.cooldowns[k] = until]
<1>5. RecordFailure(s, k, kind, seconds, apply, st, t) = f
  BY <1>2, <1>3, <1>4 DEF RecordFailure
<1> HIDE DEF e
<1>6. f \in Runtime
  BY <1>1 DEF RuntimeInv, Runtime
<1>7. Caused(f)
  BY <1>1, <1>3 DEF RuntimeInv, Runtime, Caused
<1>8. Held(f)
  BY <1>1 DEF RuntimeInv, Runtime, Held
<1> QED BY <1>5, <1>6, <1>7, <1>8 DEF RuntimeInv

\* recordSuccess clears the cooldown together with the score.
LEMMA RecordSuccessInv ==
    ASSUME NEW s, RuntimeInv(s), NEW k \in Members, NEW seconds \in Nat, NEW t \in Int
    PROVE  RuntimeInv(RecordSuccess(s, k, seconds, t))
<1> DEFINE e == ReleaseProbe(s, k)
<1>1. RuntimeInv(e) /\ e.armed = s.armed /\ e.affinityUntil = s.affinityUntil
  BY ReleaseProbeInv DEF ReleaseProbe, RuntimeInv, Runtime
<1>2. PICK c \in Circuit : c = ClosedCircuit(e.circuits[k]) /\ c.state = "closed"
  BY <1>1, ClosedCircuitType DEF RuntimeInv, Runtime
<1>3. PICK until \in Int :
        until = IF s.armed /\ seconds > 0 THEN t + seconds ELSE e.affinityUntil
  BY <1>1 DEF RuntimeInv, Runtime
<1> DEFINE f == [e EXCEPT !.cooldowns[k] = 0, !.circuits[k] = c, !.laneDown = FALSE,
                          !.affinityUntil = until, !.armed = FALSE]
<1>4. RecordSuccess(s, k, seconds, t) = f
  BY <1>2, <1>3 DEF RecordSuccess
<1> HIDE DEF e
<1>5. f \in Runtime
  <2>1. 0 \in Int /\ FALSE \in BOOLEAN
    OBVIOUS
  <2> QED BY <1>1, <2>1 DEF RuntimeInv, Runtime
<1>6. Caused(f)
  BY <1>1, <1>2 DEF RuntimeInv, Runtime, Caused
<1>7. Held(f)
  BY <1>1, <1>3 DEF RuntimeInv, Runtime, Held
<1> QED BY <1>4, <1>5, <1>6, <1>7 DEF RuntimeInv

\* markCurrentLocked arms affinity only while it installs a current member.
LEMMA MarkCurrentInv ==
    ASSUME NEW s, RuntimeInv(s), NEW k \in Members
    PROVE  RuntimeInv(MarkCurrent(s, k))
BY NoMemberAssumption
DEF RuntimeInv, Runtime, MemberOrNone, Caused, Held, MarkCurrent

\* noteLaneUnavailable writes its own flag only.
LEMMA NoteLaneUnavailableInv ==
    ASSUME NEW s, RuntimeInv(s)
    PROVE  RuntimeInv(NoteLaneUnavailable(s))
BY DEF RuntimeInv, Runtime, Caused, Held, NoteLaneUnavailable

\* Reset clears cooldowns, circuits and affinity together.
LEMMA ResetInv ==
    ASSUME NEW s, RuntimeInv(s)
    PROVE  RuntimeInv(Reset(s))
<1> DEFINE f == Reset(s)
<1>1. 0 \in Int /\ FALSE \in BOOLEAN
  OBVIOUS
<1>2. f \in Runtime
  BY <1>1, FreshCircuitType DEF RuntimeInv, Runtime, MemberOrNone, Reset
<1>3. Caused(f)
  BY DEF RuntimeInv, Runtime, Caused, Reset, FreshCircuit
<1>4. Held(f)
  BY DEF RuntimeInv, Runtime, Held, Reset
<1> QED BY <1>2, <1>3, <1>4 DEF RuntimeInv

\* applyRouteLocked: a changed configuration ends the window.
LEMMA ApplySignatureInv ==
    ASSUME NEW s, RuntimeInv(s), NEW sig \in Snapshot, NEW none
    PROVE  RuntimeInv(ApplySignature(s, sig, none))
<1> DEFINE f == ApplySignature(s, sig, none)
<1>1. f \in {[s EXCEPT !.affinityUntil = 0, !.armed = FALSE, !.signature = sig],
             [s EXCEPT !.signature = sig]}
  BY DEF ApplySignature, RuntimeInv, Runtime
<1>2. 0 \in Int /\ FALSE \in BOOLEAN
  OBVIOUS
<1> HIDE DEF f
<1>3. f \in Runtime
  BY <1>1, <1>2 DEF RuntimeInv, Runtime
<1>4. Caused(f) /\ Held(f)
  BY <1>1 DEF RuntimeInv, Runtime, Caused, Held
<1> QED BY <1>3, <1>4 DEF RuntimeInv, f

\* pruneStaleLocked drops the cooldown, the circuit and the window of a member together.
LEMMA PruneStaleLockedInv ==
    ASSUME NEW s, RuntimeInv(s), NEW valid \in SUBSET Members
    PROVE  RuntimeInv(PruneStaleLocked(s, valid))
<1> DEFINE f == PruneStaleLocked(s, valid)
<1>1. f \in Runtime
  <2>1. PICK cools \in [Members -> Int] :
          cools = [m \in Members |-> IF m \in valid THEN s.cooldowns[m] ELSE 0]
    <3>1. s.cooldowns \in [Members -> Int] /\ 0 \in Int
      BY DEF RuntimeInv, Runtime
    <3>2. [m \in Members |-> IF m \in valid THEN s.cooldowns[m] ELSE 0] \in [Members -> Int]
      BY <3>1
    <3> QED BY <3>2
  <2>2. PICK circs \in [Members -> Circuit] :
          circs = [m \in Members |-> IF m \in valid THEN s.circuits[m] ELSE FreshCircuit]
    BY FreshCircuitType DEF RuntimeInv, Runtime
  <2>3. PICK gone \in BOOLEAN : gone = (s.current \notin valid \cup {NoMember})
    OBVIOUS
  <2>4. PICK probe \in MemberOrNone : probe = IF s.probe \in valid THEN s.probe ELSE NoMember
    BY DEF MemberOrNone
  <2>5. PICK cur \in MemberOrNone : cur = IF gone THEN NoMember ELSE s.current
    BY DEF MemberOrNone, RuntimeInv, Runtime
  <2>6. PICK until \in Int : until = IF gone THEN 0 ELSE s.affinityUntil
    BY DEF RuntimeInv, Runtime
  <2>7. PICK armed \in BOOLEAN : armed = IF gone THEN FALSE ELSE s.armed
    BY DEF RuntimeInv, Runtime
  <2>8. f = [s EXCEPT !.cooldowns = cools, !.circuits = circs, !.probe = probe,
                      !.current = cur, !.affinityUntil = until, !.armed = armed]
    BY <2>1, <2>2, <2>3, <2>4, <2>5, <2>6, <2>7 DEF PruneStaleLocked
  <2> QED BY <2>8 DEF RuntimeInv, Runtime
<1>2. Caused(f)
  BY DEF RuntimeInv, Runtime, Caused, PruneStaleLocked, FreshCircuit
<1>3. Held(f)
  BY DEF RuntimeInv, Runtime, Held, PruneStaleLocked
<1> QED BY <1>1, <1>2, <1>3 DEF RuntimeInv

\* PruneStaleState, whichever of its early returns it takes.
LEMMA PruneStaleStateInv ==
    ASSUME NEW s, RuntimeInv(s), NEW valid \in SUBSET Members, NEW version \in Int
    PROVE  RuntimeInv(PruneStaleState(s, valid, version))
<1> DEFINE base == IF valid = s.prunedSet THEN s ELSE PruneStaleLocked(s, valid)
<1>1. RuntimeInv(base)
  BY PruneStaleLockedInv
<1>2. ASSUME NEW e, RuntimeInv(e), NEW v \in Int
      PROVE  RuntimeInv([e EXCEPT !.prunedSet = valid, !.prunedVersion = v])
  BY <1>2 DEF RuntimeInv, Runtime, Caused, Held
<1>3. PICK newest \in Int :
        newest = IF version > s.prunedVersion THEN version ELSE s.prunedVersion
  BY DEF RuntimeInv, Runtime
<1>4. PruneStaleState(s, valid, version)
        \in {s, [s EXCEPT !.prunedSet = valid, !.prunedVersion = version],
              [base EXCEPT !.prunedSet = valid, !.prunedVersion = newest]}
  BY <1>3 DEF PruneStaleState
<1>5. RuntimeInv([s EXCEPT !.prunedSet = valid, !.prunedVersion = version])
  BY <1>2
<1> HIDE DEF base
<1>6. RuntimeInv([base EXCEPT !.prunedSet = valid, !.prunedVersion = newest])
  BY <1>1, <1>2, <1>3
<1> QED BY <1>4, <1>5, <1>6

--------------------------------------------------------------------------------
(* Configurations and request states *)

\* The route of an unknown name is a well-formed configuration.
LEMMA UnconfiguredBodyType == UnconfiguredBody \in LaneBody
BY DEF UnconfiguredBody, LaneBody, MemberOrNone

\* A snapshot carries a well-formed configuration, whose chain lists members.
LEMMA SnapshotBody ==
    ASSUME NEW snap \in Snapshot
    PROVE  /\ snap.body \in LaneBody
           /\ ChainSet(snap.body) \subseteq Members
<1>1. snap.body \in LaneBody
  BY BodyAssumption, UnconfiguredBodyType DEF Snapshot
<1>2. snap.body.chain \in Seq(Members)
  BY <1>1 DEF LaneBody
<1> QED BY <1>1, <1>2 DEF ChainSet, Range

\* The state before any configuration was read.
LEMMA NoSnapshotType == NoSnapshot \in Snapshot
BY DEF NoSnapshot, Unresolved, Snapshot, MemberOrNone

\* ResolveRoute returns a snapshot for every name.
LEMMA ResolveRouteType ==
    ASSUME NEW row \in [body : LaneBodies, rev : Int, version : Int],
           NEW pin \in MemberOrNone
    PROVE  ResolveRoute(row, pin) \in Snapshot
BY DEF ResolveRoute, Unresolved, Snapshot

\* The order of a request lists members only.
LEMMA OrderType ==
    ASSUME NEW snap \in Snapshot
    PROVE  Order(snap) \in Seq(Members)
<1> DEFINE chain == snap.body.chain
<1>1. chain \in Seq(Members)
  BY SnapshotBody DEF LaneBody
<1>2. CASE snap.pin \notin ChainSet(snap.body)
  BY <1>1, <1>2 DEF Order
<1>3. CASE snap.pin \in ChainSet(snap.body)
  <2>1. PICK i \in DOMAIN chain :
          i = CHOOSE j \in DOMAIN chain : chain[j] = snap.pin
    BY <1>3 DEF ChainSet, Range
  <2>2. snap.pin \in Members
    BY <1>3, SnapshotBody
  <2>3. i \in 1..Len(chain)
    BY <1>1
  <2>4. SubSeq(chain, 1, i - 1) \in Seq(Members) /\ SubSeq(chain, i + 1, Len(chain)) \in Seq(Members)
    BY <1>1, <2>3
  <2>5. Order(snap) = <<snap.pin>> \o (SubSeq(chain, 1, i - 1) \o SubSeq(chain, i + 1, Len(chain)))
    BY <1>3, <2>1 DEF Order, RemoveAt
  <2> QED BY <2>2, <2>4, <2>5, SMTT(20)
<1> QED BY <1>2, <1>3

\* SkipReason returns an attempts[] status.
LEMMA SkipReasonType ==
    ASSUME NEW s, NEW k, NEW t
    PROVE  SkipReason(s, k, t) \in Status
BY DEF SkipReason, Status

\* recordSkipLocked keeps the attempts chain well formed.
LEMMA NoteSkipsType ==
    ASSUME NEW hist \in [Members -> SUBSET Status], NEW members,
           NEW why \in [Members -> Status]
    PROVE  NoteSkips(hist, members, why) \in [Members -> SUBSET Status]
BY DEF NoteSkips

\* failedAttempt keeps the attempts chain well formed.
LEMMA NoteFailedType ==
    ASSUME NEW hist \in [Members -> SUBSET Status], NEW m \in Members
    PROVE  NoteFailed(hist, m) \in [Members -> SUBSET Status]
BY DEF NoteFailed, Status

\* A request that has not arrived.
LEMMA IdleRequestType == IdleRequest \in RequestState
BY NoSnapshotType DEF IdleRequest, RequestState, MemberOrNone, Results

\* A finished request holds no claim on the probe slot.
LEMMA FinishedType ==
    ASSUME NEW result \in Results
    PROVE  /\ Finished(result) \in RequestState
           /\ Finished(result).pc = "done"
           /\ Finished(result).claimed = NoMember
BY IdleRequestType DEF Finished, RequestState, IdleRequest

--------------------------------------------------------------------------------
(* The inductive invariant *)

AtMember == {"setup", "giveback", "inflight"}

\* A request state is well formed, knows the member it selected, and claims the
\* probe slot only for that member and only until it leaves it.
RequestInv(q) ==
    /\ q \in RequestState
    /\ q.pc = "mark" => q.chosen \in Members
    /\ q.pc \in AtMember => q.cur \in Members
    /\ q.claimed # NoMember =>
          \/ q.pc = "mark" /\ q.claimed = q.chosen
          \/ q.pc \in AtMember /\ q.claimed = q.cur

EnvInv ==
    /\ lane \in [body : LaneBodies, rev : Int, version : Int]
    /\ up \in [Members -> BOOLEAN]
    /\ settings \in SettingsChoices
    /\ now \in Int
    /\ budgets \in [arrivals : Nat, operations : Nat]

RequestsInv == DOMAIN req = Requests /\ req = [r \in Requests |-> req[r]]
               /\ \A r \in Requests : RequestInv(req[r])

IInv == RuntimeInv(rt) /\ RequestsInv /\ EnvInv

\* The inductive invariant contains the type invariant.
LEMMA IInvImpliesTypeOK == IInv => TypeOK
BY DEF IInv, RuntimeInv, RequestsInv, EnvInv, TypeOK, RequestInv, Selected, Target, At, AtMember

\* A freshly started server satisfies the invariant.
LEMMA InitIInv == Init => IInv
<1> SUFFICES ASSUME Init PROVE IInv
  OBVIOUS
<1>1. RuntimeInv(rt)
  BY InitRuntimeInv, NoSnapshotType DEF Init
<1>2. RequestInv(IdleRequest)
  BY IdleRequestType DEF RequestInv, IdleRequest, AtMember
<1>3. RequestsInv
  BY <1>2 DEF Init, RequestsInv
<1>4. EnvInv
  BY BodyAssumption, SettingsAssumption DEF Init, EnvInv
<1> QED BY <1>1, <1>3, <1>4 DEF IInv

\* One request moving to a well-formed state keeps all of them well formed.
LEMMA BecomesInv ==
    ASSUME RequestsInv, NEW r \in Requests, NEW q, RequestInv(q), Becomes(r, q)
    PROVE  RequestsInv'
BY DEF RequestsInv, Becomes

\* A finished request is well formed.
LEMMA FinishedInv ==
    ASSUME NEW result \in Results
    PROVE  RequestInv(Finished(result))
BY FinishedType DEF RequestInv, AtMember

\* What the configuration a request works with provides for a member.
LEMMA BodyOf ==
    ASSUME RequestsInv, NEW r \in Requests
    PROVE  /\ req[r] \in RequestState
           /\ req[r].snap \in Snapshot
           /\ Body(r) \in LaneBody
           /\ ChainSet(Body(r)) \subseteq Members
BY SnapshotBody DEF RequestsInv, RequestInv, RequestState, Body

--------------------------------------------------------------------------------
(* Every step of a request preserves the invariant *)

\* A request without a claim moves between the phases before a selection.
LEMMA PcStep ==
    ASSUME NEW q, RequestInv(q), q.claimed = NoMember,
           NEW pc \in {"prune", "pick", "reload"}
    PROVE  RequestInv([q EXCEPT !.pc = pc])
BY DEF RequestInv, RequestState, AtMember

\* Until a request has selected a member it holds no claim (State.claimedProbe is empty).
LEMMA NoClaim ==
    ASSUME RequestsInv, NEW r \in Requests,
           req[r].pc \in {"apply", "prune", "pick", "reload", "exhausted"}
    PROVE  req[r].claimed = NoMember
BY DEF RequestsInv, RequestInv, AtMember

\* PBRServe and NewState.
LEMMA ArriveStep ==
    ASSUME IInv, NEW r \in Requests, Arrive(r)
    PROVE  IInv'
<1>1. PICK pin \in Pins, endpoint \in Endpoints :
        LET snap == ResolveRoute(lane, pin)
            q == [IdleRequest EXCEPT !.pc = "apply", !.name = pin,
                                     !.endpoint = endpoint, !.snap = snap]
        IN  Becomes(r, IF snap.body.chain = << >> THEN Finished("503") ELSE q)
  BY DEF Arrive
<1>2. PICK snap \in Snapshot : snap = ResolveRoute(lane, pin)
  BY ResolveRouteType, PinAssumption DEF IInv, EnvInv
<1> DEFINE q == [IdleRequest EXCEPT !.pc = "apply", !.name = pin,
                                    !.endpoint = endpoint, !.snap = snap]
<1>3. RequestInv(q)
  <2>1. pin \in MemberOrNone
    BY PinAssumption
  <2>2. q \in RequestState
    BY <2>1, IdleRequestType DEF RequestState
  <2> QED BY <2>2, IdleRequestType DEF RequestInv, IdleRequest, AtMember, RequestState
<1>4. RequestInv(Finished("503"))
  BY FinishedInv DEF Results
<1>5. RequestsInv'
  BY <1>1, <1>2, <1>3, <1>4, BecomesInv DEF IInv
<1>6. EnvInv'
  BY DEF Arrive, IInv, EnvInv
<1> QED BY <1>5, <1>6 DEF Arrive, IInv

\* applyRouteLocked, first critical section.
LEMMA ApplyRouteStep ==
    ASSUME IInv, NEW r \in Requests, ApplyRoute(r)
    PROVE  IInv'
<1>1. RuntimeInv(rt')
  BY ApplySignatureInv, BodyOf DEF ApplyRoute, IInv
<1>2. RequestsInv'
  BY NoClaim, PcStep, BecomesInv DEF ApplyRoute, At, IInv, RequestsInv
<1> QED BY <1>1, <1>2 DEF ApplyRoute, IInv, EnvInv, envVars

\* applyRouteLocked, PruneStaleState.
LEMMA PruneStep ==
    ASSUME IInv, NEW r \in Requests, Prune(r)
    PROVE  IInv'
<1>1. RuntimeInv(rt')
  <2>1. req[r].snap.version \in Int
    BY BodyOf DEF IInv, Snapshot
  <2> QED BY <2>1, PruneStaleStateInv, BodyOf DEF Prune, IInv
<1>2. RequestsInv'
  BY NoClaim, PcStep, BecomesInv DEF Prune, At, IInv, RequestsInv
<1> QED BY <1>1, <1>2 DEF Prune, IInv, EnvInv, envVars

\* reloadLocked: a new snapshot carries over only the attempt counts and the
\* current member that it still lists.
LEMMA ReloadStep ==
    ASSUME IInv, NEW r \in Requests, Reload(r)
    PROVE  IInv'
<1> DEFINE q == req[r]
<1>1. q.claimed = NoMember /\ RequestInv(q) /\ q \in RequestState
  BY NoClaim DEF Reload, At, IInv, RequestsInv, RequestInv
<1>2. PICK snap \in Snapshot : snap = ResolveRoute(lane, q.name)
  BY <1>1, ResolveRouteType DEF IInv, EnvInv, RequestState
<1>3. PICK kept \in SUBSET Members : kept = ChainSet(q.snap.body) \cap ChainSet(snap.body)
  BY SnapshotBody
<1>4. PICK cur \in MemberOrNone :
        cur = IF q.cur \in ChainSet(snap.body) THEN q.cur ELSE NoMember
  BY <1>1 DEF MemberOrNone, RequestState
<1>5. PICK att \in [Members -> Nat] :
        att = [m \in Members |-> IF m \in kept THEN q.att[m] ELSE 0]
  <2>1. [m \in Members |-> IF m \in kept THEN q.att[m] ELSE 0] \in [Members -> Nat]
    BY <1>1 DEF RequestState
  <2> QED BY <2>1
<1> DEFINE fresh == [q EXCEPT !.pc = "apply", !.snap = snap, !.cur = cur, !.att = att]
<1>6. RequestInv(fresh)
  BY <1>1 DEF RequestInv, RequestState, AtMember
<1>7. RequestInv([q EXCEPT !.pc = "pick"])
  BY <1>1, PcStep
<1>8. Becomes(r, IF snap = q.snap THEN [q EXCEPT !.pc = "pick"] ELSE fresh)
  BY <1>2, <1>3, <1>4, <1>5 DEF Reload
<1>9. RequestsInv'
  BY <1>6, <1>7, <1>8, BecomesInv DEF IInv
<1> QED BY <1>9 DEF Reload, IInv, EnvInv, envVars

\* reloadLocked when the lane cannot be read.
LEMMA ReloadFailsStep ==
    ASSUME IInv, NEW r \in Requests, ReloadFails(r)
    PROVE  IInv'
<1>1. RequestsInv'
  BY NoClaim, PcStep, BecomesInv DEF ReloadFails, At, IInv, RequestsInv
<1> QED BY <1>1 DEF ReloadFails, IInv, EnvInv, envVars

\* A request that chooses a member claims the slot for that member or not at all.
LEMMA ChooseInv ==
    ASSUME RequestsInv, NEW r \in Requests, NEW m \in Members,
           NEW claimed \in {NoMember, m}, NEW hist \in [Members -> SUBSET Status],
           Choose(r, m, claimed, hist)
    PROVE  RequestsInv'
<1> DEFINE q == req[r]
<1>1. RequestInv(q) /\ q \in RequestState /\ q.att \in [Members -> Nat]
  BY DEF RequestsInv, RequestInv, RequestState
<1>2. PICK n \in Nat : n = q.att[m] + 1
  BY <1>1
<1>3. PICK att \in [Members -> Nat] : att = [q.att EXCEPT ![m] = n]
  BY <1>1
<1> DEFINE p == [q EXCEPT !.pc = "mark", !.chosen = m, !.claimed = claimed,
                          !.att = att, !.hist = hist]
<1>4. Becomes(r, p)
  BY <1>1, <1>2, <1>3 DEF Choose, RequestState
<1>5. RequestInv(p)
  <2>1. m \in MemberOrNone /\ claimed \in MemberOrNone
    BY DEF MemberOrNone
  <2>2. p \in RequestState
    BY <1>1, <2>1 DEF RequestState
  <2>3. p.pc = "mark" /\ p.chosen = m /\ p.claimed = claimed
    BY <1>1 DEF RequestState
  <2> QED BY <2>2, <2>3 DEF RequestInv, AtMember
<1> QED BY <1>4, <1>5, BecomesInv

\* The reasons that recordSkipLocked stores are attempt statuses.
LEMMA ReasonsType ==
    ASSUME NEW r
    PROVE  RuntimeReasons \in [Members -> Status] /\ SkipReasons(r) \in [Members -> Status]
<1>1. "disabled" \in Status
  BY DEF Status
<1> QED BY <1>1, SkipReasonType DEF RuntimeReasons, SkipReasons

\* chooseFailoverLocked, affinity: the runtime is only read.
LEMMA PickAffinityStep ==
    ASSUME IInv, NEW r \in Requests, PickAffinity(r)
    PROVE  IInv'
<1>1. PICK i : Choose(r, rt.current, req[r].claimed,
                      NoteSkips(req[r].hist, Passed(r, i), RuntimeReasons))
  BY DEF PickAffinity
<1>2. rt.current \in Members
  BY BodyOf DEF PickAffinity, StaysOnCurrent, IInv
<1>3. req[r].claimed = NoMember
  BY NoClaim DEF PickAffinity, At, IInv
<1>4. NoteSkips(req[r].hist, Passed(r, i), RuntimeReasons) \in [Members -> SUBSET Status]
  BY BodyOf, NoteSkipsType, ReasonsType DEF IInv, RequestState
<1>5. RequestsInv'
  BY <1>1, <1>2, <1>3, <1>4, ChooseInv DEF IInv
<1> QED BY <1>5 DEF PickAffinity, IInv, EnvInv, envVars

\* chooseFailoverLocked, traversal: a member whose time has come is probed.
LEMMA PickByPriorityStep ==
    ASSUME IInv, NEW r \in Requests, PickByPriority(r)
    PROVE  IInv'
<1>1. PICK i \in DOMAIN Order(req[r].snap) :
        LET m == Order(req[r].snap)[i]
            probes == AvailabilityOf(rt, m, now) = "probe_ready"
        IN  /\ rt' = IF probes THEN TakeProbe(rt, m) ELSE rt
            /\ Choose(r, m, IF probes THEN m ELSE req[r].claimed,
                      NoteSkips(req[r].hist, Passed(r, i), SkipReasons(r)))
  BY DEF PickByPriority
<1>2. PICK m \in Members : m = Order(req[r].snap)[i]
  BY OrderType, BodyOf DEF IInv
<1>3. req[r].claimed = NoMember
  BY NoClaim DEF PickByPriority, At, IInv
<1>4. NoteSkips(req[r].hist, Passed(r, i), SkipReasons(r)) \in [Members -> SUBSET Status]
  BY BodyOf, NoteSkipsType, ReasonsType DEF IInv, RequestState
<1>5. RequestsInv'
  BY <1>1, <1>2, <1>3, <1>4, ChooseInv DEF IInv
<1>6. RuntimeInv(rt')
  BY <1>1, <1>2, TakeProbeInv DEF IInv
<1> QED BY <1>5, <1>6 DEF PickByPriority, IInv, EnvInv, envVars

\* pickManualLocked.
LEMMA PickManualStep ==
    ASSUME IInv, NEW r \in Requests, PickManual(r)
    PROVE  IInv'
<1>1. PICK k \in Members : k = Body(r).active
  BY BodyOf DEF PickManual, ManualReady, IInv
<1>2. PICK probes \in BOOLEAN : probes = (rt.circuits[k].state # "closed")
  OBVIOUS
<1>3. /\ rt' = IF probes THEN TakeProbe(rt, k) ELSE rt
      /\ Choose(r, k, IF probes THEN k ELSE req[r].claimed, req[r].hist)
  BY <1>1, <1>2 DEF PickManual
<1>4. req[r].claimed = NoMember
  BY NoClaim DEF PickManual, At, IInv
<1>5. req[r].hist \in [Members -> SUBSET Status]
  BY BodyOf DEF IInv, RequestState
<1>6. RequestsInv'
  BY <1>3, <1>4, <1>5, ChooseInv DEF IInv
<1>7. RuntimeInv(rt')
  BY <1>3, TakeProbeInv DEF IInv
<1> QED BY <1>6, <1>7 DEF PickManual, IInv, EnvInv, envVars

\* Neither mode finds a member; only the attempts chain is written.
LEMMA PickNoneStep ==
    ASSUME IInv, NEW r \in Requests, PickNone(r)
    PROVE  IInv'
<1>1. PICK hist \in [Members -> SUBSET Status] : hist = ExhaustedHist(r)
  BY BodyOf, NoteSkipsType, ReasonsType DEF ExhaustedHist, IInv, RequestState
<1>2. RequestInv(req[r]) /\ req[r].claimed = NoMember
  BY NoClaim DEF PickNone, At, IInv, RequestsInv
<1>3. RequestInv([req[r] EXCEPT !.pc = "exhausted", !.hist = hist])
  BY <1>2 DEF RequestInv, RequestState, AtMember
<1>4. RequestsInv'
  BY <1>1, <1>3, BecomesInv DEF PickNone, IInv
<1> QED BY <1>4 DEF PickNone, IInv, EnvInv, envVars

\* markCurrentLocked: the choice becomes the request's and the lane's member.
LEMMA MarkCurrentMemberStep ==
    ASSUME IInv, NEW r \in Requests, MarkCurrentMember(r)
    PROVE  IInv'
<1> DEFINE q == req[r]
           p == [q EXCEPT !.pc = "setup", !.cur = q.chosen, !.chosen = NoMember]
<1>1. RequestInv(q) /\ q \in RequestState /\ q.chosen \in Members /\ q.pc = "mark"
  BY DEF MarkCurrentMember, At, IInv, RequestsInv, RequestInv
<1>2. RequestInv(p)
  <2>1. q.chosen \in MemberOrNone /\ NoMember \in MemberOrNone
    BY <1>1 DEF MemberOrNone
  <2>2. p \in RequestState
    BY <1>1, <2>1 DEF RequestState
  <2>3. p.pc = "setup" /\ p.cur = q.chosen /\ p.claimed = q.claimed
    BY <1>1 DEF RequestState
  <2> QED BY <1>1, <2>2, <2>3 DEF RequestInv, AtMember
<1>3. RequestsInv'
  BY <1>2, BecomesInv DEF MarkCurrentMember, IInv
<1>4. RuntimeInv(rt')
  BY <1>1, MarkCurrentInv DEF MarkCurrentMember, IInv
<1> QED BY <1>3, <1>4 DEF MarkCurrentMember, IInv, EnvInv, envVars

\* A request that ends leaves a finished state behind.
LEMMA FinishStep ==
    ASSUME IInv, NEW r \in Requests, NEW result \in Results,
           Becomes(r, Finished(result)), RuntimeInv(rt'), UNCHANGED envVars
    PROVE  IInv'
<1>1. RequestsInv'
  BY FinishedInv, BecomesInv DEF IInv
<1> QED BY <1>1 DEF IInv, EnvInv, envVars

\* NoteLaneUnavailable and the 503.
LEMMA NoMemberLeftStep ==
    ASSUME IInv, NEW r \in Requests, NoMemberLeft(r)
    PROVE  IInv'
<1>1. RuntimeInv(rt')
  BY NoteLaneUnavailableInv DEF NoMemberLeft, IInv
<1>2. PICK result \in Results :
        result = IF req[r].last = "upstream_reject" THEN "reject" ELSE "503"
  BY DEF Results
<1> QED BY <1>1, <1>2, FinishStep DEF NoMemberLeft

\* The steps that end a request give its probe slot back, or in the case of the
\* stub handlers leave the runtime alone.
LEMMA ReleaseAndFinishStep ==
    ASSUME IInv, NEW r \in Requests,
           RelayRefusesRequest(r) \/ StubHandler(r)
             \/ (\E kind \in Outcomes : StopOnError(r, kind) \/ LoopEnds(r, kind))
    PROVE  IInv'
<1>1. /\ RuntimeInv(rt') /\ UNCHANGED envVars
      /\ \E result \in Results : Becomes(r, Finished(result))
  BY ReleaseProbeInv
  DEF RelayRefusesRequest, StubHandler, StopOnError, LoopEnds, IInv, Results, envVars
<1> QED BY <1>1, FinishStep

\* PBRNextChannel finds the channel usable, the attempt is sent.
LEMMA ChannelReadyStep ==
    ASSUME IInv, NEW r \in Requests, ChannelReady(r)
    PROVE  IInv'
<1> DEFINE q == req[r]
<1>1. RequestInv(q) /\ q \in RequestState /\ q.pc = "setup"
  BY DEF ChannelReady, At, IInv, RequestsInv, RequestInv
<1>2. MaxRetriesForLoop(Body(r))
        \in {MaxRetriesForLoop(body) : body \in LaneBodies \cup {UnconfiguredBody}}
  BY <1>1 DEF RequestState, Snapshot, Body
<1>3. PICK bound \in {MaxRetriesForLoop(body) : body \in LaneBodies \cup {UnconfiguredBody}} \cup {0} :
        bound = IF q.inRelay THEN q.maxRetry ELSE MaxRetriesForLoop(Body(r))
  BY <1>1, <1>2 DEF RequestState
<1> DEFINE p == [q EXCEPT !.pc = "inflight", !.inRelay = TRUE, !.maxRetry = bound]
<1>4. Becomes(r, p)
  BY <1>1, <1>3 DEF ChannelReady, RequestState
<1>5. RequestInv(p)
  <2>1. p \in RequestState
    BY <1>1 DEF RequestState
  <2>2. p.pc = "inflight" /\ p.cur = q.cur /\ p.claimed = q.claimed
    BY <1>1 DEF RequestState
  <2> QED BY <1>1, <2>1, <2>2 DEF RequestInv, AtMember
<1>6. RequestsInv'
  BY <1>4, <1>5, BecomesInv DEF IInv
<1> QED BY <1>6 DEF ChannelReady, IInv, EnvInv, envVars

\* What a request at a member knows: the member and its configured numbers.
LEMMA MemberData ==
    ASSUME IInv, NEW r \in Requests, req[r].pc \in AtMember
    PROVE  /\ req[r] \in RequestState /\ RequestInv(req[r])
           /\ req[r].cur \in Members
           /\ Body(r).cooldown[req[r].cur] \in Nat
           /\ Body(r).affinity[req[r].cur] \in Nat
           /\ Body(r).attempts[req[r].cur] \in Nat
           /\ Body(r).laneCooldown \in Nat
           /\ settings \in CircuitSettings /\ now \in Int
<1>1. req[r].cur \in Members /\ RequestInv(req[r])
  BY DEF IInv, RequestsInv, RequestInv
<1>2. Body(r) \in LaneBody /\ req[r] \in RequestState
  BY BodyOf DEF IInv
<1>3. settings \in CircuitSettings /\ now \in Int
  BY SettingsAssumption DEF IInv, EnvInv
<1> QED BY <1>1, <1>2, <1>3 DEF LaneBody

\* ReportMemberUnavailable.
LEMMA ChannelUnavailableStep ==
    ASSUME IInv, NEW r \in Requests, ChannelUnavailable(r)
    PROVE  IInv'
<1> DEFINE q == req[r]
<1>1. q.pc = "setup" /\ q.pc \in AtMember
  BY DEF ChannelUnavailable, At, AtMember
<1>2. RuntimeInv(rt')
  BY <1>1, MemberData, RecordFailureInv DEF ChannelUnavailable, IInv
<1>3. PICK hist \in [Members -> SUBSET Status] : hist = NoteFailed(q.hist, q.cur)
  BY <1>1, MemberData, NoteFailedType DEF RequestState
<1>4. RequestInv([q EXCEPT !.pc = "giveback", !.hist = hist])
  BY <1>1, MemberData, ZenonT(40) DEF RequestInv, RequestState, AtMember
<1>5. RequestsInv'
  BY <1>3, <1>4, BecomesInv DEF ChannelUnavailable, IInv
<1> QED BY <1>2, <1>5 DEF ChannelUnavailable, IInv, EnvInv, envVars

\* State.ReleaseProbe.
LEMMA GiveBackProbeStep ==
    ASSUME IInv, NEW r \in Requests, GiveBackProbe(r)
    PROVE  IInv'
<1> DEFINE q == req[r]
           p == [q EXCEPT !.pc = "reload", !.claimed = NoMember]
<1>1. RequestInv(p)
  <2>1. q \in RequestState /\ NoMember \in MemberOrNone
    BY BodyOf DEF IInv, MemberOrNone
  <2>2. p \in RequestState /\ p.pc = "reload" /\ p.claimed = NoMember
    BY <2>1 DEF RequestState
  <2> QED BY <2>2 DEF RequestInv, AtMember
<1>2. RequestsInv'
  BY <1>1, BecomesInv DEF GiveBackProbe, IInv
<1>3. RuntimeInv(rt')
  BY ReleaseProbeInv DEF GiveBackProbe, IInv
<1> QED BY <1>2, <1>3 DEF GiveBackProbe, IInv, EnvInv, envVars

\* OnSuccess and the release that the relay defers.
LEMMA SuccessStep ==
    ASSUME IInv, NEW r \in Requests, Success(r)
    PROVE  IInv'
<1> DEFINE k == req[r].cur
           s == RecordSuccess(rt, k, Body(r).affinity[k], now)
<1>1. req[r].pc \in AtMember
  BY DEF Success, At, AtMember
<1>2. RuntimeInv(s)
  BY <1>1, MemberData, RecordSuccessInv DEF IInv
<1>3. RuntimeInv(rt')
  BY <1>2, ReleaseProbeInv DEF Success
<1>4. "ok" \in Results
  BY DEF Results
<1> QED BY <1>3, <1>4, FinishStep DEF Success

\* Next on a retryable error with budget left.
LEMMA RetrySameMemberStep ==
    ASSUME IInv, NEW r \in Requests, NEW kind \in Outcomes, RetrySameMember(r, kind)
    PROVE  IInv'
<1> DEFINE q == req[r]
<1>1. q.pc = "inflight" /\ q.pc \in AtMember
  BY DEF RetrySameMember, At, AtMember
<1>2. q \in RequestState /\ q.att \in [Members -> Nat] /\ q.tries \in Nat /\ q.cur \in Members
  BY <1>1, MemberData DEF RequestState
<1>3. PICK hist \in [Members -> SUBSET Status] : hist = NoteFailed(q.hist, q.cur)
  BY <1>2, NoteFailedType DEF RequestState
<1>4. q.att[q.cur] + 1 \in Nat
  BY <1>2
<1>5. PICK att \in [Members -> Nat] : att = [q.att EXCEPT ![q.cur] = @ + 1]
  <2>1. [q.att EXCEPT ![q.cur] = @ + 1] \in [Members -> Nat]
    BY <1>2, <1>4
  <2> QED BY <2>1
<1>6. PICK tries \in Nat : tries = q.tries + 1
  BY <1>2
<1>7. kind \in Kinds \cup {"none"}
  BY OutcomeAssumption
<1> DEFINE p == [q EXCEPT !.pc = "setup", !.tries = tries, !.last = kind,
                          !.att = att, !.hist = hist]
<1>8. Becomes(r, p)
  BY <1>2, <1>3, <1>5, <1>6 DEF RetrySameMember, RequestState
<1>9. RequestInv(p)
  <2>1. p \in RequestState
    BY <1>2, <1>7 DEF RequestState
  <2>2. p.pc = "setup" /\ p.cur = q.cur /\ p.claimed = q.claimed
    BY <1>2 DEF RequestState
  <2> QED BY <1>1, <2>1, <2>2, MemberData DEF RequestInv, AtMember
<1>10. RequestsInv'
  BY <1>8, <1>9, BecomesInv DEF IInv
<1> QED BY <1>10 DEF RetrySameMember, IInv, EnvInv, envVars

\* Next leaving a member: the claim on that member goes with it.
LEMMA LeaveMemberInv ==
    ASSUME IInv, NEW r \in Requests, At(r, "inflight"), NEW kind \in Kinds,
           NEW n \in Nat, LeaveMember(r, kind, n)
    PROVE  RequestsInv'
<1> DEFINE q == req[r]
<1>1. q.pc = "inflight" /\ q.pc \in AtMember
  BY DEF At, AtMember
<1>2. q \in RequestState /\ q.att \in [Members -> Nat] /\ q.tries \in Nat /\ q.cur \in Members
  BY <1>1, MemberData DEF RequestState
<1>3. PICK hist \in [Members -> SUBSET Status] : hist = NoteFailed(q.hist, q.cur)
  BY <1>2, NoteFailedType DEF RequestState
<1>4. PICK tries \in Nat : tries = q.tries + 1
  BY <1>2
<1>5. PICK att \in [Members -> Nat] : att = [q.att EXCEPT ![q.cur] = n]
  BY <1>2
<1>6. (IF q.claimed = q.cur THEN NoMember ELSE q.claimed) = NoMember
  BY <1>1, MemberData DEF RequestInv, AtMember
<1>7. NoMember \in MemberOrNone /\ kind \in Kinds \cup {"none"}
  BY DEF MemberOrNone
<1> DEFINE p == [q EXCEPT !.pc = "reload", !.tries = tries, !.last = kind,
                          !.att = att, !.hist = hist, !.claimed = NoMember]
<1>8. Becomes(r, p)
  BY <1>2, <1>3, <1>4, <1>5, <1>6 DEF LeaveMember, RequestState
<1>9. RequestInv(p)
  <2>1. p \in RequestState
    BY <1>2, <1>7 DEF RequestState
  <2>2. p.pc = "reload" /\ p.claimed = NoMember
    BY <1>2 DEF RequestState
  <2> QED BY <2>1, <2>2 DEF RequestInv, AtMember
<1> QED BY <1>8, <1>9, BecomesInv DEF IInv

\* Next on upstream_reject.
LEMMA RejectMemberStep ==
    ASSUME IInv, NEW r \in Requests, RejectMember(r)
    PROVE  IInv'
<1> DEFINE k == req[r].cur
           n == IF BudgetLeft(r, k) THEN Body(r).attempts[k] ELSE req[r].att[k]
<1>1. req[r].pc \in AtMember /\ At(r, "inflight")
  BY DEF RejectMember, At, AtMember
<1>2. n \in Nat /\ k \in Members /\ "upstream_reject" \in Kinds
  BY <1>1, MemberData DEF RequestState, Kinds, SwitchKinds
<1>3. RuntimeInv(RecordReject(rt, k))
  BY <1>2, EndAffinityInv DEF RecordReject, IInv
<1>4. RuntimeInv(rt')
  BY <1>3, ReleaseProbeInv DEF RejectMember
<1>5. LeaveMember(r, "upstream_reject", n)
  BY DEF RejectMember
<1> HIDE DEF n
<1>6. RequestsInv'
  BY <1>1, <1>2, <1>5, LeaveMemberInv
<1> QED BY <1>4, <1>6 DEF RejectMember, IInv, EnvInv, envVars

\* Next on a failure that counts against the member.
LEMMA FailMemberStep ==
    ASSUME IInv, NEW r \in Requests, NEW kind \in Outcomes, FailMember(r, kind)
    PROVE  IInv'
<1> DEFINE k == req[r].cur
           s == RecordFailure(rt, k, kind, Body(r).cooldown[k], ~IsManual(r), settings, now)
<1>1. req[r].pc \in AtMember /\ At(r, "inflight")
  BY DEF FailMember, At, AtMember
<1>2. req[r].att[k] \in Nat /\ k \in Members /\ kind \in Kinds
  BY <1>1, MemberData, OutcomeAssumption DEF RequestState
<1>3. RuntimeInv(s)
  BY <1>1, <1>2, MemberData, RecordFailureInv DEF IInv
<1>4. RuntimeInv(rt')
  BY <1>3, ReleaseProbeInv DEF FailMember
<1>5. RequestsInv'
  BY <1>1, <1>2, LeaveMemberInv DEF FailMember
<1> QED BY <1>4, <1>5 DEF FailMember, IInv, EnvInv, envVars

--------------------------------------------------------------------------------
(* The environment *)

\* PUT /lanes/{name} and the operator's other acts leave the requests alone.
LEMMA EnvironmentStep ==
    ASSUME IInv, Environment
    PROVE  IInv'
<1>1. CASE EditLane
  <2>1. EnvInv'
    BY <1>1 DEF EditLane, Operate, IInv, EnvInv
  <2> QED BY <1>1, <2>1 DEF EditLane, IInv, RequestsInv
<1>2. CASE ResetLaneCircuits
  BY <1>2, ResetInv DEF ResetLaneCircuits, Operate, IInv, EnvInv, RequestsInv
<1>3. CASE SetCircuitOptions
  BY <1>3 DEF SetCircuitOptions, Operate, IInv, EnvInv, RequestsInv
<1>4. CASE Tick
  BY <1>4 DEF Tick, IInv, EnvInv, RequestsInv
<1>5. ASSUME NEW m \in Members, FlipChannel(m)
      PROVE  IInv'
  BY <1>5 DEF FlipChannel, Operate, IInv, EnvInv, RequestsInv
<1> QED BY <1>1, <1>2, <1>3, <1>4, <1>5 DEF Environment

\* Any step of the system.
LEMMA NextIInv == IInv /\ [Next]_vars => IInv'
<1> SUFFICES ASSUME IInv, [Next]_vars PROVE IInv'
  OBVIOUS
<1>1. CASE UNCHANGED vars
  BY <1>1 DEF vars, IInv, RequestsInv, EnvInv
<1>2. CASE Environment
  BY <1>2, EnvironmentStep
<1>3. ASSUME NEW r \in Requests, Arrive(r) \/ Proceeds(r)
      PROVE  IInv'
  <2>1. CASE Arrive(r)
    BY <2>1, ArriveStep
  <2>2. CASE ApplyRoute(r) \/ Prune(r) \/ Reload(r) \/ ReloadFails(r)
    BY <2>2, ApplyRouteStep, PruneStep, ReloadStep, ReloadFailsStep
  <2>3. CASE Selects(r)
    BY <2>3, PickAffinityStep, PickByPriorityStep, PickManualStep, PickNoneStep,
       MarkCurrentMemberStep, NoMemberLeftStep DEF Selects
  <2>4. CASE ChannelReady(r) \/ ChannelUnavailable(r) \/ GiveBackProbe(r)
    BY <2>4, ChannelReadyStep, ChannelUnavailableStep, GiveBackProbeStep
  <2>5. CASE RelayRefusesRequest(r) \/ StubHandler(r)
    BY <2>5, ReleaseAndFinishStep
  <2>6. CASE AttemptEnds(r)
    BY <2>6, SuccessStep, ReleaseAndFinishStep, RetrySameMemberStep, FailMemberStep,
       RejectMemberStep DEF AttemptEnds
  <2> QED BY <1>3, <2>1, <2>2, <2>3, <2>4, <2>5, <2>6 DEF Proceeds
<1> QED BY <1>1, <1>2, <1>3 DEF Next

\* IInv holds throughout every behaviour.
LEMMA InvariantHolds == Spec => []IInv
BY InitIInv, NextIInv, PTL DEF Spec

--------------------------------------------------------------------------------
(* Theorems *)

\* Type correctness: the runtime, the request states and the configuration stay
\* within the types of runtime.go and route.go, and a request that has selected a
\* member knows which one.
THEOREM TypeCorrect == Spec => []TypeOK
BY InvariantHolds, IInvImpliesTypeOK, PTL

\* No member is withheld without cause: availabilityOf reports a member as anything
\* but available only if it has failed since its last success, whatever operators
\* edit, reset or prune meanwhile.
THEOREM MembersWithheldForCause == Spec => []WithheldForCause
<1>1. IInv => WithheldForCause
  BY DEF IInv, RuntimeInv, Caused, WithheldForCause, AvailabilityOf, Runtime, Circuit,
         CircuitStates
<1> QED BY <1>1, InvariantHolds, PTL

\* A running or armed affinity window always has a current member: no order of
\* successes, failures, resets and pruning leaves a window without one.
THEOREM AffinityAlwaysHeld == Spec => []AffinityHasHolder
<1>1. IInv => AffinityHasHolder
  BY DEF IInv, RuntimeInv, Held, AffinityHasHolder
<1> QED BY <1>1, InvariantHolds, PTL

--------------------------------------------------------------------------------
(* The probe slot *)

\* A claim belongs to a request in progress (State.claimedProbe is dropped on every
\* way out of a request).
LEMMA ClaimantIsLive ==
    ASSUME RequestsInv, NEW r \in Requests, req[r].claimed # NoMember
    PROVE  Live(r)
BY DEF RequestsInv, RequestInv, Live, AtMember

\* The slot stays owned when a step takes it for the request that moves, or leaves
\* it as it is without that request dropping a claim on it.
LEMMA SlotKept ==
    ASSUME IInv, IInv', ProbeSlotOwned, NEW r \in Requests,
           req' = [req EXCEPT ![r] = req'[r]],
           \/ rt'.probe = NoMember
           \/ req'[r].claimed = rt'.probe
           \/ rt'.probe = rt.probe /\ req[r].claimed # rt.probe
    PROVE  ProbeSlotOwned'
<1> SUFFICES ASSUME rt'.probe # NoMember
             PROVE  \E o \in Requests : Live(o)' /\ req'[o].claimed = rt'.probe
  BY DEF ProbeSlotOwned
<1>1. ASSUME NEW o \in Requests, req'[o].claimed = rt'.probe
      PROVE  Live(o)'
  BY <1>1 DEF IInv, RequestsInv, RequestInv, Live, AtMember
<1>2. CASE req'[r].claimed = rt'.probe
  BY <1>1, <1>2
<1>3. CASE rt'.probe = rt.probe /\ req[r].claimed # rt.probe
  <2>1. PICK o \in Requests : req[o].claimed = rt.probe
    BY <1>3 DEF ProbeSlotOwned
  <2>2. o # r /\ req'[o] = req[o]
    BY <1>3, <2>1 DEF IInv, RequestsInv
  <2> QED BY <1>1, <1>3, <2>1, <2>2
<1> QED BY <1>2, <1>3

\* releaseProbe frees the slot of one member and no other.
LEMMA ReleaseProbeSlot ==
    ASSUME NEW s, RuntimeInv(s), NEW k
    PROVE  ReleaseProbe(s, k).probe = IF s.probe = k THEN NoMember ELSE s.probe
BY DEF ReleaseProbe, RuntimeInv, Runtime

\* Recording a failure leaves the slot alone.
LEMMA RecordFailureSlot ==
    ASSUME NEW s, RuntimeInv(s), NEW k, NEW kind, NEW secs, NEW apply, NEW st, NEW t
    PROVE  RecordFailure(s, k, kind, secs, apply, st, t).probe = s.probe
<1>1. EndAffinity(s, k).probe = s.probe /\ "probe" \in DOMAIN EndAffinity(s, k)
  BY DEF EndAffinity, RuntimeInv, Runtime
<1> QED BY <1>1 DEF RecordFailure

\* recordSuccess releases the slot if it is the member's.
LEMMA RecordSuccessSlot ==
    ASSUME NEW s, RuntimeInv(s), NEW k, NEW secs, NEW t
    PROVE  RecordSuccess(s, k, secs, t).probe = IF s.probe = k THEN NoMember ELSE s.probe
BY DEF RecordSuccess, ReleaseProbe, RuntimeInv, Runtime

\* What a request records when it moves.
LEMMA Moved ==
    ASSUME IInv, NEW r \in Requests, NEW q, Becomes(r, q)
    PROVE  req'[r] = q /\ req' = [req EXCEPT ![r] = req'[r]]
BY DEF IInv, RequestsInv, Becomes

\* A request without a claim may do anything that leaves the slot or frees it.
LEMMA UnclaimedSlot ==
    ASSUME IInv, IInv', ProbeSlotOwned, NEW r \in Requests, NEW q, Becomes(r, q),
           req[r].claimed = NoMember, rt'.probe \in {rt.probe, NoMember}
    PROVE  ProbeSlotOwned'
BY SlotKept, Moved

\* A request that keeps its claim, on a step that leaves the slot alone.
LEMMA KeptClaimSlot ==
    ASSUME IInv, IInv', ProbeSlotOwned, NEW r \in Requests, NEW q, Becomes(r, q),
           q.claimed = req[r].claimed, rt'.probe = rt.probe
    PROVE  ProbeSlotOwned'
BY SlotKept, Moved

\* A request that releases its own claim.
LEMMA ReleasedSlot ==
    ASSUME IInv, IInv', ProbeSlotOwned, NEW r \in Requests, NEW q, Becomes(r, q),
           NEW k, req[r].claimed \in {NoMember, k},
           rt'.probe = IF rt.probe = k THEN NoMember ELSE rt.probe
    PROVE  ProbeSlotOwned'
BY SlotKept, Moved

\* PBRServe, applyRouteLocked and reloadLocked run without a claim.
LEMMA ConfigureSlot ==
    ASSUME IInv, IInv', ProbeSlotOwned, NEW r \in Requests,
           Arrive(r) \/ ApplyRoute(r) \/ Prune(r) \/ Reload(r) \/ ReloadFails(r)
    PROVE  ProbeSlotOwned'
<1>1. req[r].claimed = NoMember
  BY NoClaim, ClaimantIsLive DEF Arrive, ApplyRoute, Prune, Reload, ReloadFails, At, IInv
<1>2. \E q : Becomes(r, q)
  BY DEF Arrive, ApplyRoute, Prune, Reload, ReloadFails
<1>3. rt'.probe \in {rt.probe, NoMember}
  <2>1. CASE rt' = rt
    BY <2>1
  <2>2. CASE ApplyRoute(r)
    BY <2>2 DEF ApplyRoute, ApplySignature, IInv, RuntimeInv, Runtime
  <2>3. CASE Prune(r)
    BY <2>3, ZenonT(40) DEF Prune, PruneStaleState, PruneStaleLocked, IInv, RuntimeInv, Runtime
  <2> QED BY <2>1, <2>2, <2>3 DEF Arrive, Reload, ReloadFails
<1> QED BY <1>1, <1>2, <1>3, UnclaimedSlot

\* Selection takes the slot only together with the claim.
LEMMA SelectSlot ==
    ASSUME IInv, IInv', ProbeSlotOwned, NEW r \in Requests, Selects(r)
    PROVE  ProbeSlotOwned'
<1>1. ASSUME PickAffinity(r) \/ PickNone(r) \/ NoMemberLeft(r)
      PROVE  ProbeSlotOwned'
  <2>1. req[r].claimed = NoMember
    BY <1>1, NoClaim DEF PickAffinity, PickNone, NoMemberLeft, At, IInv
  <2>2. \E q : Becomes(r, q)
    BY <1>1 DEF PickAffinity, PickNone, NoMemberLeft, Choose
  <2>3. rt'.probe = rt.probe
    BY <1>1 DEF PickAffinity, PickNone, NoMemberLeft, NoteLaneUnavailable, IInv,
                RuntimeInv, Runtime
  <2> QED BY <2>1, <2>2, <2>3, UnclaimedSlot
<1>2. ASSUME PickByPriority(r) \/ PickManual(r)
      PROVE  ProbeSlotOwned'
  <2>1. req[r].claimed = NoMember
    BY <1>2, NoClaim DEF PickByPriority, PickManual, At, IInv
  <2>2. PICK m, hist :
          \/ rt' = TakeProbe(rt, m) /\ Choose(r, m, m, hist)
          \/ rt' = rt /\ Choose(r, m, req[r].claimed, hist)
    <3>1. CASE PickByPriority(r)
      <4>1. PICK i \in DOMAIN Order(req[r].snap) :
              LET m == Order(req[r].snap)[i]
                  probes == AvailabilityOf(rt, m, now) = "probe_ready"
              IN  /\ rt' = IF probes THEN TakeProbe(rt, m) ELSE rt
                  /\ Choose(r, m, IF probes THEN m ELSE req[r].claimed,
                            NoteSkips(req[r].hist, Passed(r, i), SkipReasons(r)))
        BY <3>1 DEF PickByPriority
      <4> QED BY <4>1
    <3>2. CASE PickManual(r)
      BY <3>2 DEF PickManual
    <3> QED BY <1>2, <3>1, <3>2
  <2>3. CASE rt' = TakeProbe(rt, m) /\ Choose(r, m, m, hist)
    <3>1. rt'.probe = m
      BY <2>3 DEF TakeProbe, IInv, RuntimeInv, Runtime
    <3>2. req[r] \in RequestState
      BY BodyOf DEF IInv
    <3> DEFINE q == [req[r] EXCEPT !.pc = "mark", !.chosen = m, !.claimed = m,
                                   !.att[m] = @ + 1, !.hist = hist]
    <3>3. q.claimed = m
      BY <3>2 DEF RequestState
    <3>4. Becomes(r, q)
      BY <2>3 DEF Choose
    <3> HIDE DEF q
    <3>5. req'[r] = q /\ req' = [req EXCEPT ![r] = req'[r]]
      BY <3>4, Moved
    <3> QED BY <3>1, <3>3, <3>5, SlotKept
  <2>4. CASE rt' = rt /\ Choose(r, m, req[r].claimed, hist)
    BY <2>1, <2>4, UnclaimedSlot DEF Choose
  <2> QED BY <2>2, <2>3, <2>4
<1>3. ASSUME MarkCurrentMember(r)
      PROVE  ProbeSlotOwned'
  <2>1. rt'.probe = rt.probe
    BY <1>3 DEF MarkCurrentMember, MarkCurrent, IInv, RuntimeInv, Runtime
  <2>2. [req[r] EXCEPT !.pc = "setup", !.cur = req[r].chosen, !.chosen = NoMember].claimed
          = req[r].claimed
    BY BodyOf DEF IInv, RequestState
  <2> QED BY <1>3, <2>1, <2>2, KeptClaimSlot DEF MarkCurrentMember
<1> QED BY <1>1, <1>2, <1>3 DEF Selects

\* The steps at a member either keep the claim and the slot, or release both.
LEMMA AttemptSlot ==
    ASSUME IInv, IInv', ProbeSlotOwned, NEW r \in Requests,
           \/ ChannelReady(r) \/ ChannelUnavailable(r) \/ GiveBackProbe(r)
           \/ RelayRefusesRequest(r) \/ AttemptEnds(r)
    PROVE  ProbeSlotOwned'
<1> DEFINE q == req[r]
           k == q.cur
<1>1. q.pc \in AtMember
  BY DEF ChannelReady, ChannelUnavailable, GiveBackProbe, RelayRefusesRequest, AttemptEnds,
         Success, StopOnError, LoopEnds, RetrySameMember, FailMember, RejectMember, At, AtMember
<1>2. k \in Members /\ q.claimed \in {NoMember, k} /\ q \in RequestState
  BY <1>1, MemberData DEF RequestInv, AtMember
<1>3. RuntimeInv(rt)
  BY DEF IInv
<1>4. ASSUME ChannelReady(r) \/ ChannelUnavailable(r)
               \/ \E kind \in Outcomes : RetrySameMember(r, kind)
      PROVE  ProbeSlotOwned'
  <2>1. CASE ChannelReady(r)
    <3> DEFINE p == [q EXCEPT !.pc = "inflight", !.inRelay = TRUE,
                              !.maxRetry = IF q.inRelay THEN @ ELSE MaxRetriesForLoop(Body(r))]
    <3>1. p.claimed = q.claimed
      BY <1>2 DEF RequestState
    <3>2. Becomes(r, p) /\ rt' = rt
      BY <2>1 DEF ChannelReady
    <3> QED BY <3>1, <3>2, KeptClaimSlot
  <2>2. CASE ChannelUnavailable(r)
    <3> DEFINE p == [q EXCEPT !.pc = "giveback", !.hist = NoteFailed(@, q.cur)]
    <3>1. p.claimed = q.claimed
      BY <1>2 DEF RequestState
    <3>2. Becomes(r, p)
      BY <2>2 DEF ChannelUnavailable
    <3>3. rt'.probe = rt.probe
      BY <1>3, <2>2, RecordFailureSlot DEF ChannelUnavailable
    <3> QED BY <3>1, <3>2, <3>3, KeptClaimSlot
  <2>3. ASSUME NEW kind \in Outcomes, RetrySameMember(r, kind)
        PROVE  ProbeSlotOwned'
    <3> DEFINE p == [q EXCEPT !.pc = "setup", !.tries = @ + 1, !.last = kind,
                              !.att[k] = @ + 1, !.hist = NoteFailed(@, k)]
    <3>1. p.claimed = q.claimed
      BY <1>2 DEF RequestState
    <3>2. Becomes(r, p) /\ rt' = rt
      BY <2>3 DEF RetrySameMember
    <3> QED BY <3>1, <3>2, KeptClaimSlot
  <2> QED BY <1>4, <2>1, <2>2, <2>3
<1>5. ASSUME GiveBackProbe(r) \/ RelayRefusesRequest(r)
               \/ \E kind \in Outcomes : StopOnError(r, kind) \/ LoopEnds(r, kind)
      PROVE  ProbeSlotOwned'
  <2>1. rt' = ReleaseProbe(rt, q.claimed) /\ \E p : Becomes(r, p)
    BY <1>5 DEF GiveBackProbe, RelayRefusesRequest, StopOnError, LoopEnds
  <2> QED BY <1>3, <2>1, ReleaseProbeSlot, ReleasedSlot
<1>6. ASSUME Success(r)
      PROVE  ProbeSlotOwned'
  <2> DEFINE s == RecordSuccess(rt, k, Body(r).affinity[k], now)
  <2>1. RuntimeInv(s) /\ s.probe = IF rt.probe = k THEN NoMember ELSE rt.probe
    BY <1>1, <1>2, <1>3, MemberData, RecordSuccessInv, RecordSuccessSlot
  <2>2. rt' = ReleaseProbe(s, q.claimed) /\ \E p : Becomes(r, p)
    BY <1>6 DEF Success
  <2> HIDE DEF s
  <2>3. rt'.probe = IF rt.probe = k THEN NoMember ELSE rt.probe
    BY <1>2, <2>1, <2>2, ReleaseProbeSlot
  <2> QED BY <1>2, <2>2, <2>3, ReleasedSlot
<1>7. ASSUME RejectMember(r) \/ \E kind \in Outcomes : FailMember(r, kind)
      PROVE  ProbeSlotOwned'
  <2>1. \E p : Becomes(r, p)
    BY <1>7 DEF RejectMember, FailMember, LeaveMember
  <2>2. \E s : RuntimeInv(s) /\ s.probe = rt.probe /\ rt' = ReleaseProbe(s, k)
    <3>1. CASE RejectMember(r)
      <4>1. RuntimeInv(RecordReject(rt, k)) /\ RecordReject(rt, k).probe = rt.probe
        BY <1>2, <1>3, EndAffinityInv DEF RecordReject, EndAffinity, RuntimeInv, Runtime
      <4> QED BY <3>1, <4>1 DEF RejectMember
    <3>2. ASSUME NEW kind \in Outcomes, FailMember(r, kind)
          PROVE  \E s : RuntimeInv(s) /\ s.probe = rt.probe /\ rt' = ReleaseProbe(s, k)
      <4> DEFINE s == RecordFailure(rt, k, kind, Body(r).cooldown[k], ~IsManual(r),
                                    settings, now)
      <4>1. RuntimeInv(s)
        BY <1>1, <1>2, <1>3, MemberData, RecordFailureInv
      <4>2. s.probe = rt.probe
        BY <1>3, RecordFailureSlot
      <4>3. rt' = ReleaseProbe(s, k)
        BY <3>2 DEF FailMember
      <4> QED BY <4>1, <4>2, <4>3
    <3> QED BY <1>7, <3>1, <3>2
  <2> QED BY <1>2, <2>1, <2>2, ReleaseProbeSlot, ReleasedSlot
<1> QED BY <1>4, <1>5, <1>6, <1>7 DEF AttemptEnds

\* Operators never take the slot; a reset frees it.
LEMMA EnvironmentSlot ==
    ASSUME IInv, ProbeSlotOwned, Environment
    PROVE  ProbeSlotOwned'
<1>1. rt'.probe \in {rt.probe, NoMember} /\ req' = req
  BY DEF Environment, EditLane, ResetLaneCircuits, SetCircuitOptions, Tick, FlipChannel,
         Reset, IInv, RuntimeInv, Runtime
<1> QED BY <1>1 DEF ProbeSlotOwned, Live

\* The probe slot is never orphaned on the routes that controller.Relay serves: while
\* it is taken, a request in progress records it as its claim, and every way out of
\* that request releases it.  (The handlers that are not Relay break this; hence the
\* hypothesis.)
THEOREM ProbeSlotAlwaysOwned ==
    ASSUME Endpoints = {"relay"}
    PROVE  Spec => []ProbeSlotOwned
<1>1. Init => ProbeSlotOwned
  BY DEF Init, InitRuntime, ProbeSlotOwned
<1>2. IInv /\ IInv' /\ ProbeSlotOwned /\ [Next]_vars => ProbeSlotOwned'
  <2> SUFFICES ASSUME IInv, IInv', ProbeSlotOwned, [Next]_vars
               PROVE  ProbeSlotOwned'
    OBVIOUS
  <2>1. CASE UNCHANGED vars
    BY <2>1 DEF vars, ProbeSlotOwned, Live
  <2>2. CASE Environment
    BY <2>2, EnvironmentSlot
  <2>3. ASSUME NEW r \in Requests, Arrive(r) \/ Proceeds(r)
        PROVE  ProbeSlotOwned'
    <3>1. ~StubHandler(r)
      BY BodyOf DEF StubHandler, IInv, RequestState
    <3> QED BY <2>3, <3>1, ConfigureSlot, SelectSlot, AttemptSlot DEF Proceeds
  <2> QED BY <2>1, <2>2, <2>3 DEF Next
<1> QED BY <1>1, <1>2, InvariantHolds, PTL DEF Spec

================================================================================
