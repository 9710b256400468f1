------------------------------ MODULE LaneRuntime ------------------------------
(***************************************************************************)
(* The in-process runtime of one lane, shared by every request routed      *)
(* through it (internal/route/runtime.go, type Runtime): the current       *)
(* member, the single probe slot, the affinity window, the cooldowns and   *)
(* the circuit breakers.  Each operator below is one method of Runtime,    *)
(* written as a function from the runtime before the call to the runtime   *)
(* after it; the Go methods run under Runtime.mu, so each call is atomic.  *)
(*                                                                         *)
(* Failure scores are counted in tenths (1.0 = 10) and time in seconds.    *)
(* An absent entry of the Circuits map is a fresh closed circuit, an       *)
(* absent cooldown is 0, and NoMember stands for HasCurrent = false and    *)
(* HasProbe = false.                                                       *)
(***************************************************************************)
EXTENDS Integers, Sequences, FiniteSets, Doubling

CONSTANTS
    Members,        \* runtime keys "channelId:upstreamModel"
    NoMember,       \* not a member
    RollingWindow   \* rollingWindowSize, 20 in the code

ASSUME NoMemberAssumption == NoMember \notin Members
ASSUME WindowAssumption == RollingWindow \in Nat \ {0}

MemberOrNone == Members \cup {NoMember}

HardKinds == {"hard_auth", "hard_quota"}
SwitchKinds == HardKinds \cup
    {"soft_rate_limit", "soft_transient", "bad_response", "upstream_reject"}
RetryKinds == {"soft_rate_limit", "soft_transient", "bad_response"}
StopKinds == {"client_error", "canceled"}
Kinds == SwitchKinds \cup StopKinds

CircuitStates == {"closed", "open", "half_open"}

(***************************************************************************)
(* Circuit settings (system/options).  A rate is a fraction num/den.       *)
(***************************************************************************)
CircuitSettings ==
    {st \in [threshold : Nat \ {0}, openSeconds : Nat, maxOpenSeconds : Nat \ {0},
             minSamples : Nat \ {0}, rateNum : Nat \ {0}, rateDen : Nat \ {0}] :
        st.rateNum <= st.rateDen}

Circuit ==
    [state : CircuitStates, score : Nat, openCount : Nat,
     openedAt : Int, openUntil : Int, outcomes : Seq(BOOLEAN)]

FreshCircuit ==
    [state |-> "closed", score |-> 0, openCount |-> 0,
     openedAt |-> 0, openUntil |-> 0, outcomes |-> << >>]

--------------------------------------------------------------------------------
(* Circuit arithmetic *)

Weight(kind) ==
    CASE kind \in HardKinds \cup {"bad_response"} -> 10
      [] kind = "soft_transient" -> 6
      [] kind = "soft_rate_limit" -> 2
      [] OTHER -> 5

CooldownSecondsFor(kind, base) ==
    IF kind \in HardKinds THEN base * 2 ELSE base

\* recordOutcome: the window keeps the most recent RollingWindow results.
RecordOutcome(outcomes, ok) ==
    LET s == Append(outcomes, ok)
    IN  IF Len(s) > RollingWindow THEN Tail(s) ELSE s

Failures(outcomes) == {i \in DOMAIN outcomes : ~outcomes[i]}

RollingFailureTriggersOpen(c, st) ==
    /\ Len(c.outcomes) >= st.minSamples
    /\ Cardinality(Failures(c.outcomes)) * st.rateDen >= st.rateNum * Len(c.outcomes)

\* The evidence on which recordFailure opens a circuit that is not open.
HasOpenEvidence(c, st) ==
    c.score >= st.threshold \/ RollingFailureTriggersOpen(c, st)

\* Mutant of OpenSecondsFor: the openings so far do not lengthen the backoff.
OpenSecondsFlat(c, cooldown, st) ==
    IF st.openSeconds > 0 THEN st.openSeconds ELSE IF cooldown > 0 THEN cooldown ELSE 60

\* How long a first opening lasts.
BaseSeconds(cooldown, st) ==
    IF st.openSeconds > 0 THEN st.openSeconds ELSE IF cooldown > 0 THEN cooldown ELSE 60

\* Doubling per earlier opening, capped; the loop of openCircuit.
OpenSecondsFor(c, cooldown, st) ==
    LET long == BaseSeconds(cooldown, st) * Doubled[c.openCount]
    IN  IF long > st.maxOpenSeconds THEN st.maxOpenSeconds ELSE long

OpenCircuit(c, cooldown, st, now) ==
    [c EXCEPT !.state = "open",
              !.openCount = @ + 1,
              !.openedAt = now,
              !.openUntil = now + OpenSecondsFor(c, cooldown, st)]

--------------------------------------------------------------------------------
(* The runtime *)

\* signature and pruned describe the lane configuration last applied; what a
\* signature is belongs to the caller, so it stays opaque here.
InitRuntime(noSignature) ==
    [current |-> NoMember, probe |-> NoMember,
     affinityUntil |-> 0, armed |-> FALSE,
     cooldowns |-> [m \in Members |-> 0],
     circuits |-> [m \in Members |-> FreshCircuit],
     laneDown |-> FALSE,
     signature |-> noSignature,
     prunedSet |-> {}, prunedVersion |-> 0]

\* Cooldown and circuit merged into one verdict on a member.
AvailabilityOf(rt, k, now) ==
    LET c == rt.circuits[k]
    IN  CASE c.state = "open" /\ now < c.openUntil -> "skip"
          [] c.state = "open" /\ now >= c.openUntil -> "probe_ready"
          [] c.state = "half_open" -> "probe_ready"
          [] c.state = "closed" /\ rt.cooldowns[k] = 0 -> "ok"
          [] c.state = "closed" /\ rt.cooldowns[k] # 0 ->
                IF now < rt.cooldowns[k] THEN "skip" ELSE "probe_ready"

\* The attempts[] status of a member the selection passes over.
SkipReason(rt, k, now) ==
    LET c == rt.circuits[k]
    IN  IF c.state = "open" /\ now < c.openUntil THEN "circuit_break"
        ELSE IF c.state = "closed" /\ now < rt.cooldowns[k] THEN "cooldown"
        ELSE "skipped"

\* Mutant of TakeProbe: going half open forgives the failures so far.
TakeProbeForgiving(rt, k) ==
    [rt EXCEPT !.probe = k,
               !.circuits[k] = IF @.state = "open"
                               THEN [@ EXCEPT !.state = "half_open", !.score = 0,
                                              !.outcomes = << >>]
                               ELSE @]

\* takeProbe followed by recordProbeStart: an open circuit turns half open.
TakeProbe(rt, k) ==
    [rt EXCEPT !.probe = k,
               !.circuits[k].state = IF @ = "open" THEN "half_open" ELSE @]

ReleaseProbe(rt, k) ==
    [rt EXCEPT !.probe = IF @ = k THEN NoMember ELSE @]

\* The current member failed or refused: its affinity window ends at once.
EndAffinity(rt, k) ==
    IF rt.current = k THEN [rt EXCEPT !.affinityUntil = 0, !.armed = TRUE] ELSE rt

FailedCircuit(c, kind, cooldown, st, now) ==
    LET failed == [c EXCEPT !.score = @ + Weight(kind),
                            !.outcomes = RecordOutcome(@, FALSE)]
    IN  IF failed.state # "open" /\ HasOpenEvidence(failed, st)
        THEN OpenCircuit(failed, cooldown, st, now)
        ELSE failed

RecordFailure(rt, k, kind, seconds, applyCooldown, st, now) ==
    LET cooldown == CooldownSecondsFor(kind, seconds)
    IN  [EndAffinity(rt, k) EXCEPT
            !.circuits[k] = FailedCircuit(@, kind, cooldown, st, now),
            !.cooldowns[k] = IF applyCooldown /\ cooldown > 0 THEN now + cooldown ELSE @]

\* recordReject: no score, no cooldown, the member is not at fault.
RecordReject(rt, k) == EndAffinity(rt, k)

ClosedCircuit(c) ==
    [c EXCEPT !.state = "closed",
              !.score = 0,
              !.openCount = IF c.state = "closed" THEN @ ELSE 0,
              !.openUntil = 0,
              !.outcomes = RecordOutcome(@, TRUE)]

RecordSuccess(rt, k, affinitySeconds, now) ==
    [ReleaseProbe(rt, k) EXCEPT
        !.cooldowns[k] = 0,
        !.circuits[k] = ClosedCircuit(@),
        !.laneDown = FALSE,
        !.affinityUntil = IF rt.armed /\ affinitySeconds > 0
                          THEN now + affinitySeconds ELSE @,
        !.armed = FALSE]

\* markCurrentLocked: a change of member arms affinity for the next success.
MarkCurrent(rt, k) ==
    [rt EXCEPT !.armed = @ \/ rt.current \notin {NoMember, k},
               !.current = k]

NoteLaneUnavailable(rt) == [rt EXCEPT !.laneDown = TRUE]

\* POST /lanes/{name}/circuits/reset.
Reset(rt) ==
    [rt EXCEPT !.cooldowns = [m \in Members |-> 0],
               !.circuits = [m \in Members |-> FreshCircuit],
               !.probe = NoMember,
               !.armed = FALSE,
               !.affinityUntil = 0]

\* applyRouteLocked, first critical section: a new configuration ends affinity.
ApplySignature(rt, signature, noSignature) ==
    LET changed == rt.signature \notin {noSignature, signature}
    IN  [rt EXCEPT !.affinityUntil = IF changed THEN 0 ELSE @,
                   !.armed = IF changed THEN FALSE ELSE @,
                   !.signature = signature]

\* Mutant of PruneStaleLocked: the cooldown table is not pruned.
PruneStaleCircuitsOnly(rt, valid) ==
    [rt EXCEPT
        !.circuits = [m \in Members |-> IF m \in valid THEN @[m] ELSE FreshCircuit],
        !.probe = IF @ \in valid THEN @ ELSE NoMember]

\* Mutant of PruneStaleLocked: the current member goes, its affinity stays.
PruneStaleKeepsAffinity(rt, valid) ==
    [rt EXCEPT
        !.cooldowns = [m \in Members |-> IF m \in valid THEN @[m] ELSE 0],
        !.circuits = [m \in Members |-> IF m \in valid THEN @[m] ELSE FreshCircuit],
        !.probe = IF @ \in valid THEN @ ELSE NoMember,
        !.current = IF @ \in valid THEN @ ELSE NoMember]

PruneStaleLocked(rt, valid) ==
    LET gone == rt.current \notin valid \cup {NoMember}
    IN  [rt EXCEPT
            !.cooldowns = [m \in Members |-> IF m \in valid THEN @[m] ELSE 0],
            !.circuits = [m \in Members |-> IF m \in valid THEN @[m] ELSE FreshCircuit],
            !.probe = IF @ \in valid THEN @ ELSE NoMember,
            !.current = IF gone THEN NoMember ELSE @,
            !.affinityUntil = IF gone THEN 0 ELSE @,
            !.armed = IF gone THEN FALSE ELSE @]

\* An empty prunedSet is prunedInit = false: the first call only registers.
PruneStaleState(rt, valid, version) ==
    LET newest == IF version > rt.prunedVersion THEN version ELSE rt.prunedVersion
        stale == version # 0 /\ rt.prunedVersion # 0 /\ version < rt.prunedVersion
    IN  IF valid = {} THEN rt
        ELSE IF rt.prunedSet = {}
             THEN [rt EXCEPT !.prunedSet = valid, !.prunedVersion = version]
        ELSE IF stale THEN rt
        ELSE [(IF valid = rt.prunedSet THEN rt ELSE PruneStaleLocked(rt, valid))
                EXCEPT !.prunedSet = valid, !.prunedVersion = newest]

================================================================================
