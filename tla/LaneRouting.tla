------------------------------ MODULE LaneRouting ------------------------------
(***************************************************************************)
(* Requests routed through one lane.  Each request runs PBRServe           *)
(* (middleware/pbr_route.go), then the relay loop (controller/relay.go),   *)
(* and selects its members with a request state (internal/route/route.go,  *)
(* type State) over the lane's shared runtime (module LaneRuntime).        *)
(*                                                                         *)
(* One action is one critical section of Runtime.mu with the private work  *)
(* of the request around it, so requests interleave exactly where the code *)
(* lets them: between choosing a member and recording it as current,       *)
(* between reading the lane's configuration and applying it, and while an  *)
(* attempt is in flight.  Operators edit the lane, reset its circuits,     *)
(* change circuit settings and enable or disable channels meanwhile.       *)
(***************************************************************************)
EXTENDS LaneRuntime, SequencesExt

CONSTANTS
    Requests,         \* concurrent request goroutines
    LaneBodies,       \* lane configurations an operator may save
    InitialBody,      \* the configuration saved first
    Pins,             \* members that requests name by alias; NoMember: lane name
    Outcomes,         \* error kinds that upstream attempts end with
    Endpoints,        \* "relay": controller.Relay; "stub": a handler that is not
    SettingsChoices,  \* circuit settings an operator may choose
    InitialSettings,  \* the circuit settings at start
    Operations,       \* what operators do: "edit", "reset", "flip", "options"
    MaxNow, MaxArrivals, MaxOperations   \* bounds: clock, requests, operator acts

VARIABLES
    rt,        \* the lane's Runtime
    req,       \* the request states
    lane,      \* the lane's row: body, rev (identity of the saved member rows), version
    up,        \* channel of the member is enabled and has a usable key
    settings,  \* circuit settings in force
    now,       \* clock, in seconds
    budgets    \* arrivals and operator acts so far, against the bounds above

vars == <<rt, req, lane, up, settings, now, budgets>>

--------------------------------------------------------------------------------
(* Lane configurations and their snapshots *)

LaneBody ==
    [mode : {"failover", "manual"}, chain : Seq(Members), disabled : SUBSET Members,
     active : MemberOrNone, attempts : [Members -> Nat \ {0}],
     cooldown : [Members -> Nat], laneCooldown : Nat, affinity : [Members -> Nat]]

\* The route of a name that no enabled lane and no alias answers to.
UnconfiguredBody ==
    [mode |-> "failover", chain |-> << >>, disabled |-> {}, active |-> NoMember,
     attempts |-> [m \in Members |-> 1], cooldown |-> [m \in Members |-> 0],
     laneCooldown |-> 0, affinity |-> [m \in Members |-> 0]]

ASSUME BodyAssumption == InitialBody \in LaneBodies /\ LaneBodies \subseteq LaneBody
\* A member occurs once in a lane: saving it twice is refused as duplicate_member
\* (internal/api/lanes.go, buildLane and PutLaneMembers).
ASSUME DistinctAssumption == \A body \in LaneBodies : IsInjective(body.chain)
ASSUME PinAssumption == Pins \subseteq MemberOrNone
ASSUME OutcomeAssumption == Outcomes \subseteq Kinds
ASSUME EndpointAssumption == Endpoints \subseteq {"relay", "stub"}
ASSUME SettingsAssumption ==
    InitialSettings \in SettingsChoices /\ SettingsChoices \subseteq CircuitSettings
ASSUME BoundAssumption ==
    {MaxNow, MaxArrivals, MaxOperations} \subseteq Nat

ChainSet(body) == Range(body.chain)

\* A snapshot is also its own routeSnapshotSignature: the signature is built from
\* every field that matters to the selection, the name's included.
Unresolved(pin) == [body |-> UnconfiguredBody, rev |-> 0, version |-> 0, pin |-> pin]

\* routeSignature = "" and State.Route = nil: no row was ever read.
NoSnapshot == [Unresolved(NoMember) EXCEPT !.rev = -1]

\* ResolveRoute: a disabled lane has no chain here, and an alias that no member
\* carries any more resolves to nothing.
ResolveRoute(row, pin) ==
    IF row.body.chain = << >> \/ (pin # NoMember /\ pin \notin ChainSet(row.body))
    THEN Unresolved(pin)
    ELSE [body |-> row.body, rev |-> row.rev, version |-> row.version, pin |-> pin]

\* The order in which a request tries members: the named one first.
Order(snap) ==
    IF snap.pin \notin ChainSet(snap.body) THEN snap.body.chain
    ELSE LET i == CHOOSE i \in DOMAIN snap.body.chain : snap.body.chain[i] = snap.pin
         IN  <<snap.pin>> \o RemoveAt(snap.body.chain, i)

SumOver(chain, f) ==
    LET total[i \in 0..Len(chain)] == IF i = 0 THEN 0 ELSE total[i - 1] + f[chain[i]]
    IN  total[Len(chain)]

\* Mutant of MaxRetriesForLoop: no spare round to find that nobody is left.
MaxRetriesNoSpareRound(body) == SumOver(body.chain, body.attempts) - 1

\* The retry bound of the relay loop: the sum of the members' budgets.
MaxRetriesForLoop(body) == SumOver(body.chain, body.attempts)

--------------------------------------------------------------------------------
(* Request states *)

Status == {"failed", "cooldown", "circuit_break", "skipped", "disabled"}
Results == {"none", "ok", "503", "reject", "client", "raw", "stub"}

IdleRequest ==
    [pc |-> "idle", name |-> NoMember, endpoint |-> "relay", snap |-> NoSnapshot,
     cur |-> NoMember, chosen |-> NoMember, claimed |-> NoMember,
     att |-> [m \in Members |-> 0], hist |-> [m \in Members |-> {}],
     inRelay |-> FALSE, tries |-> 0, maxRetry |-> 0,
     last |-> "none", result |-> "none"]

At(r, pc) == req[r].pc = pc
Becomes(r, q) == req' = [req EXCEPT ![r] = q]
Live(r) == req[r].pc \notin {"idle", "done"}
Body(r) == req[r].snap.body
IsManual(r) == Body(r).mode = "manual"
BudgetLeft(r, m) == req[r].att[m] < Body(r).attempts[m]

Operate(what) ==
    /\ what \in Operations /\ budgets.operations < MaxOperations
    /\ budgets' = [budgets EXCEPT !.operations = @ + 1]

\* recordSkipLocked: one record per member and request.
NoteSkips(hist, members, why) ==
    [m \in Members |-> IF m \in members /\ hist[m] = {} THEN {why[m]} ELSE hist[m]]

NoteFailed(hist, m) == [hist EXCEPT ![m] = @ \cup {"failed"}]

\* The request state ends with its request; only the answer remains.
Finished(result) == [IdleRequest EXCEPT !.pc = "done", !.result = result]

--------------------------------------------------------------------------------
Init ==
    /\ rt = InitRuntime(NoSnapshot)
    /\ req = [r \in Requests |-> IdleRequest]
    /\ lane = [body |-> InitialBody, rev |-> 1, version |-> 1]
    /\ up = [m \in Members |-> TRUE]
    /\ settings = InitialSettings
    /\ now = 1
    /\ budgets = [arrivals |-> 0, operations |-> 0]

envVars == <<lane, up, settings, now, budgets>>

--------------------------------------------------------------------------------
(* PBRServe and the request state *)

\* PBRServe: resolve the name and build the request state.  A name without a
\* lane gets a private runtime, finds no member and ends as a 503.
Arrive(r) ==
    /\ ~Live(r)
    /\ budgets.arrivals < MaxArrivals
    /\ budgets' = [budgets EXCEPT !.arrivals = @ + 1]
    /\ \E pin \in Pins, endpoint \in Endpoints :
         LET snap == ResolveRoute(lane, pin)
             q == [IdleRequest EXCEPT !.pc = "apply", !.name = pin,
                                      !.endpoint = endpoint, !.snap = snap]
         IN  Becomes(r, IF snap.body.chain = << >> THEN Finished("503") ELSE q)
    /\ UNCHANGED <<rt, lane, up, settings, now>>

\* applyRouteLocked, under the runtime lock: compare and store the signature.
ApplyRoute(r) ==
    /\ At(r, "apply")
    /\ rt' = ApplySignature(rt, req[r].snap, NoSnapshot)
    /\ Becomes(r, [req[r] EXCEPT !.pc = "prune"])
    /\ UNCHANGED envVars

\* applyRouteLocked, last statement: PruneStaleState.
Prune(r) ==
    /\ At(r, "prune")
    /\ rt' = PruneStaleState(rt, ChainSet(Body(r)), req[r].snap.version)
    /\ Becomes(r, [req[r] EXCEPT !.pc = "pick"])
    /\ UNCHANGED envVars

\* reloadLocked reads the lane again before every selection but the first.
\* Attempt counts follow the members that are in both snapshots.
Reload(r) ==
    /\ At(r, "reload")
    /\ LET q == req[r]
           snap == ResolveRoute(lane, q.name)
           kept == ChainSet(q.snap.body) \cap ChainSet(snap.body)
       IN  Becomes(r,
              IF snap = q.snap THEN [q EXCEPT !.pc = "pick"]
              ELSE [q EXCEPT !.pc = "apply", !.snap = snap,
                             !.cur = IF @ \in ChainSet(snap.body) THEN @ ELSE NoMember,
                             !.att = [m \in Members |-> IF m \in kept THEN @[m] ELSE 0]])
    /\ UNCHANGED <<rt, envVars>>

\* The lane cannot be read: the request goes on with the snapshot it has.
ReloadFails(r) ==
    /\ At(r, "reload")
    /\ Becomes(r, [req[r] EXCEPT !.pc = "pick"])
    /\ UNCHANGED <<rt, envVars>>

--------------------------------------------------------------------------------
(* Selection: chooseFailoverLocked and pickManualLocked *)

Choose(r, m, claimed, hist) ==
    Becomes(r, [req[r] EXCEPT !.pc = "mark", !.chosen = m, !.claimed = claimed,
                              !.att[m] = @ + 1, !.hist = hist])

\* The affinity window keeps the lane on the runtime's current member.
StaysOnCurrent(r) ==
    LET k == rt.current
    IN  /\ k # NoMember /\ rt.affinityUntil > now
        /\ k \in ChainSet(Body(r)) \ Body(r).disabled
        /\ BudgetLeft(r, k)
        /\ AvailabilityOf(rt, k, now) # "skip"

Passes(r, m) ==
    /\ BudgetLeft(r, m)
    /\ m \notin Body(r).disabled
    /\ \/ AvailabilityOf(rt, m, now) = "ok"
       \/ AvailabilityOf(rt, m, now) = "probe_ready" /\ rt.probe = NoMember

\* Mutant of Passed: a member passed over for the taken probe slot is not noted.
PassedUnlessProbing(r, i) ==
    {m \in {Order(req[r].snap)[j] : j \in 1..(i - 1)} :
        BudgetLeft(r, m) /\ AvailabilityOf(rt, m, now) # "probe_ready"}

\* Members in front of position i that still have budget, each to be explained.
Passed(r, i) ==
    {Order(req[r].snap)[j] : j \in {j \in 1..(i - 1) : BudgetLeft(r, Order(req[r].snap)[j])}}

RuntimeReasons == [m \in Members |-> SkipReason(rt, m, now)]
SkipReasons(r) ==
    [m \in Members |-> IF m \in Body(r).disabled THEN "disabled" ELSE SkipReason(rt, m, now)]

\* Mutant of PickAffinity: the members the window passes over are not noted.
PickAffinityUnnoted(r) ==
    /\ At(r, "pick") /\ ~IsManual(r) /\ StaysOnCurrent(r)
    /\ Choose(r, rt.current, req[r].claimed, req[r].hist)
    /\ UNCHANGED <<rt, envVars>>

PickAffinity(r) ==
    /\ At(r, "pick") /\ ~IsManual(r) /\ StaysOnCurrent(r)
    /\ \E i \in DOMAIN Order(req[r].snap) :
         /\ Order(req[r].snap)[i] = rt.current
         /\ Choose(r, rt.current, req[r].claimed,
                   NoteSkips(req[r].hist, Passed(r, i), RuntimeReasons))
    /\ UNCHANGED <<rt, envVars>>

PickByPriority(r) ==
    /\ At(r, "pick") /\ ~IsManual(r) /\ ~StaysOnCurrent(r)
    /\ \E i \in DOMAIN Order(req[r].snap) :
         LET m == Order(req[r].snap)[i]
             probes == AvailabilityOf(rt, m, now) = "probe_ready"
         IN  /\ Passes(r, m)
             /\ \A j \in 1..(i - 1) : ~Passes(r, Order(req[r].snap)[j])
             /\ rt' = IF probes THEN TakeProbe(rt, m) ELSE rt
             /\ Choose(r, m, IF probes THEN m ELSE req[r].claimed,
                       NoteSkips(req[r].hist, Passed(r, i), SkipReasons(r)))
    /\ UNCHANGED envVars

\* Manual lanes ask the circuit only, never the cooldown.
ManualReady(r) ==
    LET k == Body(r).active
    IN  /\ k \in ChainSet(Body(r)) \ Body(r).disabled
        /\ BudgetLeft(r, k)
        /\ \/ rt.circuits[k].state = "closed"
           \/ /\ AvailabilityOf(rt, k, now) = "probe_ready"
              /\ rt.probe = NoMember

PickManual(r) ==
    /\ At(r, "pick") /\ IsManual(r) /\ ManualReady(r)
    /\ LET k == Body(r).active
           probes == rt.circuits[k].state # "closed"
       IN  /\ rt' = IF probes THEN TakeProbe(rt, k) ELSE rt
           /\ Choose(r, k, IF probes THEN k ELSE req[r].claimed, req[r].hist)
    /\ UNCHANGED envVars

NoneSelectable(r) ==
    IF IsManual(r) THEN ~ManualReady(r)
    ELSE ~StaysOnCurrent(r) /\ \A m \in ChainSet(Body(r)) : ~Passes(r, m)

\* What the traversal leaves behind when it finds nobody.
ExhaustedHist(r) ==
    IF IsManual(r)
    THEN NoteSkips(req[r].hist,
                   {m \in {Body(r).active} \cap Body(r).disabled :
                        m \in ChainSet(Body(r)) /\ BudgetLeft(r, m)},
                   SkipReasons(r))
    ELSE NoteSkips(req[r].hist, Passed(r, Len(Order(req[r].snap)) + 1), SkipReasons(r))

PickNone(r) ==
    /\ At(r, "pick") /\ NoneSelectable(r)
    /\ Becomes(r, [req[r] EXCEPT !.pc = "exhausted", !.hist = ExhaustedHist(r)])
    /\ UNCHANGED <<rt, envVars>>

\* Mutant of MarkCurrentMember: the request state does not learn its member.
MarkCurrentInRuntimeOnly(r) ==
    /\ At(r, "mark")
    /\ rt' = MarkCurrent(rt, req[r].chosen)
    /\ Becomes(r, [req[r] EXCEPT !.pc = "setup", !.chosen = NoMember])
    /\ UNCHANGED envVars

\* markCurrentLocked takes the runtime lock again, after the choice was made.
MarkCurrentMember(r) ==
    /\ At(r, "mark")
    /\ rt' = MarkCurrent(rt, req[r].chosen)
    /\ Becomes(r, [req[r] EXCEPT !.pc = "setup", !.cur = req[r].chosen, !.chosen = NoMember])
    /\ UNCHANGED envVars

\* No member left: note the outage once and answer 503, or hand back the refusal
\* when the last attempt was refused by its upstream.
NoMemberLeft(r) ==
    /\ At(r, "exhausted")
    /\ rt' = IF Body(r).chain = << >> THEN rt ELSE NoteLaneUnavailable(rt)
    /\ Becomes(r, Finished(IF req[r].last = "upstream_reject" THEN "reject" ELSE "503"))
    /\ UNCHANGED envVars

--------------------------------------------------------------------------------
(* Channel set-up in PBRNextChannel and the handler behind it *)

\* The channel is enabled: in the relay loop, or on entering it, the attempt is
\* sent.  The bound of the loop is computed once, on entry.
ChannelReady(r) ==
    /\ At(r, "setup") /\ up[req[r].cur]
    /\ req[r].endpoint = "relay"
    /\ Becomes(r, [req[r] EXCEPT !.pc = "inflight", !.inRelay = TRUE,
                                 !.maxRetry = IF req[r].inRelay THEN @
                                              ELSE MaxRetriesForLoop(Body(r))])
    /\ UNCHANGED <<rt, envVars>>

\* Mutant of RelayRefusesRequest: the early return skips the deferred release.
RelayRefusesKeepsSlot(r) ==
    /\ At(r, "setup") /\ up[req[r].cur]
    /\ req[r].endpoint = "relay"
    /\ Becomes(r, Finished("client"))
    /\ UNCHANGED <<rt, envVars>>

\* Relay gives up before it sends: the request is invalid, or its body cannot be
\* read (again, on a retry).  Its deferred function gives the probe slot back.
RelayRefusesRequest(r) ==
    /\ At(r, "setup") /\ up[req[r].cur]
    /\ req[r].endpoint = "relay"
    /\ rt' = ReleaseProbe(rt, req[r].claimed)
    /\ Becomes(r, Finished("client"))
    /\ UNCHANGED envVars

\* Handlers behind Distribute that are not Relay, and Relay when the websocket
\* upgrade fails, return without touching the request state.
StubHandler(r) ==
    /\ At(r, "setup") /\ up[req[r].cur]
    /\ req[r].endpoint = "stub"
    /\ Becomes(r, Finished("stub"))
    /\ UNCHANGED <<rt, envVars>>

\* ReportMemberUnavailable: a disabled or missing channel counts as a failure.
ChannelUnavailable(r) ==
    /\ At(r, "setup") /\ ~up[req[r].cur]
    /\ rt' = RecordFailure(rt, req[r].cur, "soft_transient", Body(r).laneCooldown,
                           ~IsManual(r), settings, now)
    /\ Becomes(r, [req[r] EXCEPT !.pc = "giveback", !.hist = NoteFailed(@, req[r].cur)])
    /\ UNCHANGED envVars

\* Mutant of GiveBackProbe: the claim is forgotten, the slot stays taken.
GiveBackForgets(r) ==
    /\ At(r, "giveback")
    /\ Becomes(r, [req[r] EXCEPT !.pc = "reload", !.claimed = NoMember])
    /\ UNCHANGED <<rt, envVars>>

\* State.ReleaseProbe: give back the slot this request claimed, if any.
GiveBackProbe(r) ==
    /\ At(r, "giveback")
    /\ rt' = ReleaseProbe(rt, req[r].claimed)
    /\ Becomes(r, [req[r] EXCEPT !.pc = "reload", !.claimed = NoMember])
    /\ UNCHANGED envVars

--------------------------------------------------------------------------------
(* The end of an upstream attempt: the relay loop and State.Next *)

\* OnSuccess; the deferred ReleaseProbe returns a claim on another member.
Success(r) ==
    /\ At(r, "inflight")
    /\ LET k == req[r].cur
       IN  rt' = ReleaseProbe(RecordSuccess(rt, k, Body(r).affinity[k], now), req[r].claimed)
    /\ Becomes(r, Finished("ok"))
    /\ UNCHANGED envVars

\* Mutant of StopOnError: an error that ends the request keeps the probe slot.
StopKeepsSlot(r, kind) ==
    /\ At(r, "inflight") /\ kind \in StopKinds
    /\ Becomes(r, Finished("client"))
    /\ UNCHANGED <<rt, envVars>>

\* client_error and canceled leave the loop without another call of Next.
StopOnError(r, kind) ==
    /\ At(r, "inflight") /\ kind \in StopKinds
    /\ rt' = ReleaseProbe(rt, req[r].claimed)
    /\ Becomes(r, Finished("client"))
    /\ UNCHANGED envVars

\* The loop bound is reached: the upstream's own error is the answer.
LoopEnds(r, kind) ==
    /\ At(r, "inflight") /\ kind \in SwitchKinds
    /\ req[r].tries = req[r].maxRetry
    /\ rt' = ReleaseProbe(rt, req[r].claimed)
    /\ Becomes(r, Finished("raw"))
    /\ UNCHANGED envVars

\* Mutant of RetrySameMember: the retry counts against no bound.
RetryUncounted(r, kind) ==
    /\ At(r, "inflight") /\ kind \in RetryKinds
    /\ req[r].tries < req[r].maxRetry /\ BudgetLeft(r, req[r].cur)
    /\ Becomes(r, [req[r] EXCEPT !.pc = "setup", !.last = kind,
                                 !.hist = NoteFailed(@, req[r].cur)])
    /\ UNCHANGED <<rt, envVars>>

\* Next keeps the member while the error is worth a retry and budget is left.
RetrySameMember(r, kind) ==
    /\ At(r, "inflight") /\ kind \in RetryKinds
    /\ req[r].tries < req[r].maxRetry
    /\ BudgetLeft(r, req[r].cur)
    /\ Becomes(r, [req[r] EXCEPT !.pc = "setup", !.tries = @ + 1, !.last = kind,
                                 !.att[req[r].cur] = @ + 1,
                                 !.hist = NoteFailed(@, req[r].cur)])
    /\ UNCHANGED <<rt, envVars>>

LeaveMember(r, kind, att) ==
    Becomes(r, [req[r] EXCEPT !.pc = "reload", !.tries = @ + 1, !.last = kind,
                              !.att[req[r].cur] = att,
                              !.hist = NoteFailed(@, req[r].cur),
                              !.claimed = IF @ = req[r].cur THEN NoMember ELSE @])

\* Next on upstream_reject: use up the member's budget, leave it blameless.
RejectMember(r) ==
    /\ At(r, "inflight")
    /\ req[r].tries < req[r].maxRetry
    /\ LET k == req[r].cur
       IN  /\ rt' = ReleaseProbe(RecordReject(rt, k), k)
           /\ LeaveMember(r, "upstream_reject",
                          IF BudgetLeft(r, k) THEN Body(r).attempts[k] ELSE req[r].att[k])
    /\ UNCHANGED envVars

\* Next on any other failure: score, cool down, release the probe slot.
FailMember(r, kind) ==
    /\ At(r, "inflight") /\ kind \in SwitchKinds \ {"upstream_reject"}
    /\ req[r].tries < req[r].maxRetry
    /\ kind \in RetryKinds => ~BudgetLeft(r, req[r].cur)
    /\ LET k == req[r].cur
       IN  /\ rt' = ReleaseProbe(RecordFailure(rt, k, kind, Body(r).cooldown[k],
                                               ~IsManual(r), settings, now), k)
           /\ LeaveMember(r, kind, req[r].att[k])
    /\ UNCHANGED envVars

AttemptEnds(r) ==
    \/ Success(r)
    \/ \E kind \in Outcomes :
         \/ StopOnError(r, kind)
         \/ LoopEnds(r, kind)
         \/ RetrySameMember(r, kind)
         \/ FailMember(r, kind)
    \/ "upstream_reject" \in Outcomes /\ RejectMember(r)

--------------------------------------------------------------------------------
(* The environment *)

\* PUT /lanes/{name}: new member rows (rev) and a new UpdatedAt, in seconds.
EditLane ==
    /\ Operate("edit")
    /\ \E body \in LaneBodies :
         lane' = [body |-> body, rev |-> lane.rev + 1, version |-> now]
    /\ UNCHANGED <<rt, req, up, settings, now>>

ResetLaneCircuits ==
    /\ Operate("reset")
    /\ rt' = Reset(rt)
    /\ UNCHANGED <<req, lane, up, settings, now>>

\* An operator, or the automatic ban after an error, changes a channel's status.
FlipChannel(m) ==
    /\ Operate("flip")
    /\ up' = [up EXCEPT ![m] = ~@]
    /\ UNCHANGED <<rt, req, lane, settings, now>>

SetCircuitOptions ==
    /\ Operate("options")
    /\ settings' \in SettingsChoices
    /\ UNCHANGED <<rt, req, lane, up, now>>

Tick ==
    /\ now < MaxNow
    /\ now' = now + 1
    /\ UNCHANGED <<rt, req, lane, up, settings, budgets>>

--------------------------------------------------------------------------------
Selects(r) ==
    \/ PickAffinity(r) \/ PickByPriority(r) \/ PickManual(r) \/ PickNone(r)
    \/ MarkCurrentMember(r) \/ NoMemberLeft(r)

Proceeds(r) ==
    \/ ApplyRoute(r) \/ Prune(r) \/ Reload(r) \/ ReloadFails(r)
    \/ Selects(r)
    \/ ChannelReady(r) \/ ChannelUnavailable(r) \/ GiveBackProbe(r)
    \/ RelayRefusesRequest(r) \/ StubHandler(r)
    \/ AttemptEnds(r)

Environment ==
    \/ EditLane \/ ResetLaneCircuits \/ SetCircuitOptions \/ Tick
    \/ \E m \in Members : FlipChannel(m)

Next ==
    \/ \E r \in Requests : Arrive(r) \/ Proceeds(r)
    \/ Environment

Spec == Init /\ [][Next]_vars

\* Every goroutine is scheduled, and every attempt ends: each one runs under the
\* member's response timeout (routing-spec section 8).
FairSpec == Spec /\ \A r \in Requests : WF_vars(Proceeds(r))

--------------------------------------------------------------------------------
(* Types *)

Snapshot == [body : LaneBodies \cup {UnconfiguredBody}, rev : Int, version : Int,
             pin : MemberOrNone]

RequestState ==
    [pc : {"idle", "apply", "prune", "reload", "pick", "mark", "exhausted", "setup",
           "giveback", "inflight", "done"},
     name : MemberOrNone, endpoint : Endpoints \cup {"relay"}, snap : Snapshot,
     cur : MemberOrNone, chosen : MemberOrNone, claimed : MemberOrNone,
     att : [Members -> Nat], hist : [Members -> SUBSET Status],
     inRelay : BOOLEAN, tries : Nat,
     maxRetry : {MaxRetriesForLoop(body) : body \in LaneBodies \cup {UnconfiguredBody}} \cup {0},
     last : Kinds \cup {"none"}, result : Results]

Runtime ==
    [current : MemberOrNone, probe : MemberOrNone, affinityUntil : Int, armed : BOOLEAN,
     cooldowns : [Members -> Int], circuits : [Members -> Circuit], laneDown : BOOLEAN,
     signature : Snapshot, prunedSet : SUBSET Members, prunedVersion : Int]

\* The member a request is heading for or talking to.
Target(r) == IF At(r, "mark") THEN req[r].chosen ELSE req[r].cur
Selected(r) == req[r].pc \in {"mark", "setup", "giveback", "inflight"}

\* Every variable holds what the code can store in it, and a request that has
\* selected a member knows which one.
TypeOK ==
    /\ rt \in Runtime
    /\ req \in [Requests -> RequestState]
    /\ \A r \in Requests : Selected(r) => Target(r) \in Members
    /\ lane \in [body : LaneBodies, rev : Int, version : Int]
    /\ up \in [Members -> BOOLEAN]
    /\ settings \in SettingsChoices
    /\ now \in Int
    /\ budgets \in [arrivals : Nat, operations : Nat]

--------------------------------------------------------------------------------
(* Safety *)

\* The probe slot is never orphaned: while it is taken, some request in progress
\* records it as its claim and will give it back (route.go, comment of
\* State.ReleaseProbe: otherwise the slot is held for ever).
ProbeSlotOwned ==
    rt.probe # NoMember => \E r \in Requests : Live(r) /\ req[r].claimed = rt.probe

\* At most one request at a time holds a claim on the probe slot (routing-spec
\* section 2.2: only the claimant may return it, or single probing fails).
SingleProbe == Cardinality({r \in Requests : req[r].claimed # NoMember}) <= 1

\* No member is withheld without cause: a member that selection treats as anything
\* but available has failed since its last success.  Relates the cooldown table to
\* the circuit table across success, reset and pruning.
WithheldForCause ==
    \A m \in Members :
        AvailabilityOf(rt, m, now) # "ok" => rt.circuits[m].score > 0

\* A failure recorded on a half-open circuit opens it again, whatever the kind of
\* the error (routing-spec section 5.2), because the evidence that opened it is
\* kept until a success.
ReopenOnProbeFailure ==
    [][\A m \in Members :
        (rt.circuits[m].state = "half_open"
           /\ rt'.circuits[m].score > rt.circuits[m].score)
        => rt'.circuits[m].state = "open"]_vars

\* The backoff of an outage never gets shorter from one opening to the next
\* (openCircuit: open_seconds doubles per opening up to a cap).
BackoffNeverShrinks ==
    [][\A m \in Members :
        LET c == rt.circuits[m]
            d == rt'.circuits[m]
        IN  (c.state = "half_open" /\ d.state = "open")
            => d.openUntil - d.openedAt >= c.openUntil - c.openedAt]_vars

\* The attempts chain explains the selection: every member tried before the one a
\* request selected, and every member when none is left, has a record (routing-spec
\* sections 4.2 and 9: why was the first member not used).
SelectionExplained ==
    \A r \in Requests : ~IsManual(r) =>
        LET order == Order(req[r].snap)
            hist == req[r].hist
        IN  /\ Selected(r) => \A i \in DOMAIN order : order[i] = Target(r) =>
                  \A j \in 1..(i - 1) : hist[order[j]] # {}
            /\ At(r, "exhausted") => \A m \in ChainSet(Body(r)) : hist[m] # {}

\* A request whose members are used up is answered 503, never with the error of
\* its last upstream (route.go, comment of MaxRetriesForLoop; routing-spec 4.2).
NoRawUpstreamError == \A r \in Requests : req[r].result # "raw"

\* A running or armed affinity window belongs to a current member: pruning and
\* resetting never leave one behind for a member that is gone.
AffinityHasHolder ==
    rt.affinityUntil # 0 \/ rt.armed => rt.current # NoMember

--------------------------------------------------------------------------------
(* Liveness *)

\* Every request is answered (routing-spec section 4.2: no hanging).
RequestsAnswered == \A r \in Requests : Live(r) ~> ~Live(r)

\* A taken probe slot is always given back.
ProbeSlotFreed == rt.probe # NoMember ~> rt.probe = NoMember

================================================================================
