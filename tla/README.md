# PowerBar Rations: TLA+ models of the gateway and its console

PowerBar Rations is a single-process gateway in front of LLM upstreams. A client
names a *lane*; a lane is an ordered chain of *members* (a channel and an upstream
model), and the gateway tries the members in order until one answers. What makes
it a system, and not a proxy, is the state kept between requests: cooldowns,
circuit breakers, one probe slot per lane and an affinity window, all shared by
concurrent requests while operators edit the lane. Beside it, background tasks run
under leases in the database, webhooks announce outages, and a single-page console
keeps its own picture of all this in every open tab.

This directory holds TLA+ modules of these parts, TLC configurations that check them
on small instances, and proofs, checked by TLAPS, for every instance.
`PROJECT.json` maps each definition to the lines it models.

Check a run with `tlc -workers 2 -config <cfg> <MC module>`, the proofs of a module with
`tlapm <module>.tla`: `Induction` and the modules whose names end in `Proofs`.

## 1. Inventory

Paths are relative to `src/`. *M* is modelled, *P* is planned, *-* is left out.

| | Component | State | Operations | Correct when |
|-|-----------|-------|------------|--------------|
| M | Lane runtime, `internal/route/runtime.go` | per lane: current member, probe slot, affinity window, cooldowns, circuits, signature and member set last applied | take and return a probe, record success, failure or refusal, mark current, reset, prune | a probe slot is never orphaned and never shared; a member is withheld only because it failed; backoff grows and a failed probe reopens |
| M | Request routing, `internal/route/route.go` | per request: snapshot of the lane, attempts per member, claim on the probe slot, attempts chain | NewState, Next, reload, select by priority, affinity or hand, report unavailable, finish | each selection explained; budgets respected across hot reload; exhaustion is a 503 |
| M | Relay loop, `middleware/pbr_route.go`, `controller/relay.go`, `router/relay-router.go` | retry counter and its bound | resolve, loop, give up, answer | every request is answered and gives back what it claimed |
| M | Lane configuration, `model/lane.go`, `internal/api/lanes.go`, `route_health.go` | lane and member rows | save, resolve, reset circuits; delete and import are *P* | a request in flight never breaks on an edit |
| M | System tasks, `model/system_task.go`, `service/system_task.go` | task rows, one lock row per type, handler goroutines | create, claim, renew, expire, finish, crash | one runner per task, outcomes final, no type blocked for ever |
| P | Error classification, `route.go` `Classify` | none | status and message to kind | agrees with routing-spec 4.1 |
| M | Webhook delivery, `internal/webhook`, `internal/api/webhooks.go` | bounded queue, storm table, deliveries under way, log | enqueue or drop, dispatch, post, retry, test, replace targets | no repeat within the window and nothing else withheld; one conclusion per delivery; targets do not hold each other up |
| M | Console session, `internal/session`, `middleware/pbr_auth.go`, `web/src/lib/auth-*.ts`, `http-client.ts`, `pbr-auth.ts`, `web/src/routes` | one cookie per browser, in every tab a bundle, a refresh, a guard | refresh, 401 and retry, sign in and out, navigate, tell other tabs | sign-out is final, a dead session is noticed, a login holds, every navigation ends |
| M | Playground, `web/src/features/playground` | messages, queued updates, generation, buffer, stored copy | send, stop, edit, regenerate, delete, load, save, leave | an answer is its own request's, whole and saved; nothing stays pending |
| M | Lane view, `web/src/lib/route-events.ts`, `features/routes/hooks/use-lane-runtime.ts`, `internal/api/route_events.go`, `route_health.go` | last frame, query cache, request under way, reconnect loop | connect, receive, back off, poll, leave and return | what is shown is recent while polls are answered, does not go back, catches up |
| P | Upstream burst detector, `internal/events` | ring of events, sliding window | append, observe | one burst is announced once |
| P | Channel status, automatic ban, multi-key polling, `model/channel*.go` | status in cache and table, polling cursor | update, ban, re-enable, next key | the two copies agree |
| P | Rate limiters, `middleware/*rate-limit.go` | windows per key | admit or refuse | never more than the limit per window |
| P | Codex credential refresh, `service/codex_credential_refresh*.go` | a rotating token | read, refresh, write | the stored token is the newest |
| P | Performance metrics, `pkg/perf_metrics` | hot buckets | add, drain, delete | no sample lost |
| P | Settings, import and export of configuration | option rows | save, import | |
| - | Client keys and lane policy | rows | pure check before routing | |
| - | Request logs and statistics | log rows | written once, then queried | |
| - | Upstream adapters, `relay`, `relaykit` | none shared | translate formats | data, not control |
| - | Other pages of the console, `web/src/features` | forms and tables | | user interface over the API |

**Interactions.** `Distribute` calls `PBRServe`, which resolves the name, builds a
request state and selects the first member; `Relay` sends attempts and calls `Next`
between them. All requests of a lane, and the reset endpoint, share one `Runtime`
behind one mutex, taken several times per selection. Configuration is read from the
database before every selection and applied to the shared runtime by whichever
request read it. Channels are enabled and disabled by operators and by the ban that
follows an error. Tasks touch the rest only through the database. A runtime appends
its events under its mutex and hands each to the webhook queue without blocking; one
worker takes them to the targets. The console reads the gateway through its HTTP API:
the routes page from an event stream and a poll, every page with the session cookie,
which the server may order the browser to drop in any answer; tabs talk to each other
over a BroadcastChannel. The playground calls the model endpoints with a client key.

**Hard behaviours.** Requests interleave between the critical sections of one
selection; an attempt may last minutes, while cooldowns run out, lanes change and
circuits are reset; requests holding an older configuration write to the runtime
after newer ones; every exit path must return the probe slot; leases expire while
their holder is delayed between two statements, and the process may die between
any two. A target that never answers must not stop the worker. In the console every
`await` is a place where another tab, another answer or the user may come in between,
and React runs an update now or at the next render. `PROJECT.json` lists each hazard at its line.

## 2. Modules

| Module | Models |
|--------|--------|
| `LaneRuntime` | the methods of `Runtime`, as operators from one runtime to the next |
| `LaneRouting` | requests, relay loop, operators and clock over one `LaneRuntime` |
| `MCLaneRouting` | two members, lane bodies and circuit settings for TLC |
| `LaneRoutingProofs` | theorems about `LaneRouting`: types, causes, affinity, the probe slot |
| `LaneFailoverProofs` | theorems about `LaneRouting`: selection, circuits, the loop bound |
| `SystemTasks` | task rows, the lock row of one type, runner processes and their goroutines |
| `MCSystemTasks` | symmetry for TLC |
| `TaskQueue` | abstract specification: what the tasks of one type promise |
| `SystemTasksProofs` | theorems about `SystemTasks`, the refinement among them |
| `Webhook`, `MCWebhook` | lane events, queue, worker, storm window, deliveries |
| `WebhookProofs` | theorems about `Webhook` |
| `ConsoleSession`, `MCConsoleSession` | cookie, tabs, refresh, guards, login and sign-out |
| `ConsoleSessionProofs` | theorems about `ConsoleSession` |
| `Playground`, `MCPlayground` | one conversation, its request, React and storage |
| `PlaygroundProofs` | theorems about `Playground` |
| `LaneView`, `MCLaneView` | event stream and poll of the routes page |
| `LaneViewProofs` | theorems about `LaneView` |
| `Doubling` | the factor of an exponential backoff, for circuits and for the event stream |
| `Induction` | induction and recursion over the natural numbers, and what `Doubled` computes |

### LaneRuntime and LaneRouting

`rt` is the `Runtime`; `req[r]` is the request state together with the place the
request has reached (`pc`); `lane` is the lane's row with `rev` for the identity of
its member rows and `version` for `UpdatedAt`; `up[m]` says whether the member's
channel is enabled; `settings` are the circuit options.

One action is one critical section of the runtime mutex with the request's private
work around it. A request goes

    Arrive -> ApplyRoute -> Prune -> Pick... -> MarkCurrentMember -> ChannelReady
           -> attempt -> RetrySameMember | FailMember | RejectMember -> Reload -> Pick...
           -> Success | StopOnError | LoopEnds | NoMemberLeft

with `ChannelUnavailable`, `GiveBackProbe` for disabled channels and
`RelayRefusesRequest`, `StubHandler` for requests that end before they are sent.
Choosing and marking are two actions because the code takes the lock twice; so are
applying a signature and pruning. Operators are `EditLane`, `ResetLaneCircuits`,
`SetCircuitOptions`, `FlipChannel`.

Abstractions:

- A member is its runtime key. Failure scores are in tenths, rates are fractions.
- An attempt is its outcome: success or one of the kinds `Classify` returns.
- The snapshot is its own signature, since the code builds the signature from every
  field that selection reads, member row ids (`rev`) and the requested name (`pin`)
  included.
- The attempts chain is the set of statuses noted per member (`hist`); this is what
  `recordSkipLocked` looks up and what explains a selection.
- A disabled lane, a deleted lane and an unknown name resolve to the same empty route.
- Time is in seconds, as in `UpdatedAt`; the clock moves between any two actions, so
  an attempt lasts as long as the run allows. Deadlines that the code keeps with more
  precision compare the same way.
- A request of the model may be reused after its answer; its state starts afresh.

### SystemTasks

A *runner* is one start of a process with its own runner id, so a crash and a restart
are `Crash` of one and `StartRunner` of another. No operation is a transaction: one
action is one database statement, with the clock reading taken when its operation
began. Every statement may fail (`PassFails`, `AbandonClaim`, `RenewalFails`,
`HandlerStops`, the failing branch of a release). `systemTaskLockUntil` and the
operation's own `now` are one reading. Task types share neither rows nor locks, so
one type is modelled. A task row is its status and `locked_by`; a handler is whether
it ends, and how.

`TaskQueue` says the same without locks and clocks: a task is submitted when none is
pending or running, claimed once, concluded by its handler or failed from outside.
`KeepsPromise` maps `row` to the task rows and `work` to the runners whose goroutine
has not recorded an outcome yet (`Working`).

### Webhook

`NoteLaneUnavailable`, `RecordSuccess` and `Reset` are the lane events of
`runtime.go`; with the lane's health itself left out, an outage may begin and end at
any time. `EnqueueEvent` is the hook that drops at a full queue, `Dispatch` one round of
`workerLoop`, `PostSucceeds` and `PostFails` one attempt of `deliver`. Stamps are kept as
ages, which stop at the window. Member and channel events take the same path under
other keys and are left out. `Restart` loses all but options and log.

### ConsoleSession

A cookie is the generation of the administrator credential that signed it; it is valid
when that is the current one, since the server keeps no table of sessions. Each tab is
a record: the bundle it believes in, the route and its guard, the one refresh promise,
one API request, and the form or dialog under way. A request is answered by the server
when it is sent, and the answer, with its order to drop the cookie, acts in a later
step. `authEpoch` is the flag `current` of the running refresh. `hasLocks` chooses
whether `navigator.locks` exists (not over plain HTTP). A reload, or the redirect of
`http-client.ts`, loads the page anew and loses everything in memory.

### Playground

`view` has the rendered messages, the queue of updates React has not run, the
`latestMessagesRef` and whether a save is due. An update given while nothing is pending
runs at once or later, as React pleases; it compares its generation with
`requestGenerationRef` when it runs. Clicks are rendered when they return, network
events and timers later (`Render`). A text is a sequence of signs, each with the request it
came from; the upstream answers request `g` with one of the sequences of words in
`Answers[g]`, over a small alphabet. `Joined` is the comparison of
`mergePendingStreamChunk` and `getAppendableChunk`: a piece that starts with the text
before it is taken for a repetition of it, and only the rest is added. Keys are fresh
numbers. What
React does with pending updates, and what a deletion keeps, are recursive functions, so
that the proofs reach them.

### LaneView

Snapshots are numbered by the state of the lane they show and carry the time since they
arrived. 0 is data that lacks the lane: a frame lists only lanes with a runtime
(`listed`; none after a restart, until a request or a poll of the lane's health makes
one), and a poll drops a lane whose request failed. `Shown` lets one source lead and the
other fill in. The page computes "now" from the last frame and the last poll, so `gap`
moves only when one of the two arrives. A frame may be under way for any time, and the
stream may be open and silent.

`cache` is the query cache of the application, by the set of lanes polled. It outlives the
page: who returns, or shows a former set of lanes again, sees its data at once unless it was
collected, and it is fetched anew if it is stale. The poll's timer does nothing in a hidden tab.
A request has no timeout and may be under way for ever; the polls of one lane share it
(`waiting`). `onTime` is a history variable: since some poll was answered on time, the page has
stayed visible and no poll has been under way for longer than `OnTime`.

## 3. Runs

| Run | Expect | Checks |
|-----|--------|--------|
| `failover` | pass | `ProbeSlotOwned`, `SelectionExplained`, `NoRawUpstreamError`, `ReopenOnProbeFailure`, `BackoffNeverShrinks` |
| `reconfigure` | pass | `TypeOK`, `WithheldForCause`, `SelectionExplained`, `AffinityHasHolder` |
| `liveness` | pass | `ProbeSlotOwned`, `RequestsAnswered`, `ProbeSlotFreed` |
| `lease_restart` | pass | `RunningTaskIsLeased`, `LiveLeaseRespected` |
| `lease_nodes` | pass | `TypeOK`, `OneRunnerPerTask`, `OutcomeIsFinal`, `LiveLeaseRespected`, `KeepsPromise` |
| `webhook` | pass | `TypeOK`, `OneConclusion`, `OncePerWindow`, `WithheldOnlyAsRepeat`, `TargetsIsolated` |
| `console_session` | pass | `TypeOK`, `SignOutSticks`, `DeadSessionNoticed`, `NavigationEnds` |
| `playground` | pass | `TypeOK`, `OwnAnswerOnly`, `IdleIsSettled`, `WholeAnswer`, `NothingUnsaved`, `GenerationEnds` |
| `lane_view` | pass | `TypeOK`, `StaleBound`, `ShownForward`, `ShowsCurrent` |
| `single_probe` | violation | `SingleProbe` |
| `stub_leak` | violation | `ProbeSlotOwned` |
| `login_holds` | violation | `LoginHolds` |

**failover** (1.3 million states): two concurrent requests, three arrivals, two
members, hard and transient errors, a clock of four. Long enough for a circuit to
open, run out, be probed, fail, open longer and be probed again, while the other
request holds an attempt from before the opening. No operator acts: the settings and
the chain are constant, which `ReopenOnProbeFailure`, `BackoffNeverShrinks` and
`NoRawUpstreamError` need (see section 4 for the last).

**reconfigure** (1.5 million states): two requests that name member `b` by alias, two
operator acts out of edit, reset and change of settings, four lane bodies: the chain
reordered with a disabled member, reduced to one member, reduced to the other. Two
requests and two acts are enough for a request with the older configuration to apply
and prune after one with the newer. Handlers that skip `Relay` take part.

**liveness** (200 thousand states): one member, two requests, a lane edited between
failover and manual mode with a budget of two, its channel flipped, errors that are
retried, refused or the client's.

**lease_restart**: two process starts, one alive at a time, two tasks, lease of one
second and a clock of five: a crash at any statement, a restart, an expired lease
found by clean-up or taken over, a second task. **lease_nodes**: both alive at once,
clock of three; also checks the refinement of `TaskQueue`.

**webhook** (280 thousand states): one lane, two targets of which `t2` need not answer,
three events, a queue of one (so that it overflows), a storm table of two keys (so that it
is full and swept), a window of one tick, one retry, two configurations, one restart.

**console_session** (269 thousand states): two tabs, both freshly opened or both in
use, a cookie that is alive or dead, one change of password, two moves of user, clock
or network, one event on its way per pair of tabs. Two moves are a sign-out or a login
that meets a lost answer, a password change or a reload; refreshes, requests, answers
and events beside them are not bounded.

**playground** (668 thousand states): three acts of the user, two pieces per answer,
at most three updates between two renders; storage starts with an interrupted answer. The
second piece differs from the first, repeats it, or begins with it, so that pieces meet in
the buffer and in the message in each way `Joined` tells apart.

**lane_view** (638 thousand states): two sets of lanes; window, poll interval, freshness of
the cache, reconnect delay and `OnTime` of one tick each (the delay is at its cap from the
first attempt on, so attempts need not be counted); two states of the lane, the second
by a change or by a restart; one move of the user (other lanes, leave and return, hide the
tab). Ages are counted up to `Bound + 1`, so that every comparison with the window and with
the bound goes both ways: a request answered on time and late, cached data fresh, stale and
collected, a stream silent for less and for more than the window.

Deadlock is not checked where arrivals, acts, tasks and the clock are bounded and the
system may come to rest at the bounds (all runs but `webhook` and
`lane_view`). What is not allowed to
stop is stated by the liveness properties.

**Fairness.** `FairSpec` assumes weak fairness of each request's own steps: a
goroutine is scheduled, and an attempt ends because it runs under the member's
response timeout (routing-spec section 8). Nothing is assumed of operators, of the
clock, of the outcome of an attempt or of which error it ends with.

`Webhook` assumes that the worker runs, that time passes, and that a post to a target
in `Reachable` comes back (`httpClient` has a timeout of 8 s) with any answer; of other
targets nothing. `ConsoleSession` assumes that the browser runs continuations and
delivers events, and that requests are answered. It does not assume that a page sends any:
few of them poll, and an idle tab of a dead session stays as it is. `DeadSessionNoticed`
therefore speaks of tabs whose requests are refused time and again. `Playground` assumes
that React catches up with what is due to be rendered (`[]<>~RenderDue`) and that a request
ends or fails, unless its response ended silently. `LaneView` assumes that time passes and
timers fire, and that not every poll fails or hangs (strong fairness of `PollServed` and
`PollArrives`); of the stream nothing is assumed.

## 4. Findings

Places where the code does something else than its comments or documents say. Each
is a run whose counterexample TLC finds.

- **single_probe.** `Next` returns the probe slot of the member it leaves, whoever
  took it. A request whose attempt began before the cooldown frees the slot of the
  one probing, and a second probe is let in. Routing-spec 2.2 forbids it.
- **stub_leak.** The routes that end in `RelayNotImplemented`, and a failed websocket
  upgrade, leave a claimed slot taken.
- **login_holds.** A 401 for a dead cookie, or a stale session answer, orders the
  browser to drop the cookie by name. When it arrives after a new login, it is the new
  cookie that is dropped. Token-spec 2.5.1 has the login replace the old cookie for good.

Observations without a run of their own, each in the hazards:

- The affinity branch accepts a member that is due for a probe without taking the slot
  (route.go:652), though routing-spec 2.2 lets one probing request through.
- The loop bound is computed on entry; a lane that grows meanwhile ends the loop on the
  upstream's own error instead of a 503 (relay.go:238). `NoRawUpstreamError` is
  therefore checked with a constant chain.
- Clean-up reads a lease as expired, a delayed renewal revives it, and the task is
  failed all the same (system_task.go:369).
- With two live processes a claim that stalls for longer than a lease can leave a running
  task without a lock row, so `RunningTaskIsLeased` is claimed for one live process, the
  documented deployment (docs/design-v1.md 1.5).
- A threshold raised while a circuit is half open lets a light failure leave it half
  open; a request that holds the older of two configurations saved in one second is not
  recognised as stale when it prunes.
- A lane that goes down, recovers and goes down again within a minute ends, for a
  webhook target, on its recovery: the second outage is a repeat.
- A streamed answer that ends with status 200 and without `[DONE]`, and a message
  submitted without a client key while another is generated, leave the playground busy
  until the user stops it; `GenerationEnds` names both. An edit saved before the end of
  an answer was rendered writes the unfinished answer back ("clobbered"); a stop can drop
  the piece it flushes. A word that the model says twice at the start of its answer, or
  twice within the 50 ms of one flush, may be shown once: it looks like a repetition
  (use-chat-handler.ts:56, message-streaming-utils.ts:73).
- While the reconnect loop sleeps, the stream still counts as open, for at most the
  window after the next poll. A failed poll hides the lane unless the stream has it, and
  the last frame is then shown whatever its age. A poll that was under way for longer than
  the window takes the page back when it arrives, and so does a frame that a poll overtook.
  Who returns to the page sees the data of the last visit until the first poll or frame,
  and a hidden tab keeps what it has; `StaleBound` and `ShownForward` name these cases.

## 5. Proofs

Each theorem holds for every value of the constants that the named assumptions admit, so
for any number of members, requests, runners, targets or tabs and any bounds. Where it
needs more, the hypothesis is in its statement and is named here with the reason.

### Lanes

`LaneRoutingProofs` proves

- `TypeCorrect`: `Spec => []TypeOK`;
- `MembersWithheldForCause`: `Spec => []WithheldForCause`;
- `AffinityAlwaysHeld`: `Spec => []AffinityHasHolder`;
- `ProbeSlotAlwaysOwned`: `Spec => []ProbeSlotOwned`, if every route behind
  `Distribute` ends in `Relay` (`Endpoints = {"relay"}`; the finding `stub_leak`
  shows that the condition is needed).

The inductive invariant `IInv` has three parts. `RuntimeInv` adds two facts to the
runtime's type: a circuit that is not closed, or a cooldown that is set (expired or
not), has a positive score (`Caused`; `WithheldForCause` itself speaks of the clock and is
not inductive), and an open or armed window has a holder (`Held`). One lemma per
method of `Runtime` shows that the method preserves them. `RequestsInv` says what a request at each place
knows: the member it selected, and that a claim on the probe slot is always for that
member and only until the request leaves it. Without it, `ProbeSlotOwned` is not
preserved when a request frees a slot or starts over. `EnvInv` types the
environment. One lemma per action shows that it preserves `IInv`, and a second pass
over the actions, given `IInv`, proves `ProbeSlotOwned`.

`LaneFailoverProofs` builds on that. One lemma per step says what it does to the state of
its request ("Moves"), and `StepMovesCircuits` what any step does to any circuit: nothing,
close it, make it half open, or record a failure of some kind. From these:

- `SelectionAlwaysExplained`: `Spec => []SelectionExplained`. The invariant `Explained`
  adds that a member which the request has attempted is recorded unless it is the one in
  hand. That is what a traversal relies on when it passes a member whose budget is used
  up without noting it. It is also why a reload may forget the attempts at members that
  left the chain but never the records. Naming a member by alias moves it to the front
  of the order; `OrderLists` shows that this keeps every member, once, which rests on
  `DistinctAssumption` (a lane with a duplicate member is refused).
- `FailedProbeReopens`: `Spec => ReopenOnProbeFailure`, if operators leave the circuit
  settings alone (`"options" \notin Operations`). The invariant is that a circuit that is
  not closed still shows the evidence that opened it, by score or by failure rate. The
  rate is the interesting half: the window drops its oldest outcome with each new one, and
  `FailureKeepsWindow` shows that a failure never lowers the rate of a window that has
  reached it, full or not. A raised threshold takes the evidence away (section 4), so the
  hypothesis is needed.
- `BackoffGrows`: `Spec => BackoffNeverShrinks`, under the same hypothesis and one about the
  configuration, `SteadyBase`: the base times that one member can meet differ by at most a
  factor of two. They differ at all because an unavailable channel is recorded with the
  lane's cooldown and an error with the member's, doubled if it is hard. With
  `open_seconds` set they are the same. Without it, a lane cooldown of more than twice the
  member's can make the second opening of an outage the shorter one. The invariant bounds
  the current opening by the doubled base and by the cap.
- `NoRawErrorLeaks`: `Spec => []NoRawUpstreamError`, if the lane is not edited (`"edit"
  \notin Operations`; section 4 says what an edit does). The invariant `Spare` counts: a
  request has been round the loop no more often than it has selected or retried members,
  less often while it has one in hand, and each member at most as often as its budget
  allows; the bound is the sum of the budgets. `SumGrows` (a sum grows with its terms, and
  strictly with one of them) is by induction over the chain.

### Tasks

`SystemTasksProofs` proves

- `TaskTypeCorrect`: `Spec => []TypeOK`;
- `TaskRunsOnce`: `Spec => []OneRunnerPerTask`;
- `OutcomeRecordedOnce`: `Spec => OutcomeIsFinal`;
- `TasksKeepPromise`: `Spec => KeepsPromise`, that is, `SystemTasks` implements
  `TaskQueue`;
- `LeasesAreRespected`: `Spec => LiveLeaseRespected`;
- `RunningTaskKeepsLease`: `Spec => []RunningTaskIsLeased`, for one live process at a time
  (`MaxLive = 1`, the documented deployment; section 4 says why it fails for two).

The key is `JobsInv`: whoever has a goroutine for a task is the runner its row names,
and the task is past pending. Since only a pending task is started, a second runner
never gets that far, whatever happens to the lock: the proof shows that executing once
rests on the status check of the claim and not on the lease. `ResultsInv` and
`ClaimsInv` say that a goroutine about to record has an outcome and a claim a task.

The refinement takes one lemma per action: a statement that starts a task is a `Claim`,
one that records an outcome a `Conclude` or an `Expire`, a goroutine or a process that
ends is a `Leave`, and every other statement leaves rows and `Working` as they are. It
needs `JobsInv` (the recording goroutine is the runner its row names, and the only one)
and `ResultsInv` (what it records is an outcome).

`LeasesAreRespected` needs only that every operation compares with a clock reading that is
past (`ReadingsInv`): the statements that remove or replace the lock row check the expiry
again. `RunningTaskKeepsLease` needs `SingleInv`: one process is up, one task is active,
a claim from the lock on holds the lock for a task that is still pending, a clean-up
about to delete a row has failed its task, and a goroutine about to release has recorded
its outcome. The two orders in which `ClaimSystemTask` and `FinishSystemTask` write are
exactly what `ClaimsHeld` and `ReleasesDone` say.

### Webhooks

`WebhookProofs` proves `WebhookTypeCorrect` (`TypeOK`), `DeliveryConcludedOnce`
(`[]OneConclusion`), `NoAlertTwiceInWindow` (`OncePerWindow`) and
`AlertsWithheldOnlyAsRepeats` (`WithheldOnlyAsRepeat`). `OneConclusion` needs that events are numbered as they
are published, that what waits in the queue has neither deliveries nor log rows, and that
there is one goroutine for an event and a target. The other two need `StormTable`: a key
in the table has the age that the history has, and a key that is not in it was not sent
within the window. The second half is the point: it says that the sweep of a full table
removes only what it may forget.

### Console

`ConsoleSessionProofs` proves `SessionTypeCorrect` (`TypeOK`) and `SignOutHolds`
(`[]SignOutSticks`). The invariant adds that while a sign-out holds the browser has no
cookie and the tab is not waiting for a current answer that says there is a session
(`StaysOut`).

`LaneViewProofs` proves `LaneViewTypeCorrect` (`TypeOK`), `NeverTooStale`
(`[]StaleBound`) and `NeverGoesBack` (`ShownForward`), for every window, interval, delay and
number of key sets; nothing relates the duration of a request to the window.

- `NeverTooStale`: from the first poll answered on time, and for as long as the page is visible
  and polls are answered on time and have the lane, what is shown reached the page at most
  `PollInterval + OnTime + Window` ago, whatever the stream does.
- `NeverGoesBack`: while the stream counts as connected and no frame arrives, what is shown never
  goes back, unless the last poll lacks the lane or was under way for longer than the window.

The invariant says that nothing is from the future (`Past`), that a poll waits only for a
request that is under way (`Awaited`), and that the gap is at most the age of the frame
(`GapKept`). `Served` orders an answer under way: it is no earlier than what is in the
cache, since requests are shared, and no earlier than a frame that arrived before it was
asked for. `Timely` ties the timer of the poll to the ages of data and frame, and is what
`StaleBound` needs to survive a tick. The types include that the sleep between two
connections never exceeds its cap, for any number of failed attempts.

`PlaygroundProofs` proves every invariant that the run checks:

- `PlaygroundTypeCorrect`: `Spec => []TypeOK`;
- `AnswersAreTheirOwn`: `Spec => []OwnAnswerOnly`;
- `EverythingSaved`: `Spec => []NothingUnsaved`;
- `IdlePageSettles`: `Spec => []IdleIsSettled`;
- `AnswersWhole`: `Spec => []WholeAnswer`.

None of them is inductive, because all speak of a page on which every update has run.
`BaseInv` has three parts. `RequestInv` ties the request to its flags and its buffer: what
is gathered for the current generation belongs to the open source. `ViewInv` says what may
be pending (`QueueInv`): an update that ran before its render is the first one and its
result the latest messages; every other one was made by a callback of the current
generation. It also says that while the page is busy each list ends with the answer of the
current generation, which no earlier message belongs to and whose editor is not open, and
that on a page that is not busy nothing is pending but the load. So an updater that runs
late finds its own answer, or a newer generation, and then changes nothing
(`RenderedStale`). `SavedInv` says that without a save due, storage has the latest messages.

For the last two theorems `Outcome` is the list that the pending updates lead to.
`OutcomePush` shows that `setMessages` adds its updater to the outcome whether React runs
it at once or not, and `OutcomeIs` that a render shows the outcome; with these the choice
and the time of the render drop out of the argument. `SettledInv` says that of the outcome
at most the last message is pending, exactly as long as its request is open, and of each
other list at most the last. The latter is what `sanitizeMessagesOnLoad` relies on, which
repairs one message. `WholeInv` says that every piece that arrived is found in the last
answer of the outcome or in the buffer, which together are not longer than what arrived
(`Full`). `JoinedText` is the lemma behind it: whatever the comparison of prefixes takes for
a repetition, all that is found in either text is found in the joined one, which is not
longer than both. It also keeps the finished answers whole in the
lists that a click or a new visit takes up again. Both exclude a page on which an edit
was saved from an old render, as the properties do (section 4).

### Induction

The induction theorems of the library take an operator as a parameter, which the installed
provers cannot instantiate. `Induction` states them with sets and functions: `SetInduction`
(by the well-foundedness of `<`) and `RecursionExists`, that a function defined by recursion
over the naturals exists and follows its definition. What `Doubled` and `SumOver` compute
for every argument is proved from these, and what a render makes of any number of pending
updates (`RenderedIn`, `OutcomeUnique`).

Assumptions are those named in the modules: `NoMember` and `NoRunner` are not
members or runners, bodies, settings and outcomes are well formed, a lane has no member
twice, bounds are natural numbers, the lease time and the poll interval are positive, and
the answers of the playground's upstream are sequences of non-empty words
(`AnswersAssumption`).

**Model-checked only.** `RequestsAnswered`, `ProbeSlotFreed`, `TargetsIsolated`,
`DeadSessionNoticed`, `NavigationEnds`, `GenerationEnds` and `ShowsCurrent` are liveness
under fairness, out of the prover's reach. Every other property of a passing run is a
theorem.

## 6. Plan

1. An abstract failover specification (a request visits members within budget and
   answers) for `LaneRouting`.
2. `Classify` and the burst detector as operators against reference tables.
3. `ChannelStatus` (cache and table, automatic ban, polling cursor), `CodexRefresh`,
   `PerfMetrics` and the rate limiters as small modules; the registry with removal and
   re-creation of a lane's runtime.

## 7. Not modelled

Upstream adapters and format conversion (data, per vendor). The pages of the console
that are forms and tables over the API (channels, keys, logs, settings) and its design
system: by lines they are most of the repository, and they keep no state that outlives
a request but what the server holds. Logs and statistics (written at the end from
modelled state, then queried), client keys (a pure check in front of routing). Within
the modelled parts: the ring of recent events, member and channel events, the health
snapshot, the probe endpoint of the console, validation of payloads, the payload and
progress of tasks, webhook bodies and signatures, first set-up and login backoff, the
bearer key of scripts, reasoning (the `<think>` part of a text included) and timing of
playground messages, and two tabs that share the playground's storage.
