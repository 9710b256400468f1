------------------------------ MODULE SystemTasks ------------------------------
(***************************************************************************)
(* Background tasks of one type under a database lease (service and model  *)
(* system_task.go).  A runner is one start of the server process, with its *)
(* own runner id: its loop creates due tasks, expires stale leases and     *)
(* claims pending tasks; each claimed task runs in a goroutine of its own, *)
(* a second goroutine renewing the lease.                                  *)
(*                                                                         *)
(* No operation is a transaction: each one reads the clock, then runs one  *)
(* database statement after another, and a runner may be delayed or crash  *)
(* between any two.  One action is one statement; the clock reading it     *)
(* compares with is the one taken when its operation began.  Task types    *)
(* share nothing, so one type is modelled.                                 *)
(***************************************************************************)
EXTENDS Integers, FiniteSets

CONSTANTS
    Runners,       \* runner ids, one per start of a process
    NoRunner,      \* locked_by of a task nobody claimed
    MaxLive,       \* processes that run at the same time
    MaxTasks,      \* bound: task rows, numbered in the order of creation
    TTL,           \* systemTaskLockTTL
    MaxNow         \* bound: clock

ASSUME RunnerAssumption == NoRunner \notin Runners
ASSUME TaskBoundAssumption == {MaxLive, MaxTasks, MaxNow} \subseteq Nat
ASSUME TTLAssumption == TTL \in Nat \ {0}

VARIABLES
    tasks,   \* system_tasks: status and locked_by of every row
    lock,    \* the system_task_locks row of the type, or NoLock
    loop,    \* each runner's loop
    job,     \* each runner's handler goroutines, with their heartbeat
    now      \* clock, in seconds

vars == <<tasks, lock, loop, job, now>>

Tasks == 1..MaxTasks
NoTask == 0

\* NoRow is a row not inserted yet.
Row == [status : {"absent", "pending", "running", "succeeded", "failed"},
        by : Runners \cup {NoRunner}]
NoRow == [status |-> "absent", by |-> NoRunner]

Lock == [task : Tasks \cup {NoTask}, by : Runners \cup {NoRunner}, until : Int]
NoLock == [task |-> NoTask, by |-> NoRunner, until |-> 0]

\* t: the clock reading of the operation in progress; seen: the lock row it read.
Loop == [pc : {"off", "ready", "mark", "drop", "acquire", "steal", "expire",
               "start", "undo", "crashed"},
         task : Tasks \cup {NoTask}, t : Int, seen : Lock]
At(r, pc) == loop[r].pc = pc
Ready == [pc |-> "ready", task |-> NoTask, t |-> 0, seen |-> NoLock]

\* beat: the clock reading of a renewal under way, NoBeat between two.
NoBeat == -1
Job == [phase : {"none", "run", "finish", "release", "done"},
        beating : BOOLEAN, beat : Int, t : Int, result : {"none", "succeeded", "failed"}]
NoJob == [phase |-> "none", beating |-> FALSE, beat |-> NoBeat, t |-> 0, result |-> "none"]

Active(k) == tasks[k].status \in {"pending", "running"}
Up(r) == loop[r].pc \notin {"off", "crashed"}

\* Goroutines end with their process.
Ended(j) == IF j.phase = "none" THEN j ELSE [NoJob EXCEPT !.phase = "done"]

--------------------------------------------------------------------------------
Init ==
    /\ tasks = [k \in Tasks |-> NoRow]
    /\ lock = NoLock
    /\ loop = [r \in Runners |-> [Ready EXCEPT !.pc = "off"]]
    /\ job = [r \in Runners |-> [k \in Tasks |-> NoJob]]
    /\ now = 1

LoopBecomes(r, l) == loop' = [loop EXCEPT ![r] = l]
JobBecomes(r, k, j) == job' = [job EXCEPT ![r][k] = j]

--------------------------------------------------------------------------------
(* Processes and new tasks *)

\* StartSystemTaskRunner, with a fresh runner id.
StartRunner(r) ==
    /\ At(r, "off")
    /\ Cardinality({p \in Runners : Up(p)}) < MaxLive
    /\ LoopBecomes(r, Ready)
    /\ UNCHANGED <<tasks, lock, job, now>>

Crash(r) ==
    /\ Up(r)
    /\ LoopBecomes(r, [Ready EXCEPT !.pc = "crashed"])
    /\ job' = [job EXCEPT ![r] = [k \in Tasks |-> Ended(job[r][k])]]
    /\ UNCHANGED <<tasks, lock, now>>

\* Mutant of CreateSystemTask: no unique index, and only a running task is looked for.
CreateBesidePending(k) ==
    /\ tasks[k].status = "absent" /\ \A p \in Tasks : p < k => tasks[p].status # "absent"
    /\ \A p \in Tasks : tasks[p].status # "running"
    /\ tasks' = [tasks EXCEPT ![k] = [NoRow EXCEPT !.status = "pending"]]
    /\ UNCHANGED <<lock, loop, job, now>>

\* CreateSystemTask, for the scheduler or an operator.  Both look for an active
\* task first; what decides is the unique index on active_key.
CreateSystemTask(k) ==
    /\ tasks[k].status = "absent" /\ \A p \in Tasks : p < k => tasks[p].status # "absent"
    /\ \A p \in Tasks : ~Active(p)
    /\ tasks' = [tasks EXCEPT ![k] = [NoRow EXCEPT !.status = "pending"]]
    /\ UNCHANGED <<lock, loop, job, now>>

--------------------------------------------------------------------------------
(* ExpireStaleSystemTaskLocks *)

\* MarkSystemTaskLeaseExpired: only a running task is failed.
MarkSystemTaskLeaseExpired(k) ==
    tasks' = [tasks EXCEPT ![k].status = IF @ = "running" THEN "failed" ELSE @]

FindExpiredLock(r) ==
    /\ At(r, "ready") /\ lock # NoLock /\ lock.until < now
    /\ LoopBecomes(r, [Ready EXCEPT !.pc = "mark", !.t = now, !.seen = lock])
    /\ UNCHANGED <<tasks, lock, job, now>>

\* Mutant of FailExpiredTask: the lock goes, the task stays.
LeaveExpiredTask(r) ==
    /\ At(r, "mark")
    /\ LoopBecomes(r, [loop[r] EXCEPT !.pc = "drop"])
    /\ UNCHANGED <<tasks, lock, job, now>>

FailExpiredTask(r) ==
    /\ At(r, "mark")
    /\ MarkSystemTaskLeaseExpired(loop[r].seen.task)
    /\ LoopBecomes(r, [loop[r] EXCEPT !.pc = "drop"])
    /\ UNCHANGED <<lock, job, now>>

\* Mutant of DropExpiredLock: the lease may have been renewed since it was read.
DropLockUnchecked(r) ==
    /\ At(r, "drop")
    /\ lock' = IF lock.task = loop[r].seen.task /\ lock.by = loop[r].seen.by THEN NoLock ELSE lock
    /\ LoopBecomes(r, Ready)
    /\ UNCHANGED <<tasks, job, now>>

DropExpiredLock(r) ==
    /\ At(r, "drop")
    /\ lock' = IF /\ lock.task = loop[r].seen.task
                  /\ lock.by = loop[r].seen.by
                  /\ lock.until < loop[r].t
               THEN NoLock ELSE lock
    /\ LoopBecomes(r, Ready)
    /\ UNCHANGED <<tasks, job, now>>

--------------------------------------------------------------------------------
(* ClaimSystemTask *)

\* FindEarliestPendingSystemTasks and the first query of ClaimSystemTask.
FindPendingTask(r) ==
    /\ At(r, "ready")
    /\ \E k \in Tasks :
         /\ tasks[k].status = "pending"
         /\ LoopBecomes(r, [Ready EXCEPT !.pc = "acquire", !.task = k, !.t = now])
    /\ UNCHANGED <<tasks, lock, job, now>>

Lease(r) == [task |-> loop[r].task, by |-> r, until |-> loop[r].t + TTL]

\* acquireSystemTaskLock: insert the row, or look at the one that is there.
AcquireLock(r) ==
    /\ At(r, "acquire")
    /\ lock' = IF lock = NoLock THEN Lease(r) ELSE lock
    /\ LoopBecomes(r,
          IF lock = NoLock THEN [loop[r] EXCEPT !.pc = "start"]
          ELSE IF lock.until >= loop[r].t THEN Ready
          ELSE [loop[r] EXCEPT !.pc = "steal", !.seen = lock])
    /\ UNCHANGED <<tasks, job, now>>

\* Mutant of StealLock: the update does not check again that the row is expired.
StealLockUnchecked(r) ==
    LET taken == lock # NoLock
    IN  /\ At(r, "steal")
        /\ lock' = IF taken THEN Lease(r) ELSE lock
        /\ LoopBecomes(r,
              IF ~taken THEN Ready
              ELSE [loop[r] EXCEPT !.pc = IF loop[r].seen.task = loop[r].task
                                          THEN "start" ELSE "expire"])
        /\ UNCHANGED <<tasks, job, now>>

\* acquireSystemTaskLock: take over an expired row.
StealLock(r) ==
    LET taken == lock # NoLock /\ lock.until < loop[r].t
    IN  /\ At(r, "steal")
        /\ lock' = IF taken THEN Lease(r) ELSE lock
        /\ LoopBecomes(r,
              IF ~taken THEN Ready
              ELSE [loop[r] EXCEPT !.pc = IF loop[r].seen.task = loop[r].task
                                          THEN "start" ELSE "expire"])
        /\ UNCHANGED <<tasks, job, now>>

ExpirePreviousTask(r) ==
    /\ At(r, "expire")
    /\ MarkSystemTaskLeaseExpired(loop[r].seen.task)
    /\ LoopBecomes(r, [loop[r] EXCEPT !.pc = "start"])
    /\ UNCHANGED <<lock, job, now>>

\* Mutant of StartTask: the status is not checked again.
StartTaskUnchecked(r) ==
    LET k == loop[r].task
    IN  /\ At(r, "start")
        /\ tasks' = [tasks EXCEPT ![k] = [status |-> "running", by |-> r]]
        /\ JobBecomes(r, k, [NoJob EXCEPT !.phase = "run", !.beating = TRUE])
        /\ LoopBecomes(r, Ready)
        /\ UNCHANGED <<lock, now>>

\* The task is still pending: it is running now, and its handler is dispatched
\* unless the row cannot be read back.
StartTask(r) ==
    LET k == loop[r].task
    IN  /\ At(r, "start") /\ tasks[k].status = "pending"
        /\ tasks' = [tasks EXCEPT ![k] = [status |-> "running", by |-> r]]
        /\ \/ JobBecomes(r, k, [NoJob EXCEPT !.phase = "run", !.beating = TRUE])
           \/ UNCHANGED job
        /\ LoopBecomes(r, Ready)
        /\ UNCHANGED <<lock, now>>

\* Somebody else started it, or a statement of the claim failed.
AbandonClaim(r) ==
    /\ loop[r].pc \in {"expire", "start"}
    /\ LoopBecomes(r, [loop[r] EXCEPT !.pc = "undo"])
    /\ UNCHANGED <<tasks, lock, job, now>>

\* A statement that fails before anything is locked ends the pass; the next one
\* starts over.
PassFails(r) ==
    /\ loop[r].pc \in {"mark", "drop", "acquire", "steal"}
    /\ LoopBecomes(r, Ready)
    /\ UNCHANGED <<tasks, lock, job, now>>

\* ReleaseSystemTaskLock(task, runner), the delete statement.
Released(k, r) == IF lock.task = k /\ lock.by = r THEN NoLock ELSE lock

UndoClaim(r) ==
    /\ At(r, "undo")
    /\ lock' \in {Released(loop[r].task, r), lock}   \* its error is ignored
    /\ LoopBecomes(r, Ready)
    /\ UNCHANGED <<tasks, job, now>>

--------------------------------------------------------------------------------
(* runWithLeaseHeartbeat and the handler *)

Holds(r, k, t) == lock.task = k /\ lock.by = r /\ lock.until >= t
OwnsTask(r, k, t) == tasks[k].status = "running" /\ tasks[k].by = r /\ Holds(r, k, t)

HeartbeatTick(r, k) ==
    /\ job[r][k].phase \in {"run", "finish", "release"}
    /\ job[r][k].beating /\ job[r][k].beat = NoBeat
    /\ JobBecomes(r, k, [job[r][k] EXCEPT !.beat = now])
    /\ UNCHANGED <<tasks, lock, loop, now>>

\* RenewSystemTaskLock; a lost lease cancels the handler's context for good.
RenewSystemTaskLock(r, k) ==
    LET j == job[r][k]
        held == Holds(r, k, j.beat)
    IN  /\ j.beat # NoBeat
        /\ lock' = IF held THEN [lock EXCEPT !.until = j.beat + TTL] ELSE lock
        /\ JobBecomes(r, k, [j EXCEPT !.beat = NoBeat, !.beating = held])
        /\ UNCHANGED <<tasks, loop, now>>

\* The renewal cannot reach the database: the heartbeat ends, the lease runs on.
RenewalFails(r, k) ==
    /\ job[r][k].beat # NoBeat
    /\ JobBecomes(r, k, [job[r][k] EXCEPT !.beat = NoBeat, !.beating = FALSE])
    /\ UNCHANGED <<tasks, lock, loop, now>>

\* The handler returns and nothing is recorded: a state update found the lease
\* lost, the handler panicked, or the statement that records its outcome failed.
HandlerStops(r, k) ==
    /\ job[r][k].phase \in {"run", "finish"}
    /\ JobBecomes(r, k, [job[r][k] EXCEPT !.phase = "done", !.beating = FALSE])
    /\ UNCHANGED <<tasks, lock, loop, now>>

\* Mutant of HandlerEnds: the outcome is not passed on.
HandlerEndsMute(r, k) ==
    /\ job[r][k].phase = "run"
    /\ JobBecomes(r, k, [job[r][k] EXCEPT !.phase = "finish", !.t = now])
    /\ UNCHANGED <<tasks, lock, loop, now>>

HandlerEnds(r, k) ==
    /\ job[r][k].phase = "run"
    /\ \E result \in {"succeeded", "failed"} :
         JobBecomes(r, k, [job[r][k] EXCEPT !.phase = "finish", !.t = now, !.result = result])
    /\ UNCHANGED <<tasks, lock, loop, now>>

\* Mutant of FinishSystemTask: the task is checked, the lease is not.
FinishWithoutLease(r, k) ==
    LET j == job[r][k]
        owned == tasks[k].by = r
    IN  /\ j.phase = "finish"
        /\ tasks' = IF owned THEN [tasks EXCEPT ![k].status = j.result] ELSE tasks
        /\ JobBecomes(r, k, [j EXCEPT !.phase = IF owned THEN "release" ELSE "done",
                                      !.beating = owned /\ @])
        /\ UNCHANGED <<lock, loop, now>>

\* FinishSystemTask: the update counts only while the lease is held.
FinishSystemTask(r, k) ==
    LET j == job[r][k]
        owned == OwnsTask(r, k, j.t)
    IN  /\ j.phase = "finish"
        /\ tasks' = IF owned THEN [tasks EXCEPT ![k].status = j.result] ELSE tasks
        /\ JobBecomes(r, k, [j EXCEPT !.phase = IF owned THEN "release" ELSE "done",
                                      !.beating = owned /\ @])
        /\ UNCHANGED <<lock, loop, now>>

ReleaseLock(r, k) ==
    /\ job[r][k].phase = "release"
    /\ lock' \in {Released(k, r), lock}   \* its error is only logged
    /\ JobBecomes(r, k, [job[r][k] EXCEPT !.phase = "done", !.beating = FALSE])
    /\ UNCHANGED <<tasks, loop, now>>

Tick ==
    /\ now < MaxNow
    /\ now' = now + 1
    /\ UNCHANGED <<tasks, lock, loop, job>>

--------------------------------------------------------------------------------
LoopStep(r) ==
    \/ StartRunner(r) \/ Crash(r)
    \/ FindExpiredLock(r) \/ FailExpiredTask(r) \/ DropExpiredLock(r)
    \/ FindPendingTask(r) \/ AcquireLock(r) \/ StealLock(r) \/ ExpirePreviousTask(r)
    \/ StartTask(r) \/ AbandonClaim(r) \/ UndoClaim(r) \/ PassFails(r)

JobStep(r, k) ==
    \/ HeartbeatTick(r, k) \/ RenewSystemTaskLock(r, k) \/ RenewalFails(r, k)
    \/ HandlerStops(r, k) \/ HandlerEnds(r, k) \/ FinishSystemTask(r, k) \/ ReleaseLock(r, k)

Next ==
    \/ \E k \in Tasks : CreateSystemTask(k)
    \/ \E r \in Runners : LoopStep(r) \/ \E k \in Tasks : JobStep(r, k)
    \/ Tick

Spec == Init /\ [][Next]_vars

--------------------------------------------------------------------------------
(* Properties *)

\* Every variable holds what its table or its goroutine can hold.
TypeOK ==
    /\ tasks \in [Tasks -> Row]
    /\ lock \in Lock
    /\ loop \in [Runners -> Loop]
    /\ job \in [Runners -> [Tasks -> Job]]
    /\ now \in Int

\* A task is executed by one runner only, whatever leases expire or are taken over
\* while it is being claimed (comment of runSystemTaskScheduler: "the per-type lock
\* guarantees only one runner executes the task").
OneRunnerPerTask ==
    \A k \in Tasks : Cardinality({r \in Runners : job[r][k].phase # "none"}) <= 1

\* A recorded outcome is final: no late expiry, claim or finish changes it.
OutcomeIsFinal ==
    [][\A k \in Tasks :
        tasks[k].status \in {"succeeded", "failed"} => tasks'[k] = tasks[k]]_vars

\* A lease that has not run out is given up only by the runner that holds it:
\* cleaning up and taking over check again that it is still expired.
LiveLeaseRespected ==
    [][(lock # NoLock /\ lock.until >= now /\ <<lock.task, lock.by>> # <<lock'.task, lock'.by>>)
        => \/ At(lock.by, "undo")
           \/ lock.task \in Tasks /\ job[lock.by][lock.task].phase = "release"]_vars

\* A running task has a lease to lose: the lock row names it, so that when its
\* runner dies the task is failed and its type can run again (ClaimSystemTask and
\* FinishSystemTask write the lock and the task in opposite orders).
RunningTaskIsLeased ==
    \A k \in Tasks : tasks[k].status = "running" => lock.task = k

\* The runners whose handler is at work on a task: its outcome is not recorded yet.
Working == [k \in Tasks |-> {r \in Runners : job[r][k].phase \in {"run", "finish"}}]

Promised == INSTANCE TaskQueue WITH row <- tasks, work <- Working

\* The statements of system_task.go, in whatever order the processes run, repeat or
\* lose them, keep the promise of TaskQueue: tasks run one at a time and once, and an
\* outcome comes from the handler that ran the task or from the loss of its lease.
KeepsPromise == Promised!Spec

================================================================================
