--------------------------- MODULE SystemTasksProofs ---------------------------
(***************************************************************************)
(* Theorems about SystemTasks, for every number of runners, of processes   *)
(* alive at once and of tasks, every lease time and every bound.           *)
(***************************************************************************)
EXTENDS SystemTasks, FiniteSetTheorems, TLAPS

--------------------------------------------------------------------------------
(* The inductive invariant *)

\* Whoever has a goroutine for a task is the runner its row names, and the task is
\* past pending: a second runner can then never start it.
JobsInv ==
    \A r \in Runners, k \in Tasks :
        job[r][k].phase # "none" =>
            tasks[k].by = r /\ tasks[k].status \in {"running", "succeeded", "failed"}

\* The clock reading a goroutine finishes with goes with an outcome to record.
ResultsInv ==
    \A r \in Runners, k \in Tasks :
        job[r][k].phase = "finish" => job[r][k].result \in {"succeeded", "failed"}

\* A claim under way has chosen a task.
ClaimsInv ==
    \A r \in Runners :
        loop[r].pc \in {"acquire", "steal", "expire", "start", "undo"} => loop[r].task \in Tasks

IInv == TypeOK /\ JobsInv /\ ResultsInv /\ ClaimsInv

\* An empty database and no process.
LEMMA InitIInv == Init => IInv
<1> SUFFICES ASSUME Init PROVE IInv
  OBVIOUS
<1>1. TypeOK
  BY RunnerAssumption DEF Init, TypeOK, NoRow, Row, NoLock, Lock, NoTask, Ready, Loop, NoJob, Job, NoBeat
<1> QED BY <1>1 DEF Init, IInv, JobsInv, ResultsInv, ClaimsInv, NoJob, Ready

\* What the updates of one loop and of one goroutine write.
LEMMA LoopStepInv ==
    ASSUME IInv, NEW r \in Runners, NEW l \in Loop, LoopBecomes(r, l),
           l.pc \in {"acquire", "steal", "expire", "start", "undo"} => l.task \in Tasks
    PROVE  loop' \in [Runners -> Loop] /\ ClaimsInv'
BY DEF IInv, TypeOK, LoopBecomes, ClaimsInv

\* A goroutine that stays one, or starts for a task whose row names its runner.
LEMMA JobStepInv ==
    ASSUME IInv, NEW r \in Runners, NEW k \in Tasks, NEW j \in Job, JobBecomes(r, k, j),
           j.phase = "finish" => j.result \in {"succeeded", "failed"}
    PROVE  /\ job' \in [Runners -> [Tasks -> Job]] /\ ResultsInv'
           /\ \A p \in Runners, i \in Tasks :
                 job'[p][i] = IF p = r /\ i = k THEN j ELSE job[p][i]
<1>1. job \in [Runners -> [Tasks -> Job]]
  BY DEF IInv, TypeOK
<1>2. \A p \in Runners, i \in Tasks : job'[p][i] = IF p = r /\ i = k THEN j ELSE job[p][i]
  BY <1>1 DEF JobBecomes
<1>3. job' \in [Runners -> [Tasks -> Job]]
  BY <1>1 DEF JobBecomes
<1>4. ResultsInv'
  BY <1>2 DEF IInv, ResultsInv
<1> QED BY <1>2, <1>3, <1>4

\* MarkSystemTaskLeaseExpired changes no row but a running one.
LEMMA MarkExpiredInv ==
    ASSUME IInv, NEW k, MarkSystemTaskLeaseExpired(k)
    PROVE  /\ tasks' \in [Tasks -> Row]
           /\ \A i \in Tasks :
                /\ tasks'[i].by = tasks[i].by
                /\ tasks'[i] # tasks[i] => tasks[i].status = "running" /\ tasks'[i].status = "failed"
<1>1. tasks \in [Tasks -> Row]
  BY DEF IInv, TypeOK
<1>2. CASE k \notin Tasks
  BY <1>1, <1>2 DEF MarkSystemTaskLeaseExpired
<1>3. CASE k \in Tasks
  <2> DEFINE row == [tasks[k] EXCEPT !.status = IF tasks[k].status = "running" THEN "failed"
                                               ELSE tasks[k].status]
  <2>1. row \in Row /\ row.by = tasks[k].by
        /\ (row # tasks[k] => tasks[k].status = "running" /\ row.status = "failed")
    BY <1>1, <1>3 DEF Row
  <2>2. tasks' = [tasks EXCEPT ![k] = row]
    BY <1>1, <1>3 DEF MarkSystemTaskLeaseExpired, Row
  <2> HIDE DEF row
  <2> QED BY <1>1, <1>3, <2>1, <2>2
<1> QED BY <1>2, <1>3

--------------------------------------------------------------------------------
(* Every step preserves the invariant *)

\* The rows keep their runner, and none goes back to pending, so the goroutines'
\* part of the invariant is kept.
LEMMA RowsStepInv ==
    ASSUME IInv, job' = job,
           \A i \in Tasks :
                tasks'[i] = tasks[i]
                \/ tasks[i].status \in {"absent", "pending"}
                \/ (tasks'[i].by = tasks[i].by
                      /\ tasks'[i].status \in {"running", "succeeded", "failed"})
    PROVE  JobsInv'
BY DEF IInv, JobsInv

\* Steps of the loop that write neither a row nor a goroutine.
LEMMA LoopOnlyStep ==
    ASSUME IInv, NEW r \in Runners, NEW l \in Loop, LoopBecomes(r, l),
           l.pc \in {"acquire", "steal", "expire", "start", "undo"} => l.task \in Tasks,
           lock' \in Lock, UNCHANGED <<tasks, job, now>>
    PROVE  IInv'
<1>1. loop' \in [Runners -> Loop] /\ ClaimsInv'
  BY LoopStepInv
<1> QED BY <1>1 DEF IInv, TypeOK, JobsInv, ResultsInv

\* A loop between two operations.
LEMMA ReadyType == Ready \in Loop /\ Ready.pc = "ready" /\ NoLock \in Lock
BY RunnerAssumption DEF Ready, Loop, NoLock, Lock, NoTask

\* A loop that moves on within an operation.
LEMMA LoopMoves ==
    ASSUME IInv, NEW r \in Runners,
           NEW pc \in {"mark", "drop", "acquire", "steal", "expire", "start", "undo"},
           NEW seen \in Lock
    PROVE  /\ [loop[r] EXCEPT !.pc = pc] \in Loop
           /\ [loop[r] EXCEPT !.pc = pc].pc = pc
           /\ [loop[r] EXCEPT !.pc = pc].task = loop[r].task
           /\ [loop[r] EXCEPT !.pc = pc, !.seen = seen] \in Loop
           /\ [loop[r] EXCEPT !.pc = pc, !.seen = seen].task = loop[r].task
BY DEF IInv, TypeOK, Loop

\* No goroutine.
LEMMA NoJobType == NoJob \in Job
<1>1. NoBeat \in Int /\ 0 \in Int
  BY DEF NoBeat
<1> QED BY <1>1 DEF NoJob, Job

\* StartSystemTaskRunner, and a pass that ends on an error.
LEMMA BackToReadyStep ==
    ASSUME IInv, NEW r \in Runners, StartRunner(r) \/ PassFails(r)
    PROVE  IInv'
<1>1. LoopBecomes(r, Ready) /\ UNCHANGED <<tasks, lock, job, now>>
  BY DEF StartRunner, PassFails
<1>2. lock' \in Lock
  BY <1>1 DEF IInv, TypeOK
<1> QED BY <1>1, <1>2, ReadyType, LoopOnlyStep

\* A crash ends goroutines, never starts one.
LEMMA CrashStep ==
    ASSUME IInv, NEW r \in Runners, Crash(r)
    PROVE  IInv'
<1>1. [Ready EXCEPT !.pc = "crashed"] \in Loop /\ [Ready EXCEPT !.pc = "crashed"].pc = "crashed"
  BY ReadyType DEF Loop
<1>2. loop' \in [Runners -> Loop] /\ ClaimsInv'
  BY <1>1, LoopStepInv DEF Crash
<1>3. \A k \in Tasks : /\ Ended(job[r][k]) \in Job
                       /\ Ended(job[r][k]).phase \in {"none", "done"}
                       /\ Ended(job[r][k]).phase # "none" => job[r][k].phase # "none"
  <2>1. [NoJob EXCEPT !.phase = "done"] \in Job /\ [NoJob EXCEPT !.phase = "done"].phase = "done"
    BY NoJobType DEF Job
  <2>2. \A k \in Tasks : job[r][k] \in Job
    BY DEF IInv, TypeOK
  <2> QED BY <2>1, <2>2 DEF Ended
<1>4. job' \in [Runners -> [Tasks -> Job]]
  BY <1>3 DEF Crash, IInv, TypeOK
<1>5. \A p \in Runners, k \in Tasks :
        job'[p][k] = IF p = r THEN Ended(job[r][k]) ELSE job[p][k]
  BY DEF Crash, IInv, TypeOK
<1>6. JobsInv' /\ ResultsInv'
  BY <1>3, <1>5 DEF Crash, IInv, JobsInv, ResultsInv
<1> QED BY <1>2, <1>4, <1>6 DEF Crash, IInv, TypeOK

\* CreateSystemTask inserts a row nobody has run.
LEMMA CreateStep ==
    ASSUME IInv, NEW k \in Tasks, CreateSystemTask(k)
    PROVE  IInv'
<1>1. tasks' \in [Tasks -> Row]
  <2>1. [NoRow EXCEPT !.status = "pending"] \in Row
    BY DEF NoRow, Row
  <2> QED BY <2>1 DEF CreateSystemTask, IInv, TypeOK
<1>2. \A i \in Tasks : tasks'[i] = tasks[i] \/ tasks[i].status = "absent"
  BY DEF CreateSystemTask, IInv, TypeOK
<1>3. JobsInv'
  BY <1>2, RowsStepInv DEF CreateSystemTask
<1> QED BY <1>1, <1>3 DEF CreateSystemTask, IInv, TypeOK, ResultsInv, ClaimsInv

\* ExpireStaleSystemTaskLocks, its reading and its delete.
LEMMA StaleLockStep ==
    ASSUME IInv, NEW r \in Runners, FindExpiredLock(r) \/ DropExpiredLock(r)
    PROVE  IInv'
<1>1. CASE FindExpiredLock(r)
  <2> DEFINE l == [Ready EXCEPT !.pc = "mark", !.t = now, !.seen = lock]
  <2>1. l \in Loop /\ l.pc = "mark" /\ lock \in Lock
    BY ReadyType DEF IInv, TypeOK, Loop
  <2> QED BY <1>1, <2>1, LoopOnlyStep DEF FindExpiredLock
<1>2. CASE DropExpiredLock(r)
  <2>1. lock' \in Lock
    BY <1>2, ReadyType DEF DropExpiredLock, IInv, TypeOK
  <2> QED BY <1>2, <2>1, ReadyType, LoopOnlyStep DEF DropExpiredLock
<1> QED BY <1>1, <1>2

\* MarkSystemTaskLeaseExpired, from the clean-up and from a claim.
LEMMA MarkStep ==
    ASSUME IInv, NEW r \in Runners, FailExpiredTask(r) \/ ExpirePreviousTask(r)
    PROVE  IInv'
<1>1. MarkSystemTaskLeaseExpired(loop[r].seen.task) /\ UNCHANGED <<lock, job, now>>
  BY DEF FailExpiredTask, ExpirePreviousTask
<1>2. tasks' \in [Tasks -> Row] /\ JobsInv'
  <2>1. /\ tasks' \in [Tasks -> Row]
        /\ \A i \in Tasks :
             /\ tasks'[i].by = tasks[i].by
             /\ tasks'[i] # tasks[i] => tasks'[i].status = "failed"
    BY <1>1, MarkExpiredInv
  <2> QED BY <1>1, <2>1, RowsStepInv
<1>3. loop' \in [Runners -> Loop] /\ ClaimsInv'
  <2>1. CASE FailExpiredTask(r)
    BY <2>1, LoopMoves, LoopStepInv, ReadyType DEF FailExpiredTask
  <2>2. CASE ExpirePreviousTask(r)
    <3>1. loop[r].task \in Tasks
      BY <2>2 DEF ExpirePreviousTask, At, IInv, ClaimsInv
    <3> QED BY <2>2, <3>1, LoopMoves, LoopStepInv, ReadyType DEF ExpirePreviousTask
  <2> QED BY <2>1, <2>2
<1> QED BY <1>1, <1>2, <1>3 DEF IInv, TypeOK, ResultsInv

\* FindEarliestPendingSystemTasks.
LEMMA FindPendingStep ==
    ASSUME IInv, NEW r \in Runners, FindPendingTask(r)
    PROVE  IInv'
<1>1. PICK k \in Tasks :
        LoopBecomes(r, [Ready EXCEPT !.pc = "acquire", !.task = k, !.t = now])
  BY DEF FindPendingTask
<1> DEFINE l == [Ready EXCEPT !.pc = "acquire", !.task = k, !.t = now]
<1>2. l \in Loop /\ l.task = k
  BY ReadyType DEF IInv, TypeOK, Loop
<1>3. lock \in Lock
  BY DEF IInv, TypeOK
<1> QED BY <1>1, <1>2, <1>3, LoopOnlyStep DEF FindPendingTask

\* The lease a claim writes.
LEMMA LeaseType ==
    ASSUME IInv, NEW r \in Runners, loop[r].task \in Tasks
    PROVE  Lease(r) \in Lock
<1>1. loop[r].t + TTL \in Int
  BY TTLAssumption DEF IInv, TypeOK, Loop
<1> QED BY <1>1 DEF Lease, Lock

\* acquireSystemTaskLock.
LEMMA AcquireStep ==
    ASSUME IInv, NEW r \in Runners, AcquireLock(r) \/ StealLock(r)
    PROVE  IInv'
<1>1. loop[r].task \in Tasks /\ lock \in Lock
  BY DEF AcquireLock, StealLock, At, IInv, ClaimsInv, TypeOK
<1>2. lock' \in Lock /\ UNCHANGED <<tasks, job, now>>
  BY <1>1, LeaseType DEF AcquireLock, StealLock
<1>3. ASSUME NEW pc \in {"expire", "start"}, LoopBecomes(r, [loop[r] EXCEPT !.pc = pc])
      PROVE  IInv'
  BY <1>1, <1>2, <1>3, LoopMoves, LoopOnlyStep
<1>4. ASSUME LoopBecomes(r, [loop[r] EXCEPT !.pc = "steal", !.seen = lock])
      PROVE  IInv'
  BY <1>1, <1>2, <1>4, LoopMoves, LoopOnlyStep
<1>5. ASSUME LoopBecomes(r, Ready)
      PROVE  IInv'
  BY <1>2, <1>5, ReadyType, LoopOnlyStep
<1> QED BY <1>3, <1>4, <1>5 DEF AcquireLock, StealLock

\* ClaimSystemTask, its last update: the row must still be pending, so nobody has a
\* goroutine for it.
LEMMA StartTaskStep ==
    ASSUME IInv, NEW r \in Runners, StartTask(r)
    PROVE  IInv'
<1>1. PICK k \in Tasks : k = loop[r].task
  BY DEF StartTask, At, IInv, ClaimsInv
<1> DEFINE row == [status |-> "running", by |-> r]
           j == [NoJob EXCEPT !.phase = "run", !.beating = TRUE]
<1>2. /\ tasks[k].status = "pending"
      /\ tasks' = [tasks EXCEPT ![k] = row]
      /\ JobBecomes(r, k, j) \/ job' = job
      /\ LoopBecomes(r, Ready) /\ UNCHANGED <<lock, now>>
  BY <1>1 DEF StartTask
<1>3. row \in Row /\ j \in Job /\ j.phase = "run"
  BY NoJobType DEF Row, Job
<1>4. tasks' \in [Tasks -> Row] /\ \A i \in Tasks : tasks'[i] = IF i = k THEN row ELSE tasks[i]
  BY <1>2, <1>3 DEF IInv, TypeOK
<1>5. \A p \in Runners : job[p][k].phase = "none"
  BY <1>2 DEF IInv, JobsInv
<1>6. loop' \in [Runners -> Loop] /\ ClaimsInv'
  BY <1>2, ReadyType, LoopStepInv
<1>7. CASE job' = job
  <2>1. JobsInv'
    BY <1>2, <1>4, <1>7, RowsStepInv
  <2> QED BY <1>2, <1>4, <1>6, <1>7, <2>1 DEF IInv, TypeOK, ResultsInv
<1>8. CASE JobBecomes(r, k, j)
  <2> HIDE DEF j, row
  <2>1. /\ job' \in [Runners -> [Tasks -> Job]] /\ ResultsInv'
        /\ \A p \in Runners, i \in Tasks :
              job'[p][i] = IF p = r /\ i = k THEN j ELSE job[p][i]
    <3>1. j \in Job /\ JobBecomes(r, k, j) /\ (j.phase = "finish" => j.result \in {"succeeded", "failed"})
      BY <1>3, <1>8
    <3> QED BY <3>1, JobStepInv
  <2>2. JobsInv'
    <3>1. row.by = r /\ row.status = "running"
      BY DEF row
    <3> QED BY <1>4, <1>5, <2>1, <3>1 DEF IInv, JobsInv
  <2> QED BY <1>2, <1>4, <1>6, <2>1, <2>2 DEF IInv, TypeOK
<1> QED BY <1>2, <1>7, <1>8

\* ClaimSystemTask giving up: ReleaseSystemTaskLock.
LEMMA UndoStep ==
    ASSUME IInv, NEW r \in Runners, AbandonClaim(r) \/ UndoClaim(r)
    PROVE  IInv'
<1>1. lock \in Lock /\ NoLock \in Lock
  BY ReadyType DEF IInv, TypeOK
<1>2. CASE AbandonClaim(r)
  <2>1. loop[r].task \in Tasks
    BY <1>2 DEF AbandonClaim, IInv, ClaimsInv
  <2> QED BY <1>1, <1>2, <2>1, LoopMoves, LoopOnlyStep DEF AbandonClaim
<1>3. CASE UndoClaim(r)
  <2>1. lock' \in Lock
    BY <1>1, <1>3 DEF UndoClaim, Released
  <2> QED BY <1>3, <2>1, ReadyType, LoopOnlyStep DEF UndoClaim
<1> QED BY <1>2, <1>3

\* A goroutine goes on or ends, the rows untouched.
LEMMA JobOnlyStep ==
    ASSUME IInv, NEW r \in Runners, NEW k \in Tasks, NEW j \in Job, JobBecomes(r, k, j),
           j.phase # "none" => job[r][k].phase # "none",
           j.phase = "finish" => j.result \in {"succeeded", "failed"},
           lock' \in Lock, UNCHANGED <<tasks, loop, now>>
    PROVE  IInv'
<1>1. /\ job' \in [Runners -> [Tasks -> Job]] /\ ResultsInv'
      /\ \A p \in Runners, i \in Tasks :
            job'[p][i] = IF p = r /\ i = k THEN j ELSE job[p][i]
  BY JobStepInv
<1>2. JobsInv'
  BY <1>1 DEF IInv, JobsInv
<1> QED BY <1>1, <1>2 DEF IInv, TypeOK, ClaimsInv

\* The heartbeat: reading the clock, and the renewal, which moves the end of a lease
\* or finds it lost.
LEMMA HeartbeatStep ==
    ASSUME IInv, NEW r \in Runners, NEW k \in Tasks,
           HeartbeatTick(r, k) \/ RenewSystemTaskLock(r, k) \/ RenewalFails(r, k)
    PROVE  IInv'
<1> DEFINE old == job[r][k]
<1>1. old \in Job /\ lock \in Lock /\ now \in Int
      /\ (old.phase = "finish" => old.result \in {"succeeded", "failed"})
  BY DEF IInv, TypeOK, ResultsInv
<1> HIDE DEF old
<1>2. ASSUME NEW t \in Int, NEW b \in BOOLEAN
      PROVE  LET j == [old EXCEPT !.beat = t, !.beating = b]
                 i == [old EXCEPT !.beat = t]
             IN  /\ j \in Job /\ j.phase = old.phase /\ j.result = old.result
                 /\ i \in Job /\ i.phase = old.phase /\ i.result = old.result
  BY <1>1 DEF Job
<1>3. CASE HeartbeatTick(r, k)
  <2>1. JobBecomes(r, k, [old EXCEPT !.beat = now]) /\ UNCHANGED <<tasks, lock, loop, now>>
    BY <1>3 DEF HeartbeatTick, old
  <2> DEFINE j == [old EXCEPT !.beat = now]
  <2>2. j \in Job /\ j.phase = old.phase /\ j.result = old.result
    BY <1>1, <1>2
  <2> HIDE DEF j
  <2>3. j.phase # "none" => job[r][k].phase # "none"
    BY <2>2 DEF old
  <2>4. JobBecomes(r, k, j)
    BY <2>1 DEF j
  <2>5. j.phase = "finish" => j.result \in {"succeeded", "failed"}
    BY <1>1, <2>2
  <2> QED BY <1>1, <2>1, <2>2, <2>3, <2>4, <2>5, JobOnlyStep
<1>4. CASE RenewalFails(r, k)
  <2> DEFINE j == [old EXCEPT !.beat = NoBeat, !.beating = FALSE]
  <2>1. JobBecomes(r, k, j) /\ UNCHANGED <<tasks, lock, loop, now>>
    BY <1>4 DEF RenewalFails, old
  <2>2. NoBeat \in Int
    BY DEF NoBeat
  <2>3. j \in Job /\ j.phase = old.phase /\ j.result = old.result
    BY <1>2, <2>2
  <2> HIDE DEF j
  <2>4. j.phase # "none" => job[r][k].phase # "none"
    BY <2>3 DEF old
  <2>5. j.phase = "finish" => j.result \in {"succeeded", "failed"}
    BY <1>1, <2>3
  <2> QED BY <1>1, <2>1, <2>3, <2>4, <2>5, JobOnlyStep
<1>5. CASE RenewSystemTaskLock(r, k)
  <2> DEFINE held == Holds(r, k, old.beat)
             j == [old EXCEPT !.beat = NoBeat, !.beating = held]
  <2>1. JobBecomes(r, k, j) /\ UNCHANGED <<tasks, loop, now>>
        /\ lock' = IF held THEN [lock EXCEPT !.until = old.beat + TTL] ELSE lock
    BY <1>5 DEF RenewSystemTaskLock, old
  <2>2. held \in BOOLEAN
    BY DEF Holds
  <2>3. NoBeat \in Int
    BY DEF NoBeat
  <2>4. lock' \in Lock
    <3>1. old.beat + TTL \in Int
      BY <1>1, TTLAssumption DEF Job
    <3> HIDE DEF held
    <3> QED BY <1>1, <2>1, <3>1 DEF Lock
  <2> HIDE DEF held
  <2>5. j \in Job /\ j.phase = old.phase /\ j.result = old.result
    BY <1>2, <2>2, <2>3
  <2> HIDE DEF j
  <2>6. j.phase # "none" => job[r][k].phase # "none"
    BY <2>5 DEF old
  <2>7. j.phase = "finish" => j.result \in {"succeeded", "failed"}
    BY <1>1, <2>5
  <2> QED BY <2>1, <2>4, <2>5, <2>6, <2>7, JobOnlyStep
<1> QED BY <1>3, <1>4, <1>5

\* The handler stops or ends, and the release that follows a finished task.
LEMMA HandlerStep ==
    ASSUME IInv, NEW r \in Runners, NEW k \in Tasks,
           HandlerStops(r, k) \/ HandlerEnds(r, k) \/ ReleaseLock(r, k)
    PROVE  IInv'
<1>1. job[r][k] \in Job /\ lock \in Lock /\ now \in Int /\ NoLock \in Lock
  BY ReadyType DEF IInv, TypeOK
<1>2. UNCHANGED <<tasks, loop, now>> /\ job[r][k].phase # "none"
  BY DEF HandlerStops, HandlerEnds, ReleaseLock
<1>3. lock' \in Lock
  BY <1>1 DEF HandlerStops, HandlerEnds, ReleaseLock, Released
<1>4. CASE HandlerStops(r, k) \/ ReleaseLock(r, k)
  <2> DEFINE j == [job[r][k] EXCEPT !.phase = "done", !.beating = FALSE]
  <2>1. JobBecomes(r, k, j)
    BY <1>4 DEF HandlerStops, ReleaseLock
  <2>2. j \in Job /\ j.phase = "done"
    BY <1>1 DEF Job
  <2> HIDE DEF j
  <2>3. j.phase # "finish"
    BY <2>2
  <2> QED BY <1>2, <1>3, <2>1, <2>2, <2>3, JobOnlyStep
<1>5. CASE HandlerEnds(r, k)
  <2>1. PICK result \in {"succeeded", "failed"} :
          JobBecomes(r, k, [job[r][k] EXCEPT !.phase = "finish", !.t = now, !.result = result])
    BY <1>5 DEF HandlerEnds
  <2> DEFINE j == [job[r][k] EXCEPT !.phase = "finish", !.t = now, !.result = result]
  <2>2. j \in Job /\ j.result \in {"succeeded", "failed"}
    BY <1>1 DEF Job
  <2> HIDE DEF j
  <2>3. JobBecomes(r, k, j)
    BY <2>1 DEF j
  <2> QED BY <1>2, <1>3, <2>2, <2>3, JobOnlyStep
<1> QED BY <1>4, <1>5

\* FinishSystemTask: the row of a task its runner owns gets its outcome.
LEMMA FinishStep ==
    ASSUME IInv, NEW r \in Runners, NEW k \in Tasks, FinishSystemTask(r, k)
    PROVE  /\ IInv'
           /\ \A i \in Tasks : tasks'[i] = tasks[i] \/ tasks[i].status = "running"
<1> DEFINE old == job[r][k]
           owned == OwnsTask(r, k, old.t)
           j == [old EXCEPT !.phase = IF owned THEN "release" ELSE "done",
                            !.beating = owned /\ old.beating]
           row == [tasks[k] EXCEPT !.status = old.result]
<1>1. old \in Job /\ old.phase = "finish" /\ old.result \in {"succeeded", "failed"}
  BY DEF FinishSystemTask, IInv, TypeOK, ResultsInv
<1>2. tasks \in [Tasks -> Row] /\ tasks[k].by = r
      /\ tasks[k].status \in {"running", "succeeded", "failed"}
  BY <1>1 DEF IInv, TypeOK, JobsInv
<1>3. row \in Row /\ row.by = r /\ row.status \in {"succeeded", "failed"}
  BY <1>1, <1>2 DEF Row
<1>4. tasks' = IF owned THEN [tasks EXCEPT ![k] = row] ELSE tasks
  BY <1>2 DEF FinishSystemTask
<1>5. owned => tasks[k].status = "running"
  BY DEF OwnsTask
<1>6. owned \in BOOLEAN
  BY DEF OwnsTask, Holds
<1>7. JobBecomes(r, k, j) /\ UNCHANGED <<lock, loop, now>>
  <2>1. old \in [phase : {"none", "run", "finish", "release", "done"},
                 beating : BOOLEAN, beat : Int, t : Int, result : {"none", "succeeded", "failed"}]
    BY <1>1 DEF Job
  <2> QED BY <2>1 DEF FinishSystemTask
<1> HIDE DEF owned, row
<1>8. j \in Job /\ j.phase \in {"release", "done"}
  <2>1. old.beating \in BOOLEAN
    BY <1>1 DEF Job
  <2>2. PICK b \in BOOLEAN : b = (owned /\ old.beating)
    BY <1>6, <2>1
  <2>3. PICK ph \in {"release", "done"} : ph = IF owned THEN "release" ELSE "done"
    OBVIOUS
  <2>4. j = [old EXCEPT !.phase = ph, !.beating = b]
    BY <2>2, <2>3
  <2> HIDE DEF old, j
  <2> QED BY <1>1, <2>4 DEF Job
<1>9. \A i \in Tasks : tasks'[i] = IF owned /\ i = k THEN row ELSE tasks[i]
  BY <1>2, <1>4
<1>10. tasks' \in [Tasks -> Row]
  BY <1>2, <1>3, <1>4
<1> HIDE DEF j
<1>11. /\ job' \in [Runners -> [Tasks -> Job]] /\ ResultsInv'
       /\ \A p \in Runners, i \in Tasks :
             job'[p][i] = IF p = r /\ i = k THEN j ELSE job[p][i]
  <2>1. j.phase # "finish"
    BY <1>8
  <2> QED BY <1>7, <1>8, <2>1, JobStepInv
<1>12. JobsInv'
  BY <1>1, <1>2, <1>3, <1>9, <1>11 DEF IInv, JobsInv
<1> QED BY <1>5, <1>7, <1>9, <1>10, <1>11, <1>12 DEF IInv, TypeOK, ClaimsInv

\* Every step, and a stutter.
LEMMA NextIInv == IInv /\ [Next]_vars => IInv'
<1> SUFFICES ASSUME IInv, [Next]_vars PROVE IInv'
  OBVIOUS
<1>1. ASSUME NEW r \in Runners, LoopStep(r) PROVE IInv'
  BY <1>1, BackToReadyStep, CrashStep, StaleLockStep, MarkStep, FindPendingStep, AcquireStep,
     StartTaskStep, UndoStep DEF LoopStep
<1>2. ASSUME NEW r \in Runners, NEW k \in Tasks, JobStep(r, k) PROVE IInv'
  BY <1>2, HeartbeatStep, HandlerStep, FinishStep DEF JobStep
<1>3. CASE Tick
  <2>1. now' \in Int
    BY <1>3 DEF Tick, IInv, TypeOK
  <2> QED BY <1>3, <2>1 DEF Tick, IInv, TypeOK, JobsInv, ResultsInv, ClaimsInv
<1>4. CASE UNCHANGED vars
  BY <1>4 DEF vars, IInv, TypeOK, JobsInv, ResultsInv, ClaimsInv
<1> QED BY <1>1, <1>2, <1>3, <1>4, CreateStep DEF Next

\* The invariant holds forever.
LEMMA Invariance == Spec => []IInv
BY InitIInv, NextIInv, PTL DEF Spec

--------------------------------------------------------------------------------
(* Theorems *)

\* Tables and goroutines hold what their types allow, whatever the processes do.
THEOREM TaskTypeCorrect == Spec => []TypeOK
<1>1. IInv => TypeOK
  BY DEF IInv
<1> QED BY <1>1, Invariance, PTL

\* runSystemTaskScheduler: no task is executed by two runners, however many master
\* processes run, crash and steal each other's leases.
THEOREM TaskRunsOnce == Spec => []OneRunnerPerTask
<1>1. ASSUME IInv PROVE OneRunnerPerTask
  <2> SUFFICES ASSUME NEW k \in Tasks
               PROVE  Cardinality({r \in Runners : job[r][k].phase # "none"}) <= 1
    BY DEF OneRunnerPerTask
  <2> DEFINE S == {r \in Runners : job[r][k].phase # "none"}
  <2>1. \A r \in S : r = tasks[k].by
    BY <1>1 DEF IInv, JobsInv
  <2>2. S = {} \/ S = {tasks[k].by}
    BY <2>1
  <2>3. Cardinality(S) = 0 \/ Cardinality(S) = 1
    BY <2>2, FS_EmptySet, FS_Singleton
  <2> QED BY <2>3
<1> QED BY <1>1, Invariance, PTL

\* The updates of system_task.go are conditional on the status they replace, so a
\* recorded outcome is never overwritten.
THEOREM OutcomeRecordedOnce == Spec => OutcomeIsFinal
<1> DEFINE Kept == \A k \in Tasks :
                     tasks[k].status \in {"succeeded", "failed"} => tasks'[k] = tasks[k]
<1>1. ASSUME IInv, [Next]_vars PROVE Kept
  <2>1. ASSUME tasks' = tasks PROVE Kept
    BY <2>1
  <2>2. ASSUME NEW k \in Tasks, CreateSystemTask(k) PROVE Kept
    BY <1>1, <2>2 DEF CreateSystemTask, IInv, TypeOK
  <2>3. ASSUME NEW r \in Runners, FailExpiredTask(r) \/ ExpirePreviousTask(r) PROVE Kept
    <3>1. MarkSystemTaskLeaseExpired(loop[r].seen.task)
      BY <2>3 DEF FailExpiredTask, ExpirePreviousTask
    <3>2. \A i \in Tasks : tasks'[i] # tasks[i] => tasks[i].status = "running"
      BY <1>1, <3>1, MarkExpiredInv
    <3> QED BY <3>2
  <2>4. ASSUME NEW r \in Runners, StartTask(r) PROVE Kept
    BY <1>1, <2>4 DEF StartTask, IInv, TypeOK
  <2>5. ASSUME NEW r \in Runners, NEW k \in Tasks, FinishSystemTask(r, k) PROVE Kept
    BY <1>1, <2>5, FinishStep
  <2>6. ASSUME NEW r \in Runners, LoopStep(r) PROVE Kept
    <3>1. \/ FailExpiredTask(r) \/ ExpirePreviousTask(r) \/ StartTask(r)
          \/ tasks' = tasks
      BY <2>6 DEF LoopStep, StartRunner, Crash, FindExpiredLock, DropExpiredLock, FindPendingTask,
         AcquireLock, StealLock, AbandonClaim, UndoClaim, PassFails
    <3> QED BY <2>1, <2>3, <2>4, <3>1
  <2>7. ASSUME NEW r \in Runners, NEW k \in Tasks, JobStep(r, k) PROVE Kept
    <3>1. FinishSystemTask(r, k) \/ tasks' = tasks
      BY <2>7 DEF JobStep, HeartbeatTick, RenewSystemTaskLock, RenewalFails, HandlerStops, HandlerEnds, ReleaseLock
    <3> QED BY <2>1, <2>5, <3>1
  <2>8. Tick \/ UNCHANGED vars => tasks' = tasks
    BY DEF Tick, vars
  <2> QED BY <1>1, <2>1, <2>2, <2>6, <2>7, <2>8 DEF Next
<1> QED BY <1>1, Invariance, PTL DEF Spec, OutcomeIsFinal

--------------------------------------------------------------------------------
(* SystemTasks implements TaskQueue *)

\* The mapping, task by task.
LEMMA WorkingAt ==
    ASSUME NEW k \in Tasks
    PROVE  /\ Working[k] = {r \in Runners : job[r][k].phase \in {"run", "finish"}}
           /\ Working'[k] = {r \in Runners : job'[r][k].phase \in {"run", "finish"}}
BY DEF Working

\* No handler of the task starts or ends.
LEMMA WorkingSame ==
    ASSUME NEW k \in Tasks,
           \A r \in Runners :
               job'[r][k].phase \in {"run", "finish"} <=> job[r][k].phase \in {"run", "finish"}
    PROVE  Working'[k] = Working[k]
<1>1. {r \in Runners : job'[r][k].phase \in {"run", "finish"}}
        = {r \in Runners : job[r][k].phase \in {"run", "finish"}}
  OBVIOUS
<1> QED BY <1>1, WorkingAt

\* No handler starts or ends.
LEMMA WorkingKept ==
    ASSUME \A r \in Runners, k \in Tasks :
               job'[r][k].phase \in {"run", "finish"} <=> job[r][k].phase \in {"run", "finish"}
    PROVE  Working' = Working
BY DEF Working

\* Whoever is at work on a task claimed it.
LEMMA WorkerIsOwner ==
    ASSUME IInv, NEW k \in Tasks
    PROVE  /\ Working[k] \subseteq {tasks[k].by}
           /\ tasks[k].status = "pending" => Working[k] = {}
BY WorkingAt DEF IInv, JobsInv

\* CreateSystemTask is Submit.
LEMMA CreateImplements ==
    ASSUME IInv, NEW k \in Tasks, CreateSystemTask(k)
    PROVE  Promised!Submit(k)
<1>1. Working' = Working
  BY WorkingKept DEF CreateSystemTask
<1>2. [NoRow EXCEPT !.status = "pending"] = [status |-> "pending", by |-> NoRunner]
  BY DEF NoRow
<1> QED BY <1>1, <1>2 DEF CreateSystemTask, Active, Promised!Submit

\* MarkSystemTaskLeaseExpired is Expire, or changes nothing.
LEMMA MarkImplements ==
    ASSUME IInv, NEW r \in Runners, FailExpiredTask(r) \/ ExpirePreviousTask(r)
    PROVE  (\E k \in Tasks : Promised!Expire(k)) \/ UNCHANGED <<tasks, Working>>
<1> DEFINE k == loop[r].seen.task
<1>1. MarkSystemTaskLeaseExpired(k) /\ job' = job
  BY DEF FailExpiredTask, ExpirePreviousTask
<1>2. Working' = Working
  BY <1>1, WorkingKept
<1>3. tasks \in [Tasks -> Row]
  BY DEF IInv, TypeOK
<1> HIDE DEF k
<1>4. CASE k \in Tasks /\ tasks[k].status = "running"
  <2>1. tasks' = [tasks EXCEPT ![k].status = "failed"]
    BY <1>1, <1>3, <1>4 DEF MarkSystemTaskLeaseExpired
  <2> QED BY <1>2, <1>4, <2>1 DEF Promised!Expire
<1>5. CASE ~(k \in Tasks /\ tasks[k].status = "running")
  <2>1. tasks' = tasks
    BY <1>1, <1>3, <1>5 DEF MarkSystemTaskLeaseExpired, Row
  <2> QED BY <1>2, <2>1
<1> QED BY <1>4, <1>5

\* ClaimSystemTask's last update is Claim: nobody else is at work on the task.
LEMMA StartImplements ==
    ASSUME IInv, NEW r \in Runners, StartTask(r)
    PROVE  \E k \in Tasks : Promised!Claim(k, r)
<1>1. PICK k \in Tasks : k = loop[r].task
  BY DEF StartTask, At, IInv, ClaimsInv
<1> DEFINE j == [NoJob EXCEPT !.phase = "run", !.beating = TRUE]
<1>2. /\ tasks[k].status = "pending"
      /\ tasks' = [tasks EXCEPT ![k] = [status |-> "running", by |-> r]]
      /\ JobBecomes(r, k, j) \/ job' = job
  BY <1>1 DEF StartTask
<1>3. j \in Job /\ j.phase = "run"
  BY NoJobType DEF Job
<1> HIDE DEF j
<1>4. Working[k] = {}
  BY <1>2, WorkerIsOwner
<1>5. CASE job' = job
  <2>1. Working' = Working
    BY <1>5, WorkingKept
  <2> QED BY <1>2, <1>4, <2>1 DEF Promised!Claim
<1>6. CASE JobBecomes(r, k, j)
  <2>1. \A p \in Runners, i \in Tasks :
          job'[p][i] = IF p = r /\ i = k THEN j ELSE job[p][i]
    <3>1. j.phase = "finish" => j.result \in {"succeeded", "failed"}
      BY <1>3
    <3> QED BY <1>3, <1>6, <3>1, JobStepInv
  <2>2. Working'[k] = {r}
    <3>1. \A p \in Runners : p \notin Working[k]
      BY <1>4
    <3>2. \A p \in Runners : job'[p][k].phase \in {"run", "finish"} <=> p = r
      BY <1>3, <2>1, <3>1, WorkingAt
    <3> QED BY <3>2, WorkingAt
  <2>3. ASSUME NEW i \in Tasks, i # k PROVE Working'[i] = Working[i]
    <3>1. \A p \in Runners : job'[p][i] = job[p][i]
      BY <2>1, <2>3
    <3> QED BY <3>1, WorkingSame
  <2>4. Working' = [Working EXCEPT ![k] = {r}]
    BY <2>2, <2>3 DEF Working
  <2> QED BY <1>2, <1>4, <2>4 DEF Promised!Claim
<1> QED BY <1>2, <1>5, <1>6

\* A handler that ends without an outcome leaves.
LEMMA LeaveImplements ==
    ASSUME NEW r \in Runners, NEW gone \in SUBSET Tasks, tasks' = tasks,
           \A p \in Runners, i \in Tasks :
               job'[p][i].phase \in {"run", "finish"}
                   <=> job[p][i].phase \in {"run", "finish"} /\ ~(p = r /\ i \in gone)
    PROVE  Promised!Leave(r, gone)
<1>1. ASSUME NEW i \in Tasks
      PROVE  Working'[i] = IF i \in gone THEN Working[i] \ {r} ELSE Working[i]
  <2> DEFINE before == {p \in Runners : job[p][i].phase \in {"run", "finish"}}
             after == {p \in Runners : job'[p][i].phase \in {"run", "finish"}}
  <2>1. Working[i] = before /\ Working'[i] = after
    BY WorkingAt
  <2>2. CASE i \in gone
    <3>1. after = before \ {r}
      BY <2>2
    <3> HIDE DEF before, after
    <3> QED BY <2>1, <2>2, <3>1
  <2>3. CASE i \notin gone
    <3>1. after = before
      BY <2>3
    <3> HIDE DEF before, after
    <3> QED BY <2>1, <2>3, <3>1
  <2> QED BY <2>2, <2>3
<1>2. Working' = [i \in Tasks |-> IF i \in gone THEN Working[i] \ {r} ELSE Working[i]]
  BY <1>1 DEF Working
<1> QED BY <1>2 DEF Promised!Leave

\* A crash ends every handler of the process.
LEMMA CrashImplements ==
    ASSUME IInv, NEW r \in Runners, Crash(r)
    PROVE  Promised!Leave(r, Tasks)
<1>1. \A p \in Runners, i \in Tasks :
        job'[p][i] = IF p = r THEN Ended(job[r][i]) ELSE job[p][i]
  BY DEF Crash, IInv, TypeOK
<1>2. \A i \in Tasks : Ended(job[r][i]).phase \notin {"run", "finish"}
  BY DEF Ended, NoJob
<1> QED BY <1>1, <1>2, LeaveImplements DEF Crash

\* The handler's own steps: it ends, or it stops and leaves.
LEMMA HandlerImplements ==
    ASSUME IInv, NEW r \in Runners, NEW k \in Tasks,
           HandlerStops(r, k) \/ HandlerEnds(r, k) \/ ReleaseLock(r, k)
    PROVE  Promised!Leave(r, {k}) \/ UNCHANGED <<tasks, Working>>
<1>1. job \in [Runners -> [Tasks -> Job]] /\ tasks' = tasks
  BY DEF IInv, TypeOK, HandlerStops, HandlerEnds, ReleaseLock
<1>2. CASE HandlerStops(r, k)
  <2>1. \A p \in Runners, i \in Tasks :
          IF p = r /\ i = k THEN job'[p][i].phase = "done" ELSE job'[p][i] = job[p][i]
    BY <1>1, <1>2 DEF HandlerStops, JobBecomes, Job
  <2> QED BY <1>1, <2>1, LeaveImplements
<1>3. CASE ReleaseLock(r, k)
  <2>1. \A p \in Runners, i \in Tasks :
          IF p = r /\ i = k THEN job'[p][i].phase = "done" /\ job[p][i].phase = "release"
          ELSE job'[p][i] = job[p][i]
    BY <1>1, <1>3 DEF ReleaseLock, JobBecomes, Job
  <2> QED BY <1>1, <2>1, WorkingKept
<1>4. CASE HandlerEnds(r, k)
  <2>1. \A p \in Runners, i \in Tasks :
          IF p = r /\ i = k THEN job'[p][i].phase = "finish" /\ job[p][i].phase = "run"
          ELSE job'[p][i] = job[p][i]
    BY <1>1, <1>4 DEF HandlerEnds, JobBecomes, Job
  <2> QED BY <1>1, <2>1, WorkingKept
<1> QED BY <1>2, <1>3, <1>4

\* The heartbeat changes no phase.
LEMMA HeartbeatImplements ==
    ASSUME IInv, NEW r \in Runners, NEW k \in Tasks,
           HeartbeatTick(r, k) \/ RenewSystemTaskLock(r, k) \/ RenewalFails(r, k)
    PROVE  UNCHANGED <<tasks, Working>>
<1>1. job \in [Runners -> [Tasks -> Job]] /\ tasks' = tasks
  BY DEF IInv, TypeOK, HeartbeatTick, RenewSystemTaskLock, RenewalFails
<1>2. \A p \in Runners, i \in Tasks : job'[p][i].phase = job[p][i].phase
  <2>1. ASSUME NEW j, j.phase = job[r][k].phase, JobBecomes(r, k, j)
        PROVE  \A p \in Runners, i \in Tasks : job'[p][i].phase = job[p][i].phase
    BY <1>1, <2>1 DEF JobBecomes
  <2>2. PICK j : /\ JobBecomes(r, k, j)
                 /\ \/ j = [job[r][k] EXCEPT !.beat = now]
                    \/ \E b : j = [job[r][k] EXCEPT !.beat = NoBeat, !.beating = b]
    BY DEF HeartbeatTick, RenewSystemTaskLock, RenewalFails
  <2>3. job[r][k] \in Job
    BY <1>1
  <2>4. j.phase = job[r][k].phase
    BY <2>2, <2>3 DEF Job
  <2> QED BY <2>1, <2>2, <2>4
<1> QED BY <1>1, <1>2, WorkingKept

\* FinishSystemTask is Conclude, or, with the lease lost, Leave.
LEMMA FinishImplements ==
    ASSUME IInv, NEW r \in Runners, NEW k \in Tasks, FinishSystemTask(r, k)
    PROVE  Promised!Conclude(k, r) \/ Promised!Leave(r, {k})
<1> DEFINE owned == OwnsTask(r, k, job[r][k].t)
<1>1. job \in [Runners -> [Tasks -> Job]] /\ tasks \in [Tasks -> Row]
  BY DEF IInv, TypeOK
<1>2. job[r][k].phase = "finish" /\ job[r][k].result \in {"succeeded", "failed"}
  BY DEF FinishSystemTask, IInv, ResultsInv
<1>3. \A p \in Runners, i \in Tasks :
        IF p = r /\ i = k THEN job'[p][i].phase \in {"release", "done"}
        ELSE job'[p][i] = job[p][i]
  BY <1>1 DEF FinishSystemTask, JobBecomes, Job
<1>4. tasks' = IF owned THEN [tasks EXCEPT ![k].status = job[r][k].result] ELSE tasks
  BY DEF FinishSystemTask
<1>5. CASE owned
  <2>1. tasks[k].status = "running" /\ tasks[k].by = r
    BY <1>5 DEF OwnsTask
  <2>2. Working[k] = {r}
    BY <1>2, <2>1, WorkingAt, WorkerIsOwner
  <2>3. Working'[k] = {}
    <3>1. \A p \in Runners : p \in Working[k] => p = r
      BY <2>2
    <3>2. \A p \in Runners : ~(job'[p][k].phase \in {"run", "finish"})
      BY <1>3, <3>1, WorkingAt
    <3> QED BY <3>2, WorkingAt
  <2>4. ASSUME NEW i \in Tasks, i # k PROVE Working'[i] = Working[i]
    <3>1. \A p \in Runners : job'[p][i] = job[p][i]
      BY <1>3, <2>4
    <3> QED BY <3>1, WorkingSame
  <2>5. Working' = [Working EXCEPT ![k] = {}]
    BY <2>3, <2>4 DEF Working
  <2> HIDE DEF owned
  <2> QED BY <1>2, <1>4, <1>5, <2>1, <2>2, <2>5 DEF Promised!Conclude, Promised!Outcomes
<1>6. CASE ~owned
  <2> HIDE DEF owned
  <2>1. tasks' = tasks
    BY <1>4, <1>6
  <2> QED BY <1>3, <2>1, LeaveImplements
<1> QED BY <1>5, <1>6

\* Every step of SystemTasks is a step of TaskQueue or changes nothing there.
LEMMA StepImplements == IInv /\ [Next]_vars => [Promised!Next]_(Promised!vars)
<1> SUFFICES ASSUME IInv, [Next]_vars PROVE Promised!Next \/ UNCHANGED <<tasks, Working>>
  BY DEF Promised!vars
<1>1. ASSUME NEW k \in Tasks, CreateSystemTask(k) PROVE Promised!Next
  BY <1>1, CreateImplements DEF Promised!Next
<1>2. ASSUME tasks' = tasks, job' = job PROVE UNCHANGED <<tasks, Working>>
  BY <1>2, WorkingKept
<1>3. ASSUME NEW r \in Runners, LoopStep(r) PROVE Promised!Next \/ UNCHANGED <<tasks, Working>>
  <2>1. CASE FailExpiredTask(r) \/ ExpirePreviousTask(r)
    BY <2>1, MarkImplements DEF Promised!Next
  <2>2. CASE StartTask(r)
    BY <2>2, StartImplements DEF Promised!Next
  <2>3. CASE Crash(r)
    <3>1. Promised!Leave(r, Tasks) /\ Tasks \in SUBSET Tasks
      BY <2>3, CrashImplements
    <3> QED BY <3>1 DEF Promised!Next
  <2>4. \/ FailExpiredTask(r) \/ ExpirePreviousTask(r) \/ StartTask(r) \/ Crash(r)
        \/ tasks' = tasks /\ job' = job
    BY <1>3 DEF LoopStep, StartRunner, FindExpiredLock, DropExpiredLock, FindPendingTask,
       AcquireLock, StealLock, AbandonClaim, UndoClaim, PassFails
  <2> QED BY <1>2, <2>1, <2>2, <2>3, <2>4
<1>4. ASSUME NEW r \in Runners, NEW k \in Tasks, JobStep(r, k)
      PROVE  Promised!Next \/ UNCHANGED <<tasks, Working>>
  <2>1. {k} \in SUBSET Tasks
    OBVIOUS
  <2> QED BY <1>4, <2>1, HeartbeatImplements, HandlerImplements, FinishImplements
          DEF JobStep, Promised!Next
<1>5. Tick \/ UNCHANGED vars => tasks' = tasks /\ job' = job
  BY DEF Tick, vars
<1> QED BY <1>1, <1>2, <1>3, <1>4, <1>5 DEF Next

\* The initial states correspond.
LEMMA InitImplements == Init => Promised!Init
<1> SUFFICES ASSUME Init PROVE Promised!Init
  OBVIOUS
<1>1. \A k \in Tasks : Working[k] = {}
  BY WorkingAt DEF Init, NoJob
<1>2. Working = [k \in Tasks |-> {}]
  BY <1>1 DEF Working
<1> QED BY <1>2 DEF Init, NoRow, Promised!Init

\* service and model system_task.go: with any number of processes, statements that
\* interleave, fail or are lost in a crash, and leases that run out, tasks of one type
\* run one at a time and once, and only their own handler or the loss of the lease ends
\* them.
THEOREM TasksKeepPromise == Spec => KeepsPromise
BY InitImplements, StepImplements, Invariance, PTL DEF Spec, KeepsPromise, Promised!Spec

--------------------------------------------------------------------------------
(* Leases *)

\* An operation compares with a clock reading that is in the past.
ReadingsInv == now \in Nat /\ \A r \in Runners : loop[r].t <= now

\* The loops after a step of r.
LEMMA LoopsAfter ==
    ASSUME IInv, NEW r \in Runners, NEW l, LoopBecomes(r, l)
    PROVE  \A p \in Runners : loop'[p] = IF p = r THEN l ELSE loop[p]
BY DEF IInv, TypeOK, LoopBecomes

LEMMA ReadingsStep == IInv /\ ReadingsInv /\ [Next]_vars => ReadingsInv'
<1> SUFFICES ASSUME IInv, ReadingsInv, [Next]_vars PROVE ReadingsInv'
  OBVIOUS
<1>1. ASSUME loop' = loop, now' = now PROVE ReadingsInv'
  BY <1>1 DEF ReadingsInv
<1>2. ASSUME NEW r \in Runners, NEW l, LoopBecomes(r, l), now' = now,
             l.t = now \/ l.t = loop[r].t \/ l.t = 0
      PROVE  ReadingsInv'
  BY <1>2, LoopsAfter DEF ReadingsInv
<1>3. ASSUME NEW r \in Runners, LoopStep(r) PROVE ReadingsInv'
  <2>1. now' = now /\ loop[r] \in Loop
    BY <1>3 DEF LoopStep, StartRunner, Crash, FindExpiredLock, FailExpiredTask, DropExpiredLock,
         FindPendingTask, AcquireLock, StealLock, ExpirePreviousTask, StartTask, AbandonClaim,
         UndoClaim, PassFails, IInv, TypeOK
  <2>2. Ready.t = 0 /\ [Ready EXCEPT !.pc = "crashed"].t = 0
        /\ [Ready EXCEPT !.pc = "mark", !.t = now, !.seen = lock].t = now
        /\ \A k : [Ready EXCEPT !.pc = "acquire", !.task = k, !.t = now].t = now
    BY DEF Ready
  <2>3. \A pc : [loop[r] EXCEPT !.pc = pc].t = loop[r].t
                /\ [loop[r] EXCEPT !.pc = pc, !.seen = lock].t = loop[r].t
    BY <2>1 DEF Loop
  <2>4. CASE StartRunner(r) \/ Crash(r) \/ DropExpiredLock(r) \/ StartTask(r) \/ UndoClaim(r)
             \/ PassFails(r)
    BY <1>2, <2>1, <2>2, <2>4
       DEF StartRunner, Crash, DropExpiredLock, StartTask, UndoClaim, PassFails
  <2>5. CASE FindExpiredLock(r) \/ FindPendingTask(r)
    BY <1>2, <2>1, <2>2, <2>5 DEF FindExpiredLock, FindPendingTask
  <2>6. CASE FailExpiredTask(r) \/ ExpirePreviousTask(r) \/ AbandonClaim(r)
    BY <1>2, <2>1, <2>3, <2>6 DEF FailExpiredTask, ExpirePreviousTask, AbandonClaim
  <2>7. CASE AcquireLock(r)
    BY <1>2, <2>1, <2>2, <2>3, <2>7 DEF AcquireLock
  <2>8. CASE StealLock(r)
    BY <1>2, <2>1, <2>2, <2>3, <2>8 DEF StealLock
  <2> QED BY <1>3, <2>4, <2>5, <2>6, <2>7, <2>8 DEF LoopStep
<1>4. ASSUME NEW r \in Runners, NEW k \in Tasks, JobStep(r, k) PROVE ReadingsInv'
  BY <1>1, <1>4 DEF JobStep, HeartbeatTick, RenewSystemTaskLock, RenewalFails, HandlerStops,
       HandlerEnds, FinishSystemTask, ReleaseLock
<1>5. CASE Tick
  BY <1>5 DEF Tick, ReadingsInv, IInv, TypeOK, Loop
<1>6. ASSUME NEW k \in Tasks, CreateSystemTask(k) PROVE ReadingsInv'
  BY <1>1, <1>6 DEF CreateSystemTask
<1> QED BY <1>1, <1>3, <1>4, <1>5, <1>6 DEF Next, vars

\* The clock readings that the operations compare with.
LEMMA ReadingsInvariance == Spec => []ReadingsInv
<1>1. Init => ReadingsInv
  BY DEF Init, Ready, ReadingsInv
<1> QED BY <1>1, ReadingsStep, Invariance, PTL DEF Spec

\* Neither the clean-up nor a claim takes a lease that has not run out: the statement
\* that removes or replaces the row compares it again with the time of its operation,
\* which is past.  However many processes run and however long each is delayed.
THEOREM LeasesAreRespected == Spec => LiveLeaseRespected
<1> DEFINE Respected ==
             (lock # NoLock /\ lock.until >= now /\ <<lock.task, lock.by>> # <<lock'.task, lock'.by>>)
               => \/ At(lock.by, "undo")
                  \/ lock.task \in Tasks /\ job[lock.by][lock.task].phase = "release"
<1>1. ASSUME IInv, ReadingsInv, [Next]_vars PROVE Respected
  <2>1. ASSUME lock' = lock PROVE Respected
    BY <2>1
  <2>2. ASSUME NEW r \in Runners, lock.until < loop[r].t PROVE Respected
    <3>1. lock.until \in Int /\ loop[r].t \in Int /\ loop[r].t <= now /\ now \in Int
      BY <1>1 DEF IInv, TypeOK, Lock, Loop, ReadingsInv
    <3> QED BY <2>2, <3>1
  <2>3. ASSUME NEW r \in Runners, DropExpiredLock(r) PROVE Respected
    BY <2>1, <2>2, <2>3 DEF DropExpiredLock
  <2>4. ASSUME NEW r \in Runners, AcquireLock(r) PROVE Respected
    BY <2>4 DEF AcquireLock
  <2>5. ASSUME NEW r \in Runners, StealLock(r) PROVE Respected
    BY <2>1, <2>2, <2>5 DEF StealLock
  <2>6. ASSUME NEW r \in Runners, UndoClaim(r) PROVE Respected
    BY <2>6 DEF UndoClaim, Released
  <2>7. ASSUME NEW r \in Runners, NEW k \in Tasks, ReleaseLock(r, k) PROVE Respected
    BY <2>7 DEF ReleaseLock, Released
  <2>8. ASSUME NEW r \in Runners, NEW k \in Tasks, RenewSystemTaskLock(r, k) PROVE Respected
    <3>1. lock \in Lock
      BY <1>1 DEF IInv, TypeOK
    <3>2. lock'.task = lock.task /\ lock'.by = lock.by
      BY <2>8, <3>1 DEF RenewSystemTaskLock, Lock
    <3> QED BY <3>2
  <2>9. ASSUME NEW r \in Runners, LoopStep(r) PROVE Respected
    <3>1. lock' = lock \/ DropExpiredLock(r) \/ AcquireLock(r) \/ StealLock(r) \/ UndoClaim(r)
      BY <2>9 DEF LoopStep, StartRunner, Crash, FindExpiredLock, FailExpiredTask,
           FindPendingTask, ExpirePreviousTask, StartTask, AbandonClaim, PassFails
    <3> QED BY <2>1, <2>3, <2>4, <2>5, <2>6, <3>1
  <2>10. ASSUME NEW r \in Runners, NEW k \in Tasks, JobStep(r, k) PROVE Respected
    <3>1. lock' = lock \/ RenewSystemTaskLock(r, k) \/ ReleaseLock(r, k)
      BY <2>10 DEF JobStep, HeartbeatTick, RenewalFails, HandlerStops, HandlerEnds,
           FinishSystemTask
    <3> QED BY <2>1, <2>7, <2>8, <3>1
  <2>11. lock' = lock \/ (\E r \in Runners : LoopStep(r) \/ \E k \in Tasks : JobStep(r, k))
    BY <1>1 DEF Next, vars, CreateSystemTask, Tick
  <2> QED BY <2>1, <2>9, <2>10, <2>11
<1> QED BY <1>1, Invariance, ReadingsInvariance, PTL DEF Spec, LiveLeaseRespected

--------------------------------------------------------------------------------
(* One process at a time *)

\* The processes alive: at most one.
OneUp == \A p, r \in Runners : Up(p) /\ Up(r) => p = r

\* The unique index on active_key.
OneActive == \A i, k \in Tasks : Active(i) /\ Active(k) => i = k

\* A claim under way has a task that waits for it, and from the lock on the lock;
\* a clean-up about to delete a row has failed its task.
ClaimsHeld ==
    \A r \in Runners :
        /\ loop[r].pc \in {"acquire", "steal", "expire", "start", "undo"}
              => tasks[loop[r].task].status = "pending"
        /\ loop[r].pc \in {"expire", "start", "undo"}
              => lock.task = loop[r].task /\ lock.by = r
        /\ loop[r].pc = "drop"
              => \A k \in Tasks : k = loop[r].seen.task => tasks[k].status # "running"

\* The lock is released when the outcome is recorded.
ReleasesDone ==
    \A r \in Runners, k \in Tasks : job[r][k].phase = "release" => tasks[k].status # "running"

SingleInv == OneUp /\ OneActive /\ ClaimsHeld /\ ReleasesDone /\ RunningTaskIsLeased

\* The process that is up moves its loop, and perhaps the lock.
LEMMA SingleLoopStep ==
    ASSUME IInv, SingleInv, NEW r \in Runners, Up(r), NEW l, LoopBecomes(r, l),
           UNCHANGED <<tasks, job>>,
           l.pc \in {"acquire", "steal", "expire", "start", "undo"}
              => tasks[l.task].status = "pending",
           l.pc \in {"expire", "start", "undo"} => lock'.task = l.task /\ lock'.by = r,
           l.pc = "drop" => \A k \in Tasks : k = l.seen.task => tasks[k].status # "running",
           \A k \in Tasks : tasks[k].status = "running" => lock'.task = k
    PROVE  SingleInv'
<1>1. \A p \in Runners : loop'[p] = IF p = r THEN l ELSE loop[p]
  BY LoopsAfter
<1>2. \A p \in Runners : p # r => loop[p].pc \in {"off", "crashed"}
  BY DEF SingleInv, OneUp, Up
<1>3. OneUp'
  BY <1>1, <1>2 DEF OneUp, Up
<1>4. ClaimsHeld'
  BY <1>1, <1>2 DEF ClaimsHeld
<1> QED BY <1>3, <1>4 DEF SingleInv, OneActive, Active, ReleasesDone, RunningTaskIsLeased

\* ... or fails a running task, keeping the lock.
LEMMA SingleMarkStep ==
    ASSUME IInv, SingleInv, NEW r \in Runners, FailExpiredTask(r) \/ ExpirePreviousTask(r)
    PROVE  SingleInv'
<1> DEFINE s == loop[r].seen.task
<1>1. MarkSystemTaskLeaseExpired(s) /\ UNCHANGED <<lock, job>> /\ loop[r] \in Loop
  BY DEF FailExpiredTask, ExpirePreviousTask, IInv, TypeOK
<1>2. \A i \in Tasks : tasks'[i] # tasks[i] => tasks[i].status = "running"
                                               /\ tasks'[i].status = "failed"
  BY <1>1, MarkExpiredInv
<1>3. s \in Tasks => tasks'[s].status # "running"
  BY <1>1 DEF MarkSystemTaskLeaseExpired, IInv, TypeOK, Row
<1>4. PICK pc \in {"drop", "start"} :
        /\ LoopBecomes(r, [loop[r] EXCEPT !.pc = pc])
        /\ pc = "start" => loop[r].pc = "expire"
  BY DEF FailExpiredTask, ExpirePreviousTask, At
<1> DEFINE l == [loop[r] EXCEPT !.pc = pc]
<1>5. l.pc = pc /\ l.task = loop[r].task /\ l.seen.task = s
  BY <1>1 DEF Loop
<1>6. \A p \in Runners : loop'[p] = IF p = r THEN l ELSE loop[p]
  BY <1>4, LoopsAfter
<1> HIDE DEF l, s
<1>7. Up(r) /\ \A p \in Runners : p # r => loop[p].pc \in {"off", "crashed"}
  BY DEF FailExpiredTask, ExpirePreviousTask, At, SingleInv, OneUp, Up
<1>8. OneUp'
  BY <1>6, <1>7 DEF OneUp, Up
<1>9. OneActive' /\ RunningTaskIsLeased'
  BY <1>1, <1>2 DEF SingleInv, OneActive, Active, RunningTaskIsLeased
<1>10. ReleasesDone'
  BY <1>1, <1>2 DEF SingleInv, ReleasesDone
<1>11. ClaimsHeld'
  <2>1. loop[r].pc = "expire" => loop[r].task \in Tasks /\ tasks'[loop[r].task].status = "pending"
    BY <1>2 DEF IInv, ClaimsInv, SingleInv, ClaimsHeld
  <2> QED BY <1>1, <1>3, <1>4, <1>5, <1>6, <1>7, <2>1 DEF SingleInv, ClaimsHeld
<1> QED BY <1>8, <1>9, <1>10, <1>11 DEF SingleInv

\* ... or starts the task that its lock names.
LEMMA SingleStartStep ==
    ASSUME IInv, SingleInv, NEW r \in Runners, StartTask(r)
    PROVE  SingleInv'
<1>1. PICK k \in Tasks : k = loop[r].task
  BY DEF StartTask, At, IInv, ClaimsInv
<1> DEFINE row == [status |-> "running", by |-> r]
           j == [NoJob EXCEPT !.phase = "run", !.beating = TRUE]
<1>2. /\ tasks[k].status = "pending"
      /\ tasks' = [tasks EXCEPT ![k] = row]
      /\ JobBecomes(r, k, j) \/ job' = job
      /\ LoopBecomes(r, Ready) /\ lock' = lock
      /\ loop[r].pc = "start"
  BY <1>1 DEF StartTask, At
<1>3. /\ \A i \in Tasks : tasks'[i] = IF i = k THEN row ELSE tasks[i]
      /\ row.status = "running" /\ j.phase = "run"
  BY <1>2 DEF IInv, TypeOK, NoJob
<1>4. \A p \in Runners, i \in Tasks : job'[p][i].phase = "release" => job[p][i].phase = "release"
  <2>1. CASE job' = job
    BY <2>1
  <2>2. CASE JobBecomes(r, k, j)
    BY <1>3, <2>2 DEF JobBecomes, IInv, TypeOK
  <2> QED BY <1>2, <2>1, <2>2
<1>5. \A p \in Runners : loop'[p] = IF p = r THEN Ready ELSE loop[p]
  BY <1>2, LoopsAfter
<1> HIDE DEF row, j
<1>6. \A p \in Runners : p # r => loop[p].pc \in {"off", "crashed"}
  BY <1>2 DEF SingleInv, OneUp, Up
<1>7. OneUp' /\ ClaimsHeld'
  BY <1>5, <1>6, ReadyType DEF OneUp, Up, ClaimsHeld
<1>8. OneActive'
  BY <1>2, <1>3 DEF SingleInv, OneActive, Active
<1>9. ReleasesDone'
  BY <1>2, <1>3, <1>4 DEF SingleInv, ReleasesDone, IInv, JobsInv
<1>10. RunningTaskIsLeased'
  <2>1. lock.task = k
    BY <1>1, <1>2 DEF SingleInv, ClaimsHeld
  <2>2. \A i \in Tasks : tasks[i].status = "running" => i = k
    BY <1>2 DEF SingleInv, OneActive, Active
  <2> QED BY <1>2, <1>3, <2>1, <2>2 DEF RunningTaskIsLeased
<1> QED BY <1>7, <1>8, <1>9, <1>10 DEF SingleInv

\* A process starts only where none is up.
LEMMA SingleStartRunner ==
    ASSUME IInv, SingleInv, MaxLive = 1, NEW r \in Runners, StartRunner(r)
    PROVE  SingleInv'
<1> DEFINE S == {p \in Runners : Up(p)}
<1>1. \A p \in Runners : ~Up(p)
  <2> SUFFICES ASSUME NEW p \in Runners, Up(p) PROVE FALSE
    OBVIOUS
  <2>1. S = {p}
    BY DEF SingleInv, OneUp
  <2>2. Cardinality(S) = 1
    BY <2>1, FS_Singleton
  <2>3. Cardinality(S) < 1
    BY DEF StartRunner
  <2> QED BY <2>2, <2>3
<1>2. \A p \in Runners : loop'[p] = IF p = r THEN Ready ELSE loop[p]
  BY LoopsAfter DEF StartRunner
<1>3. OneUp' /\ ClaimsHeld'
  BY <1>1, <1>2, ReadyType DEF OneUp, Up, ClaimsHeld
<1> QED BY <1>3 DEF StartRunner, SingleInv, OneActive, Active, ReleasesDone, RunningTaskIsLeased

LEMMA SingleCrash ==
    ASSUME IInv, SingleInv, NEW r \in Runners, Crash(r)
    PROVE  SingleInv'
<1>1. \A p \in Runners : loop'[p] = IF p = r THEN [Ready EXCEPT !.pc = "crashed"] ELSE loop[p]
  BY LoopsAfter DEF Crash
<1>2. \A p \in Runners : p # r => loop[p].pc \in {"off", "crashed"}
  BY DEF Crash, SingleInv, OneUp, Up
<1>3. OneUp' /\ ClaimsHeld'
  <2>1. [Ready EXCEPT !.pc = "crashed"].pc = "crashed"
    BY DEF Ready
  <2> QED BY <1>1, <1>2, <2>1 DEF OneUp, Up, ClaimsHeld
<1>4. \A p \in Runners, k \in Tasks : job'[p][k].phase = "release" => job[p][k].phase = "release"
  BY DEF Crash, IInv, TypeOK, Ended, NoJob
<1>5. ReleasesDone'
  BY <1>4 DEF Crash, SingleInv, ReleasesDone
<1> QED BY <1>3, <1>5 DEF Crash, SingleInv, OneActive, Active, RunningTaskIsLeased

\* The statements of clean-up and claim that write no row.
LEMMA SingleLockStep ==
    ASSUME IInv, SingleInv, NEW r \in Runners,
           FindExpiredLock(r) \/ DropExpiredLock(r) \/ FindPendingTask(r) \/ AcquireLock(r)
           \/ StealLock(r) \/ AbandonClaim(r) \/ UndoClaim(r) \/ PassFails(r)
    PROVE  SingleInv'
<1>1. UNCHANGED <<tasks, job>> /\ Up(r) /\ loop[r] \in Loop /\ lock \in Lock
  BY DEF FindExpiredLock, DropExpiredLock, FindPendingTask, AcquireLock, StealLock, AbandonClaim,
         UndoClaim, PassFails, At, Up, IInv, TypeOK
<1>2. RunningTaskIsLeased
  BY DEF SingleInv
<1>3. \A k \in Tasks : tasks[k].status = "running" => lock.task = k
  BY <1>2 DEF RunningTaskIsLeased
<1>4. loop[r].pc \in {"acquire", "steal", "expire", "start", "undo"}
        => /\ tasks[loop[r].task].status = "pending"
           /\ \A k \in Tasks : tasks[k].status # "running"
  BY DEF SingleInv, ClaimsHeld, OneActive, Active, IInv, ClaimsInv
<1>5. ASSUME LoopBecomes(r, Ready), \A k \in Tasks : tasks[k].status = "running" => lock'.task = k
      PROVE  SingleInv'
  BY <1>1, <1>5, ReadyType, SingleLoopStep
<1>6. ASSUME NEW pc, LoopBecomes(r, [loop[r] EXCEPT !.pc = pc]),
             loop[r].pc \in {"acquire", "steal", "expire", "start", "undo"},
             pc \in {"expire", "start", "undo"}, lock'.task = loop[r].task, lock'.by = r
      PROVE  SingleInv'
  <2> DEFINE l == [loop[r] EXCEPT !.pc = pc]
  <2>1. l.pc = pc /\ l.task = loop[r].task
    BY <1>1 DEF Loop
  <2>2. LoopBecomes(r, l)
    BY <1>6
  <2> HIDE DEF l
  <2>3. tasks[l.task].status = "pending" /\ lock'.task = l.task /\ l.pc # "drop"
    BY <1>4, <1>6, <2>1
  <2> QED BY <1>1, <1>4, <1>6, <2>2, <2>3, SingleLoopStep
<1>7. CASE FindExpiredLock(r)
  <2> DEFINE l == [Ready EXCEPT !.pc = "mark", !.t = now, !.seen = lock]
  <2>1. l.pc = "mark"
    BY DEF Ready
  <2>2. LoopBecomes(r, l) /\ lock' = lock
    BY <1>7 DEF FindExpiredLock
  <2> HIDE DEF l
  <2> QED BY <1>1, <1>3, <2>1, <2>2, SingleLoopStep
<1>8. CASE FindPendingTask(r)
  <2>1. PICK k \in Tasks : tasks[k].status = "pending" /\
          LoopBecomes(r, [Ready EXCEPT !.pc = "acquire", !.task = k, !.t = now])
    BY <1>8 DEF FindPendingTask
  <2> DEFINE l == [Ready EXCEPT !.pc = "acquire", !.task = k, !.t = now]
  <2>2. l.pc = "acquire" /\ l.task = k /\ LoopBecomes(r, l) /\ lock' = lock
    BY <1>8, <2>1 DEF Ready, FindPendingTask
  <2> HIDE DEF l
  <2> QED BY <1>1, <1>3, <2>1, <2>2, SingleLoopStep
<1>9. CASE PassFails(r)
  BY <1>3, <1>5, <1>9 DEF PassFails
<1>10. CASE AbandonClaim(r)
  <2>1. lock.task = loop[r].task /\ lock.by = r
    BY <1>10 DEF AbandonClaim, SingleInv, ClaimsHeld
  <2> QED BY <1>6, <1>10, <2>1 DEF AbandonClaim
<1>11. CASE UndoClaim(r)
  BY <1>4, <1>5, <1>11 DEF UndoClaim, At
<1>12. CASE DropExpiredLock(r)
  <2>1. \A k \in Tasks : tasks[k].status = "running" => lock'.task = k
    BY <1>3, <1>12 DEF DropExpiredLock, At, SingleInv, ClaimsHeld
  <2> QED BY <1>5, <1>12, <2>1 DEF DropExpiredLock
<1>13. Lease(r).task = loop[r].task /\ Lease(r).by = r
  BY DEF Lease
<1>14. CASE StealLock(r)
  <2>1. CASE lock # NoLock /\ lock.until < loop[r].t
    BY <1>6, <1>13, <1>14, <2>1 DEF StealLock, At
  <2>2. CASE ~(lock # NoLock /\ lock.until < loop[r].t)
    BY <1>4, <1>5, <1>14, <2>2 DEF StealLock, At
  <2> QED BY <2>1, <2>2
<1>15. CASE AcquireLock(r)
  <2>1. CASE lock = NoLock
    BY <1>6, <1>13, <1>15, <2>1 DEF AcquireLock, At
  <2>2. CASE lock # NoLock /\ lock.until >= loop[r].t
    BY <1>4, <1>5, <1>15, <2>2 DEF AcquireLock, At
  <2>3. CASE lock # NoLock /\ ~(lock.until >= loop[r].t)
    <3> DEFINE l == [loop[r] EXCEPT !.pc = "steal", !.seen = lock]
    <3>1. l.pc = "steal" /\ l.task = loop[r].task
      BY <1>1 DEF Loop
    <3>2. LoopBecomes(r, l) /\ loop[r].pc = "acquire"
      BY <1>15, <2>3 DEF AcquireLock, At
    <3> HIDE DEF l
    <3> QED BY <1>1, <1>4, <3>1, <3>2, SingleLoopStep
  <2> QED BY <2>1, <2>2, <2>3
<1> QED BY <1>7, <1>8, <1>9, <1>10, <1>11, <1>12, <1>14, <1>15

LEMMA SingleCreate ==
    ASSUME IInv, SingleInv, NEW k \in Tasks, CreateSystemTask(k)
    PROVE  SingleInv'
<1>1. /\ \A i \in Tasks : ~Active(i)
      /\ \A i \in Tasks : i # k => tasks'[i] = tasks[i]
      /\ tasks'[k].status = "pending"
      /\ UNCHANGED <<lock, loop, job>>
  BY DEF CreateSystemTask, IInv, TypeOK, NoRow
<1>2. \A r \in Runners : loop[r].pc \notin {"acquire", "steal", "expire", "start", "undo"}
  BY <1>1 DEF IInv, ClaimsInv, SingleInv, ClaimsHeld, Active
<1>3. OneActive' /\ RunningTaskIsLeased' /\ ReleasesDone'
  BY <1>1 DEF OneActive, Active, RunningTaskIsLeased, ReleasesDone
<1>4. ClaimsHeld'
  BY <1>1, <1>2 DEF SingleInv, ClaimsHeld, Active
<1> QED BY <1>1, <1>3, <1>4 DEF SingleInv, OneUp, Up

\* A goroutine: it writes no row but the one it finishes, and lets go of no lock but
\* that of a task that is finished.
LEMMA SingleJobStep ==
    ASSUME IInv, SingleInv, NEW r \in Runners, NEW k \in Tasks, JobStep(r, k)
    PROVE  SingleInv'
<1>1. loop' = loop
  BY DEF JobStep, HeartbeatTick, RenewSystemTaskLock, RenewalFails, HandlerStops, HandlerEnds,
         FinishSystemTask, ReleaseLock
<1>2. job[r][k] \in Job /\ lock \in Lock /\ tasks \in [Tasks -> Row]
  BY DEF IInv, TypeOK
<1>3. ASSUME NEW j, JobBecomes(r, k, j)
      PROVE  \A p \in Runners, i \in Tasks : job'[p][i] = IF p = r /\ i = k THEN j ELSE job[p][i]
  BY <1>3 DEF JobBecomes, IInv, TypeOK
<1>4. ASSUME \A p \in Runners, i \in Tasks :
                job'[p][i].phase = "release" => job[p][i].phase = "release",
             tasks' = tasks, lock'.task = lock.task, lock'.by = lock.by
      PROVE  SingleInv'
  BY <1>1, <1>4
     DEF SingleInv, OneUp, Up, OneActive, Active, ClaimsHeld, ReleasesDone, RunningTaskIsLeased
<1>5. CASE HeartbeatTick(r, k) \/ RenewalFails(r, k) \/ HandlerStops(r, k) \/ HandlerEnds(r, k)
  <2>1. UNCHANGED <<tasks, lock>>
    BY <1>5 DEF HeartbeatTick, RenewalFails, HandlerStops, HandlerEnds
  <2>2. \A b, t, x :
           /\ [job[r][k] EXCEPT !.beat = t].phase = job[r][k].phase
           /\ [job[r][k] EXCEPT !.beat = t, !.beating = b].phase = job[r][k].phase
           /\ [job[r][k] EXCEPT !.phase = "done", !.beating = b].phase = "done"
           /\ [job[r][k] EXCEPT !.phase = "finish", !.t = t, !.result = x].phase = "finish"
    BY <1>2 DEF Job
  <2>3. ASSUME NEW j, JobBecomes(r, k, j), j.phase = "release" => job[r][k].phase = "release"
        PROVE  SingleInv'
    BY <1>3, <1>4, <2>1, <2>3
  <2>4. CASE HeartbeatTick(r, k)
    BY <2>2, <2>3, <2>4 DEF HeartbeatTick
  <2>5. CASE RenewalFails(r, k)
    <3> DEFINE j == [job[r][k] EXCEPT !.beat = NoBeat, !.beating = FALSE]
    <3>1. JobBecomes(r, k, j)
      BY <2>5 DEF RenewalFails
    <3>2. j.phase = job[r][k].phase
      BY <1>2 DEF Job
    <3> HIDE DEF j
    <3> QED BY <2>3, <3>1, <3>2
  <2>6. CASE HandlerStops(r, k)
    BY <2>2, <2>3, <2>6 DEF HandlerStops
  <2>7. CASE HandlerEnds(r, k)
    BY <2>2, <2>3, <2>7 DEF HandlerEnds
  <2> QED BY <1>5, <2>4, <2>5, <2>6, <2>7
<1>6. CASE RenewSystemTaskLock(r, k)
  <2>1. tasks' = tasks /\ lock'.task = lock.task /\ lock'.by = lock.by
    BY <1>2, <1>6 DEF RenewSystemTaskLock, Lock
  <2> DEFINE j == [job[r][k] EXCEPT !.beat = NoBeat, !.beating = Holds(r, k, job[r][k].beat)]
  <2>2. JobBecomes(r, k, j)
    BY <1>6 DEF RenewSystemTaskLock
  <2>3. j.phase = job[r][k].phase
    BY <1>2 DEF Job
  <2> HIDE DEF j
  <2> QED BY <1>3, <1>4, <2>1, <2>2, <2>3
<1>7. CASE FinishSystemTask(r, k)
  <2>1. lock' = lock
    BY <1>7 DEF FinishSystemTask
  <2>2. job[r][k].result \in {"succeeded", "failed"}
    BY <1>7 DEF FinishSystemTask, IInv, ResultsInv
  <2>3. /\ \A i \in Tasks : i # k => tasks'[i] = tasks[i]
        /\ \/ tasks'[k] = tasks[k]
           \/ tasks[k].status = "running" /\ tasks'[k].status \in {"succeeded", "failed"}
    <3>1. CASE OwnsTask(r, k, job[r][k].t)
      <4>1. tasks' = [tasks EXCEPT ![k].status = job[r][k].result]
        BY <1>7, <3>1 DEF FinishSystemTask
      <4>2. tasks[k].status = "running"
        BY <3>1 DEF OwnsTask
      <4>3. tasks'[k].status = job[r][k].result /\ \A i \in Tasks : i # k => tasks'[i] = tasks[i]
        BY <1>2, <4>1 DEF Row
      <4> QED BY <2>2, <4>2, <4>3
    <3>2. CASE ~OwnsTask(r, k, job[r][k].t)
      <4>1. tasks' = tasks
        BY <1>7, <3>2 DEF FinishSystemTask
      <4> QED BY <4>1
    <3> QED BY <3>1, <3>2
  <2> DEFINE owned == OwnsTask(r, k, job[r][k].t)
             j == [job[r][k] EXCEPT !.phase = IF owned THEN "release" ELSE "done",
                                    !.beating = owned /\ job[r][k].beating]
  <2>4. JobBecomes(r, k, j) /\ (j.phase = "release" => tasks'[k].status # "running")
    <3>1. owned => tasks'[k].status # "running"
      <4> SUFFICES ASSUME owned PROVE tasks'[k].status # "running"
        OBVIOUS
      <4>1. tasks' = [tasks EXCEPT ![k].status = job[r][k].result]
        BY <1>7 DEF FinishSystemTask
      <4>2. tasks'[k].status = job[r][k].result
        BY <1>2, <4>1 DEF Row
      <4> QED BY <2>2, <4>2
    <3>2. JobBecomes(r, k, j)
      <4>1. job[r][k] = [job[r][k] EXCEPT !.phase = job[r][k].phase]
        BY <1>2 DEF Job
      <4> QED BY <1>2, <1>7, <4>1 DEF FinishSystemTask, Job
    <3>3. j.phase = IF owned THEN "release" ELSE "done"
      BY <1>2 DEF Job
    <3> HIDE DEF j, owned
    <3> QED BY <3>1, <3>2, <3>3
  <2> HIDE DEF j, owned
  <2>5. ReleasesDone'
    BY <1>3, <2>3, <2>4 DEF SingleInv, ReleasesDone
  <2>6. ClaimsHeld'
    <3>1. \A p \in Runners : loop[p].pc \in {"acquire", "steal", "expire", "start", "undo"}
             => loop[p].task \in Tasks
      BY DEF IInv, ClaimsInv
    <3> QED BY <1>1, <2>1, <2>3, <3>1 DEF SingleInv, ClaimsHeld
  <2>7. OneActive' /\ RunningTaskIsLeased'
    BY <2>1, <2>3 DEF SingleInv, OneActive, Active, RunningTaskIsLeased
  <2> QED BY <1>1, <2>5, <2>6, <2>7 DEF SingleInv, OneUp, Up
<1>8. CASE ReleaseLock(r, k)
  <2>1. tasks' = tasks /\ tasks[k].status \notin {"running", "pending"}
    BY <1>8 DEF ReleaseLock, SingleInv, ReleasesDone, IInv, JobsInv
  <2>2. lock' = lock \/ lock.task = k
    BY <1>8 DEF ReleaseLock, Released
  <2> DEFINE j == [job[r][k] EXCEPT !.phase = "done", !.beating = FALSE]
  <2>3. JobBecomes(r, k, j) /\ j.phase = "done"
    BY <1>2, <1>8 DEF ReleaseLock, Job
  <2> HIDE DEF j
  <2>4. ReleasesDone'
    BY <1>3, <2>1, <2>3 DEF SingleInv, ReleasesDone
  <2>5. ClaimsHeld' /\ RunningTaskIsLeased'
    BY <1>1, <2>1, <2>2 DEF SingleInv, ClaimsHeld, RunningTaskIsLeased
  <2> QED BY <1>1, <2>1, <2>4, <2>5 DEF SingleInv, OneUp, Up, OneActive, Active
<1> QED BY <1>5, <1>6, <1>7, <1>8 DEF JobStep

LEMMA SingleStep == MaxLive = 1 /\ IInv /\ SingleInv /\ [Next]_vars => SingleInv'
<1> SUFFICES ASSUME MaxLive = 1, IInv, SingleInv, [Next]_vars PROVE SingleInv'
  OBVIOUS
<1>1. CASE Tick \/ UNCHANGED vars
  BY <1>1 DEF Tick, vars, SingleInv, OneUp, Up, OneActive, Active, ClaimsHeld, ReleasesDone,
       RunningTaskIsLeased
<1>2. ASSUME NEW r \in Runners, LoopStep(r) PROVE SingleInv'
  BY <1>2, SingleStartRunner, SingleCrash, SingleMarkStep, SingleStartStep, SingleLockStep
     DEF LoopStep
<1> QED BY <1>1, <1>2, SingleCreate, SingleJobStep DEF Next

\* Where one process runs at a time, restarted as often as it may be, a running task is
\* always the one the lock row names, whatever leases ran out in between: when its
\* process dies, the clean-up of the next one finds it.  (With more processes a claim
\* that is delayed beyond its lease can start a task whose row was given to another.)
THEOREM RunningTaskKeepsLease == MaxLive = 1 => (Spec => []RunningTaskIsLeased)
<1> SUFFICES ASSUME MaxLive = 1 PROVE Spec => []RunningTaskIsLeased
  OBVIOUS
<1>1. Init => SingleInv
  BY DEF Init, Ready, NoRow, NoJob, SingleInv, OneUp, Up, OneActive, Active, ClaimsHeld,
         ReleasesDone, RunningTaskIsLeased
<1>2. IInv /\ SingleInv /\ [Next]_vars => SingleInv'
  BY SingleStep
<1>3. SingleInv => RunningTaskIsLeased
  BY DEF SingleInv
<1> QED BY <1>1, <1>2, <1>3, Invariance, PTL DEF Spec

================================================================================
