------------------------------- MODULE TaskQueue -------------------------------
(***************************************************************************)
(* What the background tasks of one type promise, without leases, clocks   *)
(* or statements (SystemTasks implements it): one task at a time is        *)
(* pending or running, a task is claimed once, and only the handler that   *)
(* claimed it records an outcome of its work.  A handler may be gone       *)
(* without a word, and a running task may be failed under its handler,     *)
(* which then records nothing any more.                                    *)
(***************************************************************************)
CONSTANTS Tasks, Runners, NoRunner

VARIABLES
    row,    \* status of every task, and who claimed it
    work    \* the runners whose handler is at work on it

vars == <<row, work>>

Outcomes == {"succeeded", "failed"}

Init ==
    /\ row = [k \in Tasks |-> [status |-> "absent", by |-> NoRunner]]
    /\ work = [k \in Tasks |-> {}]

Submit(k) ==
    /\ row[k].status = "absent"
    /\ \A p \in Tasks : row[p].status \notin {"pending", "running"}
    /\ row' = [row EXCEPT ![k] = [status |-> "pending", by |-> NoRunner]]
    /\ UNCHANGED work

\* The handler may fail to start; the task is claimed all the same.
Claim(k, r) ==
    /\ row[k].status = "pending" /\ work[k] = {}
    /\ row' = [row EXCEPT ![k] = [status |-> "running", by |-> r]]
    /\ work' \in {[work EXCEPT ![k] = {r}], work}

Conclude(k, r) ==
    /\ row[k].status = "running" /\ row[k].by = r /\ work[k] = {r}
    /\ \E outcome \in Outcomes : row' = [row EXCEPT ![k].status = outcome]
    /\ work' = [work EXCEPT ![k] = {}]

\* The handlers of a runner end without an outcome: one of them, or all with
\* their process.
Leave(r, gone) ==
    /\ work' = [k \in Tasks |-> IF k \in gone THEN work[k] \ {r} ELSE work[k]]
    /\ UNCHANGED row

Expire(k) ==
    /\ row[k].status = "running"
    /\ row' = [row EXCEPT ![k].status = "failed"]
    /\ UNCHANGED work

Next ==
    \/ \E k \in Tasks : Submit(k) \/ Expire(k)
    \/ \E k \in Tasks, r \in Runners : Claim(k, r) \/ Conclude(k, r)
    \/ \E r \in Runners, gone \in SUBSET Tasks : Leave(r, gone)

Spec == Init /\ [][Next]_vars
================================================================================
