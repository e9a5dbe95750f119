----------------------------- MODULE LlmTaskQueue -----------------------------
(***************************************************************************)
(* The asynchronous task queue of llm_service: TaskManager (submit, claim, *)
(* complete, fail, cancel), the Worker coroutines that execute chat,       *)
(* embedding and rerank tasks, the LeaseRecovery coroutine, the retry      *)
(* endpoint, and the requeue done when the service starts and stops.       *)
(*                                                                         *)
(* Every statement sent through LlmRuntimeDB is its own transaction        *)
(* (db.py), so every statement is a step and processes interleave between  *)
(* statements.  pc[p] is the statement process p sends next; ctx[p] is the *)
(* Python handler that catches an exception raised there:                  *)
(*   "try"  - the executor's own except block,                             *)
(*   "net"  - the safety net of Worker._execute_task,                      *)
(*   "loop" - the endless loop of Worker or LeaseRecovery, which logs it.  *)
(***************************************************************************)
EXTENDS Naturals, FiniteSets

CONSTANTS
  Tasks,       \* ids of agent_llm_tasks rows
  ChatTasks,   \* those with task_type chat; the others are embedding or rerank
  Workers,     \* the worker coroutines of the service process
  Recovery,    \* its LeaseRecovery coroutine
  Clients,     \* concurrent callers of the retry endpoint
  Rank,        \* position in ORDER BY priority DESC, created_at ASC
  MaxAttempts, \* column max_attempts (the API admits no value below 1)
  LeaseOutlivesAttempt,  \* TRUE: no attempt runs longer than lease_duration
  FaultySteps, \* the statements that may raise instead of committing; "start" and
               \* "stop" are the requeues at either end of the service's life
  MaxFaults,   \* bound: how many of them do
  MaxStops,    \* bound: crashes and shutdowns of the service process
  MaxRetries,  \* bound: calls of the retry endpoint
  NoTask       \* the value of a variable that names no task

Procs == Workers \cup {Recovery}

Steps == {"idle", "claimed", "read_no", "insert", "call", "mark", "store", "complete",
          "mark_bad", "mark_exc", "fail_read", "fail_write", "emit"}

ASSUME QueueAssumption ==
  /\ ChatTasks \subseteq Tasks
  /\ NoTask \notin Tasks
  /\ Recovery \notin Workers
  /\ Rank \in [Tasks -> Nat]
  /\ MaxAttempts \in Nat \ {0}
  /\ LeaseOutlivesAttempt \in BOOLEAN
  /\ FaultySteps \subseteq Steps \cup {"start", "stop"}
  /\ MaxFaults \in Nat /\ MaxStops \in Nat /\ MaxRetries \in Nat

VARIABLES
  up,        \* the service process is running its coroutines
  closing,   \* its shutdown has begun and not yet ended
  status,    \* agent_llm_tasks.status; "absent" before the row exists
  count,     \* agent_llm_tasks.attempt_count
  due,       \* available_at <= now
  expired,   \* tasks whose lease_expires_at has passed
  attempts,  \* rows of agent_llm_attempts as <<task, attempt_no, status>>
  results,   \* rows of agent_llm_results as <<task, attempt_no, usable>>
  pc, ctx,   \* control state of each process, see above
  cur,       \* the task a process works on
  no,        \* attempt_no of the attempt a worker owns, 0 before the INSERT
  seen,      \* the attempt_count read by the SELECT of TaskManager.fail
  batch,     \* expired tasks LeaseRecovery has selected and not yet handled
  asked,     \* the task a client is retrying, its status check being passed
  faults, stops, retries  \* uses of the bounds

taskVars   == <<status, count, due, expired>>
rowVars    == <<attempts, results>>
procVars   == <<pc, ctx, cur, no, seen, batch>>
boundVars  == <<faults, stops, retries>>
vars == <<up, closing, taskVars, rowVars, procVars, asked, boundVars>>

-----------------------------------------------------------------------------
TaskStatus == {"absent", "queued", "running", "succeeded", "dead_letter", "cancelled"}
Settled == {"succeeded", "dead_letter", "cancelled"}
AttemptStatus == {"running", "succeeded", "failed"}

\* Mutant: no UNIQUE (task_id, attempt_no).
AttemptExistsNever(t, n) == FALSE
AttemptExists(t, n) == \E s \in AttemptStatus : <<t, n, s>> \in attempts
Running == {t \in Tasks : status[t] = "running"}

\* Mutant: the WHERE clause matches no row.
MarkAttemptMissed(t, n, s) == UNCHANGED attempts

\* UPDATE agent_llm_attempts SET status = s WHERE id = <the attempt n of t>.
MarkAttempt(t, n, s) ==
  attempts' = IF AttemptExists(t, n)
              THEN {a \in attempts : ~(a[1] = t /\ a[2] = n)} \cup {<<t, n, s>>}
              ELSE attempts

Goto(p, step) == pc' = [pc EXCEPT ![p] = step]

\* Process p finishes its task, in the way the code returns to its loop.
Finish(p) ==
  /\ pc'   = [pc EXCEPT ![p] = "idle"]
  /\ ctx'  = [ctx EXCEPT ![p] = "loop"]
  /\ cur'  = [cur EXCEPT ![p] = NoTask]
  /\ no'   = [no EXCEPT ![p] = 0]
  /\ seen' = [seen EXCEPT ![p] = 0]

\* The exception handler in force at process p takes over.  n is the attempt
\* number the handler can update, 0 when the INSERT never committed.
Raise(p, n) ==
  \/ /\ ctx[p] = "try"
     /\ Goto(p, "mark_exc") /\ ctx' = [ctx EXCEPT ![p] = "net"]
     /\ no' = [no EXCEPT ![p] = n]
     /\ UNCHANGED <<cur, seen, batch>>
  \/ /\ ctx[p] = "net"
     /\ Goto(p, "fail_read") /\ ctx' = [ctx EXCEPT ![p] = "loop"]
     /\ no' = [no EXCEPT ![p] = n]
     /\ UNCHANGED <<cur, seen, batch>>
  \/ /\ ctx[p] = "loop"
     /\ Finish(p)
     /\ batch' = IF p = Recovery THEN {} ELSE batch

At(p, step) == up /\ pc[p] = step

NoProcess ==
  /\ pc = [p \in Procs |-> "idle"]
  /\ ctx = [p \in Procs |-> "loop"]
  /\ cur = [p \in Procs |-> NoTask]
  /\ no = [p \in Procs |-> 0]
  /\ seen = [p \in Procs |-> 0]
  /\ batch = {}

Init ==
  /\ up = TRUE /\ closing = FALSE
  /\ status = [t \in Tasks |-> "absent"]
  /\ count = [t \in Tasks |-> 0]
  /\ due = [t \in Tasks |-> TRUE]
  /\ expired = {}
  /\ attempts = {} /\ results = {}
  /\ NoProcess
  /\ asked = [c \in Clients |-> NoTask]
  /\ faults = 0 /\ stops = 0 /\ retries = 0

-----------------------------------------------------------------------------
(* The API.                                                                *)

\* The server accepts requests: they have ended when the shutdown begins.
Open == up /\ ~closing

Submit(t) ==
  /\ Open /\ status[t] = "absent"
  /\ status' = [status EXCEPT ![t] = "queued"]
  /\ UNCHANGED <<up, closing, count, due, expired, rowVars, procVars, asked, boundVars>>

\* Mutant: a running task can be cancelled too.
CancellableRunning(t) == status[t] \in {"queued", "running"}
Cancellable(t) == status[t] = "queued"

\* POST /tasks/{id}/cancel and /tasks/batch-cancel: one guarded UPDATE.
Cancel(S) ==
  /\ Open
  /\ S # {} /\ \A t \in S : Cancellable(t)
  /\ status' = [t \in Tasks |-> IF t \in S THEN "cancelled" ELSE status[t]]
  /\ UNCHANGED <<up, closing, count, due, expired, rowVars, procVars, asked, boundVars>>

\* No statement gives a task the status failed, but the endpoint accepts it.
Retryable == {"failed", "dead_letter", "cancelled"}

\* POST /tasks/{id}/retry: the SELECT that checks the status ...
RetryCheck(c, t) ==
  /\ Open /\ asked[c] = NoTask /\ retries < MaxRetries
  /\ status[t] \in Retryable
  /\ asked' = [asked EXCEPT ![c] = t]
  /\ retries' = retries + 1
  /\ UNCHANGED <<up, closing, taskVars, rowVars, procVars, faults, stops>>

\* ... and the UPDATE, which does not check it again.
RetryUpdate(c) ==
  /\ up /\ asked[c] # NoTask
  /\ status' = [status EXCEPT ![asked[c]] = "queued"]
  /\ count' = [count EXCEPT ![asked[c]] = 0]
  /\ due' = [due EXCEPT ![asked[c]] = TRUE]
  /\ expired' = expired \ {asked[c]}
  /\ asked' = [asked EXCEPT ![c] = NoTask]
  /\ UNCHANGED <<up, closing, rowVars, procVars, boundVars>>

-----------------------------------------------------------------------------
(* Worker: claim and execute.                                              *)

\* Mutant: the subquery of claim does not look at the status of a due task.
ClaimableRunning(t) == status[t] \in {"queued", "running"} /\ due[t]
Claimable(t) == status[t] = "queued" /\ due[t]

Claim(w, t) ==
  /\ At(w, "idle") /\ Claimable(t)
  /\ \A u \in Tasks : Claimable(u) => Rank[t] <= Rank[u]
  /\ status' = [status EXCEPT ![t] = "running"]
  /\ expired' = expired \ {t}
  /\ Goto(w, "claimed")
  /\ cur' = [cur EXCEPT ![w] = t]
  /\ UNCHANGED <<up, closing, count, due, rowVars, ctx, no, seen, batch, asked, boundVars>>

\* The "claimed" event is written and _execute_task reads the task and request
\* rows.  Only the chat executor reads attempt_count inside its own try.
Dispatch(w) ==
  /\ At(w, "claimed")
  /\ Goto(w, "read_no")
  /\ ctx' = [ctx EXCEPT ![w] = IF cur[w] \in ChatTasks THEN "try" ELSE "net"]
  /\ UNCHANGED <<up, closing, taskVars, rowVars, cur, no, seen, batch, asked, boundVars>>

ReadAttemptNo(w) ==
  /\ At(w, "read_no")
  /\ Goto(w, "insert")
  /\ no' = [no EXCEPT ![w] = count[cur[w]] + 1]
  /\ UNCHANGED <<up, closing, taskVars, rowVars, ctx, cur, seen, batch, asked, boundVars>>

\* INSERT of the attempt row; UNIQUE (task_id, attempt_no) may reject it.
InsertAttempt(w) ==
  /\ At(w, "insert")
  /\ ~AttemptExists(cur[w], no[w])
  /\ attempts' = attempts \cup {<<cur[w], no[w], "running">>}
  /\ Goto(w, "call")
  /\ ctx' = [ctx EXCEPT ![w] = "try"]
  /\ UNCHANGED <<up, closing, taskVars, results, cur, no, seen, batch, asked, boundVars>>

InsertRejected(w) ==
  /\ At(w, "insert")
  /\ AttemptExists(cur[w], no[w])
  /\ Raise(w, 0)
  /\ UNCHANGED <<up, closing, taskVars, rowVars, asked, boundVars>>

ProviderAnswers(w) ==
  /\ At(w, "call")
  /\ Goto(w, "mark")
  /\ UNCHANGED <<up, closing, taskVars, rowVars, ctx, cur, no, seen, batch, asked, boundVars>>

\* A provider error, or an embedding that _validate_embedding_result rejects.
ProviderRaises(w) ==
  /\ At(w, "call")
  /\ Raise(w, no[w])
  /\ UNCHANGED <<up, closing, taskVars, rowVars, asked, boundVars>>

MarkSucceeded(w) ==
  /\ At(w, "mark")
  /\ MarkAttempt(cur[w], no[w], "succeeded")
  /\ Goto(w, "store")
  /\ UNCHANGED <<up, closing, taskVars, results, ctx, cur, no, seen, batch, asked, boundVars>>

\* Mutant: an answer that does not parse completes the task.
AfterStoreAlways(usable) == "complete"
AfterStore(usable) == IF usable THEN "complete" ELSE "mark_bad"

\* The result row is written whatever the parser says of a chat answer.
StoreResult(w) ==
  /\ At(w, "store")
  /\ \E usable \in BOOLEAN :
       /\ usable \/ cur[w] \in ChatTasks
       /\ results' = results \cup {<<cur[w], no[w], usable>>}
       /\ Goto(w, AfterStore(usable))
  /\ UNCHANGED <<up, closing, taskVars, attempts, ctx, cur, no, seen, batch, asked, boundVars>>

\* TaskManager.complete: an UPDATE that does not look at the status.
Complete(w) ==
  /\ At(w, "complete")
  /\ status' = [status EXCEPT ![cur[w]] = "succeeded"]
  /\ count' = [count EXCEPT ![cur[w]] = @ + 1]
  /\ Goto(w, "emit")
  /\ UNCHANGED <<up, closing, due, expired, rowVars, ctx, cur, no, seen, batch, asked, boundVars>>

\* The attempt is marked failed: after a parse failure, or in the except block.
MarkFailed(w) ==
  /\ At(w, "mark_bad") \/ At(w, "mark_exc")
  /\ MarkAttempt(cur[w], no[w], "failed")
  /\ Goto(w, "fail_read")
  /\ UNCHANGED <<up, closing, taskVars, results, ctx, cur, no, seen, batch, asked, boundVars>>

-----------------------------------------------------------------------------
(* TaskManager.fail, called by workers and by LeaseRecovery.               *)

FailRead(p) ==
  /\ At(p, "fail_read")
  /\ seen' = [seen EXCEPT ![p] = count[cur[p]]]
  /\ Goto(p, "fail_write")
  /\ UNCHANGED <<up, closing, taskVars, rowVars, ctx, cur, no, batch, asked, boundVars>>

\* Mutant: one attempt too many.
AttemptsLeftOneMore(n) == n <= MaxAttempts
AttemptsLeft(n) == n < MaxAttempts

\* Mutant: an exhausted task gets the status of an attempt.
AfterFailureFailed(again) == IF again THEN "queued" ELSE "failed"
AfterFailure(again) == IF again THEN "queued" ELSE "dead_letter"

\* The UPDATE writes from the count read before and does not look at the status.
FailWrite(p) ==
  /\ At(p, "fail_write")
  /\ LET t == cur[p]
         again == AttemptsLeft(seen[p] + 1)
     IN /\ count' = [count EXCEPT ![t] = seen[p] + 1]
        /\ status' = [status EXCEPT ![t] = AfterFailure(again)]
        /\ due' = [due EXCEPT ![t] = IF again THEN FALSE ELSE @]
  /\ Goto(p, "emit")
  /\ UNCHANGED <<up, closing, expired, rowVars, ctx, cur, no, seen, batch, asked, boundVars>>

\* Mutant: the except block re-raises after fail, so the safety net fails again.
EmitReraise(p) ==
  /\ At(p, "emit")
  /\ IF ctx[p] = "net" THEN Raise(p, no[p]) ELSE Finish(p) /\ UNCHANGED batch
  /\ UNCHANGED <<up, closing, taskVars, rowVars, asked, boundVars>>

\* The event that closes complete and fail is written; the caller returns.
Emit(p) ==
  /\ At(p, "emit")
  /\ Finish(p)
  /\ UNCHANGED <<up, closing, taskVars, rowVars, batch, asked, boundVars>>

-----------------------------------------------------------------------------
(* LeaseRecovery._recover.                                                 *)

\* Mutant: only tasks with no attempt left are recovered.
RecoverableExhausted == {t \in expired \cap Running : count[t] >= MaxAttempts}
Recoverable == expired \cap Running

RecoveryScan ==
  /\ At(Recovery, "idle") /\ ~closing /\ batch = {}
  /\ batch' = Recoverable
  /\ batch' # {}
  /\ UNCHANGED <<up, closing, taskVars, rowVars, pc, ctx, cur, no, seen, asked, boundVars>>

\* Every running attempt of the task is marked failed, then fail() is called.
RecoveryPick(t) ==
  /\ At(Recovery, "idle") /\ ~closing /\ t \in batch
  /\ attempts' = {a \in attempts : ~(a[1] = t /\ a[3] = "running")}
                 \cup {<<t, a[2], "failed">> : a \in {b \in attempts : b[1] = t /\ b[3] = "running"}}
  /\ batch' = batch \ {t}
  /\ cur' = [cur EXCEPT ![Recovery] = t]
  /\ Goto(Recovery, "fail_read")
  /\ UNCHANGED <<up, closing, taskVars, results, ctx, no, seen, asked, boundVars>>

-----------------------------------------------------------------------------
(* Time, failures, and the life of the service process.                    *)

BackoffElapses(t) ==
  /\ ~due[t] /\ status[t] = "queued"
  /\ due' = [due EXCEPT ![t] = TRUE]
  /\ UNCHANGED <<up, closing, status, count, expired, rowVars, procVars, asked, boundVars>>

LeaseExpires(t) ==
  /\ status[t] = "running" /\ t \notin expired
  /\ LeaseOutlivesAttempt => \A w \in Workers : cur[w] # t
  /\ expired' = expired \cup {t}
  /\ UNCHANGED <<up, closing, status, count, due, rowVars, procVars, asked, boundVars>>

\* A statement of process p raises instead of committing.  The handler of the
\* chat executor swallows an error of its own UPDATE and goes on to fail().
StatementRaises(p) ==
  /\ up /\ faults < MaxFaults /\ pc[p] \in FaultySteps \ {"call"}
  /\ pc[p] = "idle" => p = Recovery /\ batch # {}
  /\ faults' = faults + 1
  /\ IF pc[p] = "mark_exc" /\ cur[p] \in ChatTasks
     THEN Goto(p, "fail_read") /\ UNCHANGED <<ctx, cur, no, seen, batch>>
     ELSE Raise(p, IF pc[p] = "insert" THEN 0 ELSE no[p])
  /\ UNCHANGED <<up, closing, taskVars, rowVars, asked, stops, retries>>

\* The rows read between the claim and the executor's try are lost to an error:
\* the safety net calls fail().
DispatchRaises(w) ==
  /\ At(w, "claimed") /\ "claimed" \in FaultySteps /\ faults < MaxFaults
  /\ faults' = faults + 1
  /\ Goto(w, "fail_read")
  /\ UNCHANGED <<up, closing, taskVars, rowVars, ctx, cur, no, seen, batch, asked, stops, retries>>

ProcessesDie ==
  /\ pc' = [p \in Procs |-> "idle"]
  /\ ctx' = [p \in Procs |-> "loop"]
  /\ cur' = [p \in Procs |-> NoTask]
  /\ no' = [p \in Procs |-> 0]
  /\ seen' = [p \in Procs |-> 0]
  /\ batch' = {}

\* UPDATE agent_llm_tasks SET status = 'queued', lease NULL WHERE running.
RequeueRunning ==
  /\ status' = [t \in Tasks |-> IF status[t] = "running" THEN "queued" ELSE status[t]]
  /\ expired' = expired \ Running
  /\ UNCHANGED <<count, due>>

Crash ==
  /\ up \/ closing
  /\ stops < MaxStops /\ stops' = stops + 1
  /\ up' = FALSE /\ closing' = FALSE
  /\ ProcessesDie
  /\ asked' = [c \in Clients |-> NoTask]
  /\ UNCHANGED <<taskVars, rowVars, faults, retries>>

\* The lifespan ends, requests having ended: LeaseRecovery.stop ...
StopRecovery ==
  /\ Open /\ stops < MaxStops /\ stops' = stops + 1
  /\ \A c \in Clients : asked[c] = NoTask
  /\ closing' = TRUE
  /\ Finish(Recovery) /\ batch' = {}
  /\ UNCHANGED <<up, taskVars, rowVars, asked, faults, retries>>

\* ... then Worker.stop, which cancels every worker and waits for all ...
StopWorkers ==
  /\ up /\ closing
  /\ up' = FALSE
  /\ ProcessesDie
  /\ UNCHANGED <<closing, taskVars, rowVars, asked, boundVars>>

\* ... and then the requeue of the tasks they have left ...
StopRequeues ==
  /\ ~up /\ closing /\ closing' = FALSE
  /\ RequeueRunning
  /\ UNCHANGED <<up, rowVars, procVars, asked, boundVars>>

\* ... whose error is logged.
StopRequeueRaises ==
  /\ ~up /\ closing /\ closing' = FALSE
  /\ "stop" \in FaultySteps /\ faults < MaxFaults /\ faults' = faults + 1
  /\ UNCHANGED <<up, taskVars, rowVars, procVars, asked, stops, retries>>

Shutdown == StopRecovery \/ StopWorkers \/ StopRequeues \/ StopRequeueRaises

Start ==
  /\ ~up /\ ~closing /\ up' = TRUE
  /\ RequeueRunning
  /\ UNCHANGED <<closing, rowVars, procVars, asked, boundVars>>

\* The startup requeue raises; the error is logged and the service goes on.
StartRaises ==
  /\ ~up /\ ~closing /\ up' = TRUE
  /\ "start" \in FaultySteps /\ faults < MaxFaults /\ faults' = faults + 1
  /\ UNCHANGED <<closing, taskVars, rowVars, procVars, asked, stops, retries>>

-----------------------------------------------------------------------------
Execute(w) ==
  \/ Dispatch(w) \/ ReadAttemptNo(w) \/ InsertAttempt(w) \/ InsertRejected(w)
  \/ ProviderAnswers(w) \/ ProviderRaises(w) \/ MarkSucceeded(w) \/ StoreResult(w)
  \/ Complete(w) \/ MarkFailed(w)

FailCall(p) == FailRead(p) \/ FailWrite(p) \/ Emit(p)

Next ==
  \/ \E t \in Tasks : Submit(t) \/ BackoffElapses(t) \/ LeaseExpires(t) \/ RecoveryPick(t)
  \/ \E S \in SUBSET Tasks : Cancel(S)
  \/ \E c \in Clients : RetryUpdate(c) \/ \E t \in Tasks : RetryCheck(c, t)
  \/ \E w \in Workers : Execute(w) \/ DispatchRaises(w) \/ \E t \in Tasks : Claim(w, t)
  \/ \E p \in Procs : FailCall(p) \/ StatementRaises(p)
  \/ RecoveryScan \/ Crash \/ Shutdown \/ Start \/ StartRaises

Spec == Init /\ [][Next]_vars

(* asyncio runs every ready coroutine, the provider client times out, the   *)
(* clock advances, a shutdown goes on to its end, and supervisord starts a  *)
(* stopped service again.  Nothing obliges clients to act, or faults and    *)
(* stops to happen.                                                         *)
Fairness ==
  /\ \A w \in Workers : /\ WF_vars(Execute(w))
                        /\ WF_vars(\E t \in Tasks : Claim(w, t))
  /\ \A p \in Procs : WF_vars(FailCall(p))
  /\ WF_vars(RecoveryScan) /\ WF_vars(\E t \in Tasks : RecoveryPick(t))
  /\ \A t \in Tasks : WF_vars(BackoffElapses(t)) /\ WF_vars(LeaseExpires(t))
  /\ \A c \in Clients : WF_vars(RetryUpdate(c))
  /\ WF_vars(StopWorkers) /\ WF_vars(StopRequeues) /\ WF_vars(Start)

FairSpec == Spec /\ Fairness

-----------------------------------------------------------------------------
(* Properties.                                                             *)

\* Every variable has its type: the queue's rows and the processes' locals.
TypeOK ==
  /\ up \in BOOLEAN /\ closing \in BOOLEAN
  /\ status \in [Tasks -> TaskStatus]
  /\ count \in [Tasks -> Nat]
  /\ due \in [Tasks -> BOOLEAN]
  /\ expired \subseteq Tasks
  /\ attempts \subseteq Tasks \X Nat \X AttemptStatus
  /\ results \subseteq Tasks \X Nat \X BOOLEAN
  /\ pc \in [Procs -> Steps]
  /\ ctx \in [Procs -> {"try", "net", "loop"}]
  /\ cur \in [Procs -> Tasks \cup {NoTask}]
  /\ no \in [Procs -> Nat]
  /\ seen \in [Procs -> Nat]
  /\ batch \subseteq Tasks
  /\ asked \in [Clients -> Tasks \cup {NoTask}]
  /\ faults \in Nat /\ stops \in Nat /\ retries \in Nat

\* A task that may run, or runs, has retry budget left: no sequence of failures,
\* late writes, lease recoveries, restarts and retries puts a task whose
\* attempts are used up back in front of a worker (task_manager.py, fail).
BudgetLeft ==
  \A t \in Tasks : status[t] \in {"queued", "running"} => count[t] < MaxAttempts

\* A caller that sees a task succeeded finds a usable result row for it, however
\* many stale workers, faults and restarts there were (complete runs last).
SucceededHasResult ==
  \A t \in Tasks : status[t] = "succeeded" => \E r \in results : r[1] = t /\ r[3]

\* Process p has taken a task over and not yet written how it ended.
Executing(p) == pc[p] \notin {"idle", "emit"}

\* A worker writes to the attempt row it inserted and to no other's: two workers
\* on one task never hold the same attempt number (UNIQUE (task_id, attempt_no)).
OneOwnerPerAttempt ==
  \A v, w \in Workers :
    /\ v # w /\ cur[v] = cur[w] /\ cur[v] # NoTask /\ no[v] = no[w]
    /\ pc[v] \in {"call", "mark", "store", "complete", "mark_bad"}
    => pc[w] \notin {"call", "mark", "store", "complete", "mark_bad"}

\* Claiming is exclusive: a task is executed (or recovered) by at most one
\* process, and only while its row says running, so a cancelled, settled or
\* requeued task is not being worked on (claim, cancel, _recover).
ExclusiveExecution ==
  \A p \in Procs : Executing(p) =>
    /\ status[cur[p]] = "running"
    /\ \A q \in Procs \ {p} : Executing(q) => cur[q] # cur[p]

\* The provider is called at most max_attempts times for a task: every call has
\* an attempt row, and rows are numbered 1 .. max_attempts, over all retries and
\* restarts (execute_chat_attempt, retry_task).
CallBudget == \A a \in attempts : a[2] \in 1 .. MaxAttempts

\* get_result answers with the row of the highest attempt_no: for a succeeded
\* task that row is usable (the promise of the docstring of get_result), while no
\* statement is lost: a lost claim leaves its number free, and a retry, which counts
\* from 1 again, may succeed below an older and unusable row.
LatestResultUsable ==
  faults = 0 => \A t \in Tasks : status[t] = "succeeded" =>
    \E r \in results : r[1] = t /\ r[3] /\ \A q \in results : q[1] = t => q[2] <= r[2]

\* A failure costs one retry slot, not two: while no statement is lost, attempt_count
\* never runs ahead of the attempts made (the comments on re-raising in
\* execute_chat_attempt).
OneSlotPerAttempt ==
  faults = 0 => \A t \in Tasks : count[t] <= Cardinality({a \in attempts : a[1] = t})

\* The attempt of a claimed task reaches the provider: its number is free.
AttemptNumberFree ==
  \A w \in Workers : pc[w] = "insert" => ~AttemptExists(cur[w], no[w])

\* While the process has not died and no statement was lost, an attempt is open
\* only while its task runs: requeued, settled and cancelled tasks leave no
\* running attempt behind.
NoOpenAttempt ==
  stops = 0 /\ faults = 0 => \A a \in attempts : a[3] = "running" => status[a[1]] = "running"

Lifecycle ==
  INSTANCE LlmTaskLifecycle WITH Tasks <- Tasks, MaxAttempts <- MaxAttempts,
                                 status <- status, count <- count

\* The queue implements the transition matrix of ARCHITECTURE.md section 4.2.
ImplementsLifecycle == Lifecycle!Spec

\* Every submitted task is settled in the end, whatever faults and restarts do.
EveryTaskSettles == \A t \in Tasks : status[t] = "queued" ~> status[t] \in Settled
=============================================================================
