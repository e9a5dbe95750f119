-------------------------- MODULE LlmTaskQueueProofs --------------------------
(***************************************************************************)
(* What holds of LlmTaskQueue for every number of tasks, workers, clients, *)
(* attempts, faults and restarts.                                          *)
(***************************************************************************)
EXTENDS LlmTaskQueue, TLAPS

\* A process between tasks names none; a busy process names a task.
Shape ==
  \A p \in Procs : IF pc[p] = "idle" THEN ctx[p] = "loop" /\ cur[p] = NoTask
                                     ELSE cur[p] \in Tasks

Typed == TypeOK /\ Shape /\ (stops = 0 => closing = FALSE)

\* The service starts well typed, every process idle.
LEMMA InitTyped == Init => Typed
<1> SUFFICES ASSUME Init PROVE Typed
  OBVIOUS
<1>1. up \in BOOLEAN /\ closing = FALSE
  BY DEF Init
<1>2. /\ status \in [Tasks -> TaskStatus] /\ count \in [Tasks -> Nat] /\ due \in [Tasks -> BOOLEAN]
      /\ expired \subseteq Tasks /\ attempts \subseteq Tasks \X Nat \X AttemptStatus
      /\ results \subseteq Tasks \X Nat \X BOOLEAN
      /\ faults \in Nat /\ stops \in Nat /\ retries \in Nat
  BY DEF Init, TaskStatus
<1>3. /\ pc \in [Procs -> Steps] /\ ctx \in [Procs -> {"try", "net", "loop"}]
      /\ cur \in [Procs -> Tasks \cup {NoTask}] /\ no \in [Procs -> Nat] /\ seen \in [Procs -> Nat]
      /\ batch \subseteq Tasks /\ asked \in [Clients -> Tasks \cup {NoTask}] /\ Shape
  BY DEF Init, NoProcess, Steps, Shape
<1> QED
  BY <1>1, <1>2, <1>3 DEF Typed, TypeOK

\* The effects shared by several actions keep the types.
LEMMA RaiseTyped ==
  ASSUME Typed, NEW p \in Procs, NEW n \in Nat, Raise(p, n)
  PROVE  /\ pc' \in [Procs -> Steps] /\ ctx' \in [Procs -> {"try", "net", "loop"}]
         /\ cur' \in [Procs -> Tasks \cup {NoTask}] /\ no' \in [Procs -> Nat]
         /\ seen' \in [Procs -> Nat] /\ batch' \subseteq Tasks
         /\ Shape'
<1>1. CASE ctx[p] = "try"
  BY <1>1, QueueAssumption DEF Raise, Goto, Typed, TypeOK, Shape, Steps
<1>2. CASE ctx[p] = "net"
  BY <1>2, QueueAssumption DEF Raise, Goto, Typed, TypeOK, Shape, Steps
<1>3. CASE ctx[p] = "loop"
  BY <1>3, QueueAssumption DEF Raise, Finish, Typed, TypeOK, Shape, Steps
<1> QED
  BY <1>1, <1>2, <1>3 DEF Typed, TypeOK

\* An update of an attempt row leaves attempt rows.
LEMMA MarkTyped ==
  ASSUME attempts \subseteq Tasks \X Nat \X AttemptStatus,
         NEW t \in Tasks, NEW n \in Nat, NEW s \in AttemptStatus, MarkAttempt(t, n, s)
  PROVE  attempts' \subseteq Tasks \X Nat \X AttemptStatus
  BY DEF MarkAttempt

\* The requeue of running tasks only writes statuses there are.
LEMMA RequeueTyped ==
  ASSUME TypeOK, RequeueRunning
  PROVE  status' \in [Tasks -> TaskStatus] /\ expired' \subseteq Tasks
<1>1. \A t \in Tasks : (IF status[t] = "running" THEN "queued" ELSE status[t]) \in TaskStatus
  BY DEF TypeOK, TaskStatus
<1> QED
  BY <1>1 DEF RequeueRunning, TypeOK

\* A process that has died is idle in every coroutine.
LEMMA DieTyped ==
  ASSUME ProcessesDie
  PROVE  /\ pc' \in [Procs -> Steps] /\ ctx' \in [Procs -> {"try", "net", "loop"}]
         /\ cur' \in [Procs -> Tasks \cup {NoTask}] /\ no' \in [Procs -> Nat]
         /\ seen' \in [Procs -> Nat] /\ batch' \subseteq Tasks
         /\ Shape'
<1>1. pc' \in [Procs -> Steps] /\ ctx' \in [Procs -> {"try", "net", "loop"}]
  BY DEF ProcessesDie, Steps
<1>2. cur' \in [Procs -> Tasks \cup {NoTask}] /\ no' \in [Procs -> Nat]
  BY DEF ProcessesDie
<1>3. seen' \in [Procs -> Nat] /\ batch' \subseteq Tasks
  BY DEF ProcessesDie
<1>4. Shape'
  BY DEF ProcessesDie, Shape
<1> QED
  BY <1>1, <1>2, <1>3, <1>4

\* No step of the service, of a client or of time breaks a type.
LEMMA StepTyped == Typed /\ [Next]_vars => Typed'
<1> SUFFICES ASSUME Typed, [Next]_vars PROVE Typed'
  OBVIOUS
<1> USE QueueAssumption
<1>1. CASE UNCHANGED vars
  BY <1>1 DEF Typed, TypeOK, Shape, vars, taskVars, rowVars, procVars, boundVars
<1>2. ASSUME NEW t \in Tasks, Submit(t) \/ BackoffElapses(t) \/ LeaseExpires(t)
      PROVE  Typed'
  BY <1>2 DEF Submit, BackoffElapses, LeaseExpires, Typed, TypeOK, Shape, TaskStatus,
              rowVars, procVars, boundVars
<1>3. ASSUME NEW t \in Tasks, RecoveryPick(t) PROVE Typed'
  <2>1. attempts' \subseteq Tasks \X Nat \X AttemptStatus
    BY <1>3 DEF RecoveryPick, Typed, TypeOK, AttemptStatus
  <2> QED
    BY <1>3, <2>1 DEF RecoveryPick, At, Goto, Typed, TypeOK, Shape, Procs, Steps,
                      taskVars, boundVars
<1>4. ASSUME NEW S \in SUBSET Tasks, Cancel(S) PROVE Typed'
  BY <1>4 DEF Cancel, Typed, TypeOK, Shape, TaskStatus, rowVars, procVars, boundVars
<1>5. ASSUME NEW c \in Clients, RetryUpdate(c) PROVE Typed'
  BY <1>5 DEF RetryUpdate, Typed, TypeOK, Shape, TaskStatus, rowVars, procVars, boundVars
<1>6. ASSUME NEW c \in Clients, NEW t \in Tasks, RetryCheck(c, t) PROVE Typed'
  BY <1>6 DEF RetryCheck, Typed, TypeOK, Shape, taskVars, rowVars, procVars
<1>7. ASSUME NEW w \in Workers, Execute(w) PROVE Typed'
  <2> w \in Procs
    BY DEF Procs
  <2>1. CASE Dispatch(w)
    BY <2>1 DEF Dispatch, At, Goto, Typed, TypeOK, Shape, Steps, taskVars, rowVars, boundVars
  <2>2. CASE ReadAttemptNo(w)
    BY <2>2 DEF ReadAttemptNo, At, Goto, Typed, TypeOK, Shape, Steps,
                taskVars, rowVars, boundVars
  <2>3. CASE InsertAttempt(w)
    BY <2>3 DEF InsertAttempt, At, Goto, Typed, TypeOK, Shape, Steps, AttemptStatus,
                taskVars, boundVars
  <2>4. CASE InsertRejected(w)
    BY <2>4, RaiseTyped DEF InsertRejected, At, Typed, TypeOK, taskVars, rowVars, boundVars
  <2>5. CASE ProviderAnswers(w)
    BY <2>5 DEF ProviderAnswers, At, Goto, Typed, TypeOK, Shape, Steps,
                taskVars, rowVars, boundVars
  <2>6. CASE ProviderRaises(w)
    <3>1. no[w] \in Nat
      BY DEF Typed, TypeOK
    <3> QED
      BY <2>6, <3>1, RaiseTyped DEF ProviderRaises, At, Typed, TypeOK,
                                    taskVars, rowVars, boundVars
  <2>7. CASE MarkSucceeded(w) \/ MarkFailed(w)
    <3>1. cur[w] \in Tasks /\ no[w] \in Nat
      BY <2>7 DEF MarkSucceeded, MarkFailed, At, Typed, TypeOK, Shape
    <3>2. attempts' \subseteq Tasks \X Nat \X AttemptStatus
      BY <2>7, <3>1, MarkTyped DEF MarkSucceeded, MarkFailed, Typed, TypeOK, AttemptStatus
    <3> QED
      BY <2>7, <3>1, <3>2 DEF MarkSucceeded, MarkFailed, At, Goto, Typed, TypeOK, Shape, Steps,
                taskVars, boundVars
  <2>8. CASE StoreResult(w)
    BY <2>8 DEF StoreResult, AfterStore, At, Goto, Typed, TypeOK, Shape, Steps, taskVars, boundVars
  <2>9. CASE Complete(w)
    BY <2>9 DEF Complete, At, Goto, Typed, TypeOK, Shape, Steps, TaskStatus,
                rowVars, boundVars
  <2> QED
    BY <1>7, <2>1, <2>2, <2>3, <2>4, <2>5, <2>6, <2>7, <2>8, <2>9 DEF Execute
<1>8. ASSUME NEW w \in Workers, DispatchRaises(w) PROVE Typed'
  BY <1>8 DEF DispatchRaises, At, Goto, Typed, TypeOK, Shape, Steps, Procs,
              taskVars, rowVars
<1>9. ASSUME NEW w \in Workers, NEW t \in Tasks, Claim(w, t) PROVE Typed'
  BY <1>9 DEF Claim, At, Goto, Typed, TypeOK, Shape, Steps, Procs, TaskStatus,
              rowVars, boundVars
<1>10. ASSUME NEW p \in Procs, FailCall(p) PROVE Typed'
  <2>1. CASE FailRead(p)
    BY <2>1 DEF FailRead, At, Goto, Typed, TypeOK, Shape, Steps, taskVars, rowVars, boundVars
  <2>2. CASE FailWrite(p)
    <3>1. cur[p] \in Tasks /\ seen[p] + 1 \in Nat
      BY <2>2 DEF FailWrite, At, Typed, TypeOK, Shape
    <3>2. /\ status' \in [Tasks -> TaskStatus] /\ count' \in [Tasks -> Nat]
          /\ due' \in [Tasks -> BOOLEAN]
      BY <2>2, <3>1 DEF FailWrite, AfterFailure, Typed, TypeOK, TaskStatus
    <3>3. pc' \in [Procs -> Steps] /\ Shape'
      BY <2>2, <3>1 DEF FailWrite, At, Goto, Typed, TypeOK, Shape, Steps
    <3> QED
      BY <2>2, <3>2, <3>3 DEF FailWrite, Typed, TypeOK, rowVars, boundVars
  <2>3. CASE Emit(p)
    BY <2>3 DEF Emit, Finish, At, Typed, TypeOK, Shape, Steps, taskVars, rowVars, boundVars
  <2> QED
    BY <1>10, <2>1, <2>2, <2>3 DEF FailCall
<1>11. ASSUME NEW p \in Procs, StatementRaises(p) PROVE Typed'
  <2>1. CASE pc[p] = "mark_exc" /\ cur[p] \in ChatTasks
    BY <1>11, <2>1 DEF StatementRaises, Goto, Typed, TypeOK, Shape, Steps, taskVars, rowVars
  <2>2. CASE ~(pc[p] = "mark_exc" /\ cur[p] \in ChatTasks)
    <3> DEFINE n == IF pc[p] = "insert" THEN 0 ELSE no[p]
    <3>1. n \in Nat
      BY DEF Typed, TypeOK
    <3>2. Raise(p, n)
      BY <1>11, <2>2 DEF StatementRaises
    <3>3. /\ UNCHANGED <<up, closing, taskVars, rowVars, asked, stops, retries>>
          /\ faults' \in Nat
      BY <1>11 DEF StatementRaises, Typed, TypeOK
    <3> HIDE DEF n
    <3> QED
      BY <3>1, <3>2, <3>3, RaiseTyped DEF Typed, TypeOK, taskVars, rowVars
  <2> QED
    BY <2>1, <2>2
<1>12. CASE RecoveryScan
  BY <1>12 DEF RecoveryScan, Recoverable, Typed, TypeOK, Shape, taskVars, rowVars, boundVars
<1>13. CASE Crash \/ Shutdown \/ Start \/ StartRaises
  <2>1. CASE Crash
    <3>1. asked' \in [Clients -> Tasks \cup {NoTask}] /\ stops' \in Nat
      BY <2>1 DEF Crash, Typed, TypeOK
    <3>2. /\ pc' \in [Procs -> Steps] /\ ctx' \in [Procs -> {"try", "net", "loop"}]
          /\ cur' \in [Procs -> Tasks \cup {NoTask}] /\ no' \in [Procs -> Nat]
          /\ seen' \in [Procs -> Nat] /\ batch' \subseteq Tasks
          /\ Shape'
      BY <2>1, DieTyped DEF Crash
    <3>3. UNCHANGED <<status, count, due, expired, attempts, results, faults, retries>>
      BY <2>1 DEF Crash, taskVars, rowVars
    <3>4. up' \in BOOLEAN /\ closing' = FALSE
      BY <2>1, Zenon DEF Crash
    <3> QED
      BY <3>1, <3>2, <3>3, <3>4 DEF Typed, TypeOK
  <2>2. CASE Shutdown
    <3>1. CASE StopRecovery
      BY <3>1 DEF StopRecovery, Finish, Typed, TypeOK, Shape, Steps, Procs, taskVars, rowVars
    <3>2. CASE StopWorkers
      <4>1. up' \in BOOLEAN /\ UNCHANGED <<closing, taskVars, rowVars, asked, boundVars>>
        BY <3>2, Zenon DEF StopWorkers
      <4> QED
        BY <3>2, <4>1, DieTyped DEF StopWorkers, Typed, TypeOK, taskVars, rowVars, boundVars
    <3>3. CASE StopRequeues
      <4>1. /\ closing' = FALSE
            /\ RequeueRunning /\ UNCHANGED <<up, count, due, rowVars, procVars, asked, boundVars>>
        BY <3>3 DEF StopRequeues, RequeueRunning
      <4>2. status' \in [Tasks -> TaskStatus] /\ expired' \subseteq Tasks
        BY <4>1, RequeueTyped DEF Typed
      <4>3. Shape' /\ UNCHANGED <<pc, ctx, cur, no, seen, batch>>
        BY <4>1 DEF Typed, Shape, procVars
      <4> QED
        BY <4>1, <4>2, <4>3 DEF Typed, TypeOK, rowVars, boundVars
    <3>4. CASE StopRequeueRaises
      <4>1. /\ closing' = FALSE /\ faults' = faults + 1
            /\ UNCHANGED <<up, taskVars, rowVars, procVars, asked, stops, retries>>
        BY <3>4, Zenon DEF StopRequeueRaises
      <4>2. faults' \in Nat
        BY <4>1, SMT DEF Typed, TypeOK
      <4>3. Shape' /\ UNCHANGED <<pc, ctx, cur, no, seen, batch>>
        BY <4>1 DEF Typed, Shape, procVars
      <4> QED
        BY <4>1, <4>2, <4>3 DEF Typed, TypeOK, taskVars, rowVars
    <3> QED
      BY <2>2, <3>1, <3>2, <3>3, <3>4 DEF Shutdown
  <2>3. CASE Start
    <3>1. RequeueRunning /\ UNCHANGED <<closing, count, due, rowVars, procVars, asked, boundVars>>
      BY <2>3 DEF Start, RequeueRunning
    <3>2. up' \in BOOLEAN /\ status' \in [Tasks -> TaskStatus] /\ expired' \subseteq Tasks
      BY <2>3, <3>1, RequeueTyped DEF Start, Typed
    <3> QED
      BY <3>1, <3>2 DEF Typed, TypeOK, Shape, rowVars, procVars, boundVars
  <2>4. CASE StartRaises
    BY <2>4 DEF StartRaises, Typed, TypeOK, Shape, taskVars, rowVars, procVars
  <2> QED
    BY <1>13, <2>1, <2>2, <2>3, <2>4
<1> QED
  BY <1>1, <1>2, <1>3, <1>4, <1>5, <1>6, <1>7, <1>8, <1>9, <1>10, <1>11, <1>12, <1>13 DEF Next

\* Types hold in every reachable state.
LEMMA TypedAlways == Spec => []Typed
<1>1. Init => Typed
  BY InitTyped
<1>2. Typed /\ [Next]_vars => Typed'
  BY StepTyped
<1> QED
  BY <1>1, <1>2, PTL DEF Spec

\* The queue's rows and the coroutines' locals keep their types: TaskManager,
\* Worker and LeaseRecovery never work on a row that is not there.
THEOREM TypeCorrect == Spec => []TypeOK
<1>1. Typed => TypeOK
  BY DEF Typed
<1> QED
  BY <1>1, TypedAlways, PTL

-----------------------------------------------------------------------------
(* The statements that write the columns status and attempt_count.         *)

WritesRow ==
  \/ \E t \in Tasks : Submit(t)
  \/ \E S \in SUBSET Tasks : Cancel(S)
  \/ \E c \in Clients : RetryUpdate(c)
  \/ \E w \in Workers : Complete(w) \/ \E t \in Tasks : Claim(w, t)
  \/ \E p \in Procs : FailWrite(p)
  \/ RequeueRunning

\* Nothing but the operations of WritesRow touches status or attempt_count.
LEMMA RowWriters == [Next]_vars => WritesRow \/ UNCHANGED <<status, count>>
<1> SUFFICES ASSUME Next, ~WritesRow PROVE UNCHANGED <<status, count>>
  BY DEF vars, taskVars
<1> USE DEF taskVars
<1>1. ASSUME NEW t \in Tasks, Submit(t) \/ BackoffElapses(t) \/ LeaseExpires(t) \/ RecoveryPick(t)
      PROVE  UNCHANGED <<status, count>>
  BY <1>1 DEF WritesRow, BackoffElapses, LeaseExpires, RecoveryPick
<1>2. ASSUME NEW c \in Clients, NEW t \in Tasks, RetryCheck(c, t)
      PROVE  UNCHANGED <<status, count>>
  BY <1>2 DEF RetryCheck
<1>3. ASSUME NEW w \in Workers, Execute(w) PROVE UNCHANGED <<status, count>>
  BY <1>3 DEF WritesRow, Execute, Dispatch, ReadAttemptNo, InsertAttempt, InsertRejected,
              ProviderAnswers, ProviderRaises, MarkSucceeded, StoreResult, MarkFailed
<1>4. ASSUME NEW w \in Workers, DispatchRaises(w) PROVE UNCHANGED <<status, count>>
  BY <1>4 DEF DispatchRaises
<1>5. ASSUME NEW p \in Procs, FailCall(p) \/ StatementRaises(p)
      PROVE  UNCHANGED <<status, count>>
  BY <1>5 DEF WritesRow, FailCall, FailRead, Emit, StatementRaises
<1>6. ASSUME RecoveryScan \/ Crash \/ Shutdown \/ Start \/ StartRaises
      PROVE  UNCHANGED <<status, count>>
  BY <1>6 DEF WritesRow, RecoveryScan, Crash, Shutdown, StopRecovery, StopWorkers,
              StopRequeues, StopRequeueRaises, Start, StartRaises
<1> QED
  BY <1>1, <1>2, <1>3, <1>4, <1>5, <1>6 DEF Next, WritesRow

\* BudgetLeft with what it needs to know of rows not yet inserted.
Budget == BudgetLeft /\ \A t \in Tasks : status[t] = "absent" => count[t] = 0

\* Every writer of a task row keeps a claimable task within its budget.
LEMMA StepBudget == Typed /\ Budget /\ [Next]_vars => Budget'
<1> SUFFICES ASSUME Typed, Budget, WritesRow PROVE Budget'
  BY RowWriters DEF Budget, BudgetLeft
<1> USE QueueAssumption DEF Budget, BudgetLeft, Typed, TypeOK
<1>1. ASSUME NEW t \in Tasks, Submit(t) PROVE Budget'
  BY <1>1 DEF Submit
<1>2. ASSUME NEW S \in SUBSET Tasks, Cancel(S) PROVE Budget'
  BY <1>2 DEF Cancel
<1>3. ASSUME NEW c \in Clients, RetryUpdate(c) PROVE Budget'
  BY <1>3 DEF RetryUpdate
<1>4. ASSUME NEW w \in Workers, Complete(w) PROVE Budget'
  BY <1>4 DEF Complete, At, Shape, Procs
<1>5. ASSUME NEW w \in Workers, NEW t \in Tasks, Claim(w, t) PROVE Budget'
  BY <1>5 DEF Claim, Claimable
<1>6. ASSUME NEW p \in Procs, FailWrite(p) PROVE Budget'
  <2>1. cur[p] \in Tasks /\ seen[p] \in Nat
    BY <1>6 DEF FailWrite, At, Shape
  <2> QED
    BY <1>6, <2>1 DEF FailWrite, AttemptsLeft, AfterFailure
<1>7. CASE RequeueRunning
  BY <1>7 DEF RequeueRunning
<1> QED
  BY <1>1, <1>2, <1>3, <1>4, <1>5, <1>6, <1>7 DEF WritesRow

\* A task whose attempts are used up is never claimable again, whatever stale
\* workers, lost statements, lease recoveries, restarts and concurrent retries do:
\* every writer of status also writes a count it has compared with max_attempts,
\* or leaves the count of a task that had budget.
THEOREM BudgetNeverOverdrawn == Spec => []BudgetLeft
<1>1. Init => Budget
  BY QueueAssumption DEF Init, Budget, BudgetLeft
<1>2. Typed /\ Budget /\ [Next]_vars => Budget'
  BY StepBudget
<1>3. Budget => BudgetLeft
  BY DEF Budget
<1> QED
  BY <1>1, <1>2, <1>3, TypedAlways, PTL DEF Spec

-----------------------------------------------------------------------------
(* The result behind a succeeded task.                                     *)

\* A worker about to call complete has stored a usable result.
Backed == \A w \in Workers : pc[w] = "complete" => <<cur[w], no[w], TRUE>> \in results

\* A result row, once inserted, stays.
LEMMA ResultsGrow == [Next]_vars => results \subseteq results'
<1> SUFFICES ASSUME Next PROVE results \subseteq results'
  BY DEF vars, rowVars
<1> USE DEF rowVars
<1>1. ASSUME NEW t \in Tasks, Submit(t) \/ BackoffElapses(t) \/ LeaseExpires(t) \/ RecoveryPick(t)
      PROVE  results \subseteq results'
  BY <1>1 DEF Submit, BackoffElapses, LeaseExpires, RecoveryPick
<1>2. ASSUME NEW S \in SUBSET Tasks, Cancel(S) PROVE results \subseteq results'
  BY <1>2 DEF Cancel
<1>3. ASSUME NEW c \in Clients, RetryUpdate(c) \/ \E t \in Tasks : RetryCheck(c, t)
      PROVE  results \subseteq results'
  BY <1>3 DEF RetryUpdate, RetryCheck
<1>4. ASSUME NEW w \in Workers, Execute(w) \/ DispatchRaises(w) \/ \E t \in Tasks : Claim(w, t)
      PROVE  results \subseteq results'
  BY <1>4 DEF Execute, Dispatch, ReadAttemptNo, InsertAttempt, InsertRejected, ProviderAnswers,
              ProviderRaises, MarkSucceeded, StoreResult, Complete, MarkFailed, DispatchRaises, Claim
<1>5. ASSUME NEW p \in Procs, FailCall(p) \/ StatementRaises(p) PROVE results \subseteq results'
  BY <1>5 DEF FailCall, FailRead, FailWrite, Emit, StatementRaises
<1>6. ASSUME RecoveryScan \/ Crash \/ Shutdown \/ Start \/ StartRaises
      PROVE  results \subseteq results'
  BY <1>6 DEF RecoveryScan, Crash, Shutdown, StopRecovery, StopWorkers,
              StopRequeues, StopRequeueRaises, Start, StartRaises
<1> QED
  BY <1>1, <1>2, <1>3, <1>4, <1>5, <1>6 DEF Next

\* Only StoreResult sends a worker to complete; every other step leaves a worker
\* that is there alone or moves it away.
LEMMA OnlyStoreCompletes ==
  ASSUME Typed, [Next]_vars, NEW v \in Workers, pc'[v] = "complete"
  PROVE  \/ pc[v] = "complete" /\ cur'[v] = cur[v] /\ no'[v] = no[v]
         \/ StoreResult(v)
<1> DEFINE Goal == \/ pc[v] = "complete" /\ cur'[v] = cur[v] /\ no'[v] = no[v]
                   \/ StoreResult(v)
<1> USE QueueAssumption DEF Typed, TypeOK, Procs, procVars
<1>1. CASE UNCHANGED vars
  BY <1>1 DEF vars
<1>2. ASSUME NEW t \in Tasks, Submit(t) \/ BackoffElapses(t) \/ LeaseExpires(t) \/ RecoveryPick(t)
      PROVE  Goal
  BY <1>2 DEF Submit, BackoffElapses, LeaseExpires, RecoveryPick, Goto
<1>3. ASSUME NEW S \in SUBSET Tasks, Cancel(S) PROVE Goal
  BY <1>3 DEF Cancel
<1>4. ASSUME NEW c \in Clients, RetryUpdate(c) \/ \E t \in Tasks : RetryCheck(c, t)
      PROVE  Goal
  BY <1>4 DEF RetryUpdate, RetryCheck
<1>5. ASSUME NEW w \in Workers, Execute(w) PROVE Goal
  <2>1. CASE Dispatch(w) \/ ReadAttemptNo(w) \/ InsertAttempt(w) \/ ProviderAnswers(w)
    BY <2>1 DEF Dispatch, ReadAttemptNo, InsertAttempt, ProviderAnswers, At, Goto
  <2>2. CASE InsertRejected(w) \/ ProviderRaises(w)
    BY <2>2 DEF InsertRejected, ProviderRaises, At, Raise, Finish, Goto
  <2>3. CASE MarkSucceeded(w) \/ MarkFailed(w) \/ Complete(w)
    BY <2>3 DEF MarkSucceeded, MarkFailed, Complete, At, Goto
  <2>4. CASE StoreResult(w)
    BY <2>4 DEF StoreResult, AfterStore, At, Goto
  <2> QED
    BY <1>5, <2>1, <2>2, <2>3, <2>4 DEF Execute
<1>6. ASSUME NEW w \in Workers, DispatchRaises(w) \/ \E t \in Tasks : Claim(w, t)
      PROVE  Goal
  BY <1>6 DEF DispatchRaises, Claim, At, Goto
<1>7. ASSUME NEW p \in Procs, FailCall(p) PROVE Goal
  BY <1>7 DEF FailCall, FailRead, FailWrite, Emit, At, Goto, Finish
<1>8. ASSUME NEW p \in Procs, StatementRaises(p) PROVE Goal
  BY <1>8 DEF StatementRaises, Raise, Finish, Goto
<1>9. CASE RecoveryScan \/ Crash \/ Shutdown \/ Start \/ StartRaises
  BY <1>9 DEF RecoveryScan, Crash, Shutdown, StopRecovery, StopWorkers,
              StopRequeues, StopRequeueRaises, Start, StartRaises, ProcessesDie, Finish
<1> QED
  BY <1>1, <1>2, <1>3, <1>4, <1>5, <1>6, <1>7, <1>8, <1>9 DEF Next

\* A worker reaches complete only behind its own usable result.
LEMMA StepBacked == Typed /\ Backed /\ [Next]_vars => Backed'
<1> SUFFICES ASSUME Typed, Backed, [Next]_vars, NEW v \in Workers, pc'[v] = "complete"
             PROVE  <<cur'[v], no'[v], TRUE>> \in results'
  BY DEF Backed
<1>1. CASE pc[v] = "complete" /\ cur'[v] = cur[v] /\ no'[v] = no[v]
  BY <1>1, ResultsGrow DEF Backed
<1>2. CASE StoreResult(v)
  BY <1>2, QueueAssumption DEF StoreResult, AfterStore, Goto, Typed, TypeOK, Procs
<1> QED
  BY <1>1, <1>2, OnlyStoreCompletes

\* A task turns succeeded only by complete, behind a usable result.
LEMMA StepSucceeded ==
  Typed /\ Backed /\ SucceededHasResult /\ [Next]_vars => SucceededHasResult'
<1> SUFFICES ASSUME Typed, Backed, SucceededHasResult, [Next]_vars,
                    NEW t \in Tasks, status'[t] = "succeeded"
             PROVE  \E r \in results' : r[1] = t /\ r[3]
  BY DEF SucceededHasResult
<1>1. CASE status[t] = "succeeded"
  BY <1>1, ResultsGrow DEF SucceededHasResult
<1>2. CASE status[t] # "succeeded"
  <2>1. \E w \in Workers : Complete(w) /\ cur[w] = t
    BY <1>2, RowWriters DEF WritesRow, Submit, Cancel, RetryUpdate, Claim, Complete, FailWrite,
                            AfterFailure, RequeueRunning, Typed, TypeOK
  <2>2. PICK w \in Workers : Complete(w) /\ cur[w] = t
    BY <2>1
  <2>3. <<t, no[w], TRUE>> \in results
    BY <2>2 DEF Complete, At, Backed
  <2> QED
    BY <2>3, ResultsGrow
<1> QED
  BY <1>1, <1>2

\* Whoever reads a task as succeeded finds a usable result row: execute_chat_attempt
\* and the model executors store the result before they call complete, and nothing
\* takes it away, even when several workers run the task at once.
THEOREM SucceededIsBacked == Spec => []SucceededHasResult
<1>1. Init => Backed /\ SucceededHasResult
  BY DEF Init, NoProcess, Backed, SucceededHasResult, Procs
<1>2. Typed /\ Backed /\ [Next]_vars => Backed'
  BY StepBacked
<1>3. Typed /\ Backed /\ SucceededHasResult /\ [Next]_vars => SucceededHasResult'
  BY StepSucceeded
<1> QED
  BY <1>1, <1>2, <1>3, TypedAlways, PTL DEF Spec

-----------------------------------------------------------------------------
(* Exclusive execution, where attempts end within their lease, one client  *)
(* retries at a time, and the events that follow a committed complete or    *)
(* fail are written.                                                       *)

Timely == LeaseOutlivesAttempt /\ \A c, d \in Clients : c = d
Prompt == Timely /\ "emit" \notin FaultySteps

\* No event has been lost by the end of the step.
NoEventLost == "emit" \in FaultySteps => faults' = 0

\* ExclusiveExecution, and what the tasks waiting for LeaseRecovery and for a
\* client's retry are: running without a process, and settled.
Excl ==
  /\ ExclusiveExecution
  /\ \A t \in batch : status[t] = "running" /\ \A p \in Procs : Executing(p) => cur[p] # t
  /\ \A t \in expired : status[t] = "running" =>
       \A w \in Workers : Executing(w) => cur[w] # t
  /\ \A c \in Clients : asked[c] # NoTask => status[asked[c]] \in {"dead_letter", "cancelled"}
  /\ ~up => batch = {} /\ \A p \in Procs : ~Executing(p)

\* Most steps move one process on without starting work on any task.
Quiet ==
  /\ UNCHANGED <<up, status, expired, asked>>
  /\ batch' \subseteq batch
  /\ \A q \in Procs : Executing(q)' => Executing(q) /\ cur'[q] = cur[q]

\* A step that starts no work and writes no task row keeps the exclusion.
LEMMA QuietKeepsExcl == Excl /\ Quiet => Excl'
  BY DEF Excl, Quiet, ExclusiveExecution, Procs

\* An exception handler taking over starts no work.
LEMMA RaiseQuiet ==
  ASSUME Typed, NEW p \in Procs, NEW n, Raise(p, n), pc[p] # "emit"
  PROVE  batch' \subseteq batch /\ \A q \in Procs : Executing(q)' => Executing(q) /\ cur'[q] = cur[q]
<1> USE QueueAssumption DEF Typed, TypeOK, Shape, Executing
<1>1. CASE ctx[p] = "try"
  BY <1>1 DEF Raise, Goto
<1>2. CASE ctx[p] = "net"
  BY <1>2 DEF Raise, Goto
<1>3. CASE ctx[p] = "loop"
  BY <1>3 DEF Raise, Finish
<1> QED
  BY <1>1, <1>2, <1>3

\* The steps of workers and LeaseRecovery that are quiet.
LEMMA QuietSteps ==
  ASSUME NoEventLost, Typed, NEW p \in Procs,
         \/ p \in Workers /\ (Dispatch(p) \/ ReadAttemptNo(p) \/ InsertAttempt(p) \/ InsertRejected(p)
                              \/ ProviderAnswers(p) \/ ProviderRaises(p) \/ MarkSucceeded(p)
                              \/ StoreResult(p) \/ MarkFailed(p) \/ DispatchRaises(p))
         \/ FailRead(p) \/ Emit(p) \/ StatementRaises(p)
  PROVE  Quiet
<1> USE QueueAssumption DEF Quiet, taskVars
<1>1. CASE Dispatch(p) \/ ReadAttemptNo(p) \/ InsertAttempt(p) \/ ProviderAnswers(p)
  BY <1>1 DEF Dispatch, ReadAttemptNo, InsertAttempt, ProviderAnswers, At, Goto, Executing,
              Typed, TypeOK
<1>2. CASE InsertRejected(p)
  BY <1>2, RaiseQuiet DEF InsertRejected, At
<1>3. CASE ProviderRaises(p)
  BY <1>3, RaiseQuiet DEF ProviderRaises, At
<1>4. CASE MarkSucceeded(p) \/ StoreResult(p) \/ MarkFailed(p) \/ DispatchRaises(p)
  BY <1>4 DEF MarkSucceeded, StoreResult, AfterStore, MarkFailed, DispatchRaises, At, Goto, Executing,
              Typed, TypeOK
<1>5. CASE FailRead(p) \/ Emit(p)
  BY <1>5 DEF FailRead, Emit, Finish, At, Goto, Executing, Typed, TypeOK
<1>6. CASE StatementRaises(p)
  <2>1. pc[p] # "emit"
    BY <1>6 DEF StatementRaises, NoEventLost, Typed, TypeOK
  <2>2. CASE pc[p] = "mark_exc" /\ cur[p] \in ChatTasks
    BY <1>6, <2>2 DEF StatementRaises, Goto, Executing, Typed, TypeOK
  <2>3. CASE ~(pc[p] = "mark_exc" /\ cur[p] \in ChatTasks)
    BY <1>6, <2>1, <2>3, RaiseQuiet DEF StatementRaises
  <2> QED
    BY <2>2, <2>3
<1> QED
  BY <1>1, <1>2, <1>3, <1>4, <1>5, <1>6

\* Until an event is lost every step keeps the exclusion: a claim takes a queued
\* task, which no process has; recovery takes a running task that no worker has.
LEMMA StepExcl == Timely /\ NoEventLost /\ Typed /\ Excl /\ [Next]_vars => Excl'
<1> SUFFICES ASSUME Timely, NoEventLost, Typed, Excl, [Next]_vars PROVE Excl'
  OBVIOUS
<1> USE QueueAssumption DEF Typed, TypeOK
<1>1. CASE UNCHANGED vars
  BY <1>1, QuietKeepsExcl DEF vars, taskVars, procVars, Quiet, Executing
<1>2. ASSUME NEW t \in Tasks, Submit(t) PROVE Excl'
  BY <1>2 DEF Submit, Excl, ExclusiveExecution, Executing, procVars
<1>3. ASSUME NEW t \in Tasks, BackoffElapses(t) PROVE Excl'
  BY <1>3, QuietKeepsExcl DEF BackoffElapses, procVars, Quiet, Executing
<1>4. ASSUME NEW t \in Tasks, LeaseExpires(t) PROVE Excl'
  BY <1>4 DEF LeaseExpires, Timely, Excl, ExclusiveExecution, Executing, procVars
<1>5. ASSUME NEW t \in Tasks, RecoveryPick(t) PROVE Excl'
  BY <1>5 DEF RecoveryPick, At, Goto, Excl, ExclusiveExecution, Executing, Procs, taskVars
<1>6. ASSUME NEW S \in SUBSET Tasks, Cancel(S) PROVE Excl'
  BY <1>6 DEF Cancel, Cancellable, Excl, ExclusiveExecution, Executing, procVars, Shape
<1>7. ASSUME NEW c \in Clients, RetryUpdate(c) PROVE Excl'
  BY <1>7 DEF RetryUpdate, Timely, Excl, ExclusiveExecution, Executing, procVars
<1>8. ASSUME NEW c \in Clients, NEW t \in Tasks, RetryCheck(c, t) PROVE Excl'
  BY <1>8 DEF RetryCheck, Retryable, TaskStatus, Excl, ExclusiveExecution, Executing, procVars, taskVars
<1>9. ASSUME NEW w \in Workers, Complete(w) PROVE Excl'
  BY <1>9 DEF Complete, At, Goto, Excl, ExclusiveExecution, Executing, Procs, Shape
<1>10. ASSUME NEW w \in Workers, NEW t \in Tasks, Claim(w, t) PROVE Excl'
  BY <1>10 DEF Claim, Claimable, At, Goto, Excl, ExclusiveExecution, Executing, Procs, Shape
<1>11. ASSUME NEW p \in Procs, FailWrite(p) PROVE Excl'
  BY <1>11 DEF FailWrite, At, Goto, Excl, ExclusiveExecution, Executing, Procs, Shape
<1>12. ASSUME NEW w \in Workers, Execute(w) \/ DispatchRaises(w), ~Complete(w) PROVE Excl'
  <2>1. w \in Procs
    BY DEF Procs
  <2> QED
    BY <1>12, <2>1, QuietSteps, QuietKeepsExcl DEF Execute
<1>13. ASSUME NEW p \in Procs, FailCall(p) \/ StatementRaises(p), ~FailWrite(p) PROVE Excl'
  BY <1>13, QuietSteps, QuietKeepsExcl DEF FailCall
<1>14. CASE RecoveryScan
  BY <1>14 DEF RecoveryScan, Recoverable, Running, At, Excl, ExclusiveExecution, Executing, Procs, taskVars
<1>15. CASE Crash \/ StopWorkers
  <2>1. batch' = {} /\ \A p \in Procs : ~Executing(p)'
    BY <1>15 DEF Crash, StopWorkers, ProcessesDie, Executing
  <2>2. \A c \in Clients : (asked'[c] = NoTask \/ UNCHANGED <<asked, status>>)
    BY <1>15 DEF Crash, StopWorkers, taskVars
  <2> QED
    BY <2>1, <2>2 DEF Excl, ExclusiveExecution, Procs
<1>18. CASE StopRecovery
  BY <1>18 DEF StopRecovery, Finish, Excl, ExclusiveExecution, Executing, Procs, taskVars
<1>19. CASE StopRequeues \/ StopRequeueRaises
  BY <1>19 DEF StopRequeues, StopRequeueRaises, RequeueRunning, Excl, ExclusiveExecution, Executing,
               procVars, taskVars
<1>16. CASE Start
  BY <1>16 DEF Start, RequeueRunning, Excl, ExclusiveExecution, Executing, procVars
<1>17. CASE StartRaises
  BY <1>17 DEF StartRaises, Excl, ExclusiveExecution, Executing, procVars, taskVars
<1> QED
  BY <1>1, <1>2, <1>3, <1>4, <1>5, <1>6, <1>7, <1>8, <1>9, <1>10, <1>11, <1>12, <1>13,
     <1>14, <1>15, <1>16, <1>17, <1>18, <1>19 DEF Next, Shutdown

\* Under Prompt a claimed task is worked on by one process at a time, and only
\* while its row says running: FOR UPDATE SKIP LOCKED in claim, the status guard of
\* cancel and the lease scan are enough to keep LeaseRecovery, workers and the API
\* apart, over any number of crashes and restarts.
THEOREM ClaimIsExclusive ==
  ASSUME Prompt
  PROVE  Spec => []ExclusiveExecution
<1>1. Init => Excl
  BY DEF Init, NoProcess, Excl, ExclusiveExecution, Executing
<1>2. Typed /\ Excl /\ [Next]_vars => Excl'
  BY StepExcl DEF Prompt, NoEventLost
<1>3. Excl => ExclusiveExecution
  BY DEF Excl
<1> QED
  BY <1>1, <1>2, <1>3, TypedAlways, PTL DEF Spec

-----------------------------------------------------------------------------
(* Under Prompt the queue implements the transition matrix.                *)

\* The attempt_count that fail has read is still the one in the row.
Fresh == \A p \in Procs : pc[p] = "fail_write" => seen[p] = count[cur[p]]

\* A process is about to write the failure only because it was before, or has
\* just read the count.
LEMMA OnlyReadFails ==
  ASSUME Typed, [Next]_vars, NEW q \in Procs, pc'[q] = "fail_write"
  PROVE  \/ pc[q] = "fail_write" /\ cur'[q] = cur[q] /\ seen'[q] = seen[q]
         \/ FailRead(q)
<1> DEFINE Goal == \/ pc[q] = "fail_write" /\ cur'[q] = cur[q] /\ seen'[q] = seen[q]
                   \/ FailRead(q)
<1> USE QueueAssumption DEF Typed, TypeOK, Procs, procVars
<1>1. CASE UNCHANGED vars
  BY <1>1 DEF vars
<1>2. ASSUME NEW t \in Tasks, Submit(t) \/ BackoffElapses(t) \/ LeaseExpires(t) \/ RecoveryPick(t)
      PROVE  Goal
  BY <1>2 DEF Submit, BackoffElapses, LeaseExpires, RecoveryPick, Goto
<1>3. ASSUME NEW S \in SUBSET Tasks, Cancel(S) PROVE Goal
  BY <1>3 DEF Cancel
<1>4. ASSUME NEW c \in Clients, RetryUpdate(c) \/ \E t \in Tasks : RetryCheck(c, t)
      PROVE  Goal
  BY <1>4 DEF RetryUpdate, RetryCheck
<1>5. ASSUME NEW w \in Workers, Execute(w) PROVE Goal
  <2>1. CASE Dispatch(w) \/ ReadAttemptNo(w) \/ InsertAttempt(w) \/ ProviderAnswers(w)
    BY <2>1 DEF Dispatch, ReadAttemptNo, InsertAttempt, ProviderAnswers, At, Goto
  <2>2. CASE InsertRejected(w) \/ ProviderRaises(w)
    BY <2>2 DEF InsertRejected, ProviderRaises, At, Raise, Finish, Goto
  <2>3. CASE MarkSucceeded(w) \/ MarkFailed(w) \/ Complete(w) \/ StoreResult(w)
    BY <2>3 DEF MarkSucceeded, MarkFailed, Complete, StoreResult, AfterStore, At, Goto
  <2> QED
    BY <1>5, <2>1, <2>2, <2>3 DEF Execute
<1>6. ASSUME NEW w \in Workers, DispatchRaises(w) \/ \E t \in Tasks : Claim(w, t)
      PROVE  Goal
  BY <1>6 DEF DispatchRaises, Claim, At, Goto
<1>7. ASSUME NEW p \in Procs, FailCall(p) PROVE Goal
  BY <1>7 DEF FailCall, FailRead, FailWrite, Emit, At, Goto, Finish
<1>8. ASSUME NEW p \in Procs, StatementRaises(p) PROVE Goal
  BY <1>8 DEF StatementRaises, Raise, Finish, Goto
<1>9. CASE RecoveryScan \/ Crash \/ Shutdown \/ Start \/ StartRaises
  BY <1>9 DEF RecoveryScan, Crash, Shutdown, StopRecovery, StopWorkers,
              StopRequeues, StopRequeueRaises, Start, StartRaises, ProcessesDie, Finish
<1> QED
  BY <1>1, <1>2, <1>3, <1>4, <1>5, <1>6, <1>7, <1>8, <1>9 DEF Next

\* While a process executes a task nobody else writes the task's count.
LEMMA CountIsMine ==
  ASSUME Typed, Excl, [Next]_vars, NEW q \in Procs, Executing(q), pc'[q] = pc[q]
  PROVE  count'[cur[q]] = count[cur[q]]
<1> USE QueueAssumption DEF Typed, TypeOK, Shape, Excl, ExclusiveExecution, Executing
<1>1. CASE UNCHANGED <<status, count>>
  BY <1>1
<1>2. ASSUME NEW t \in Tasks, Submit(t) PROVE count' = count
  BY <1>2 DEF Submit
<1>3. ASSUME NEW S \in SUBSET Tasks, Cancel(S) PROVE count' = count
  BY <1>3 DEF Cancel
<1>4. ASSUME NEW c \in Clients, RetryUpdate(c) PROVE count'[cur[q]] = count[cur[q]]
  BY <1>4 DEF RetryUpdate
<1>5. ASSUME NEW w \in Workers, NEW t \in Tasks, Claim(w, t) PROVE count' = count
  BY <1>5 DEF Claim
<1>6. ASSUME NEW w \in Workers, Complete(w) PROVE count'[cur[q]] = count[cur[q]]
  BY <1>6 DEF Complete, At, Goto, Procs
<1>7. ASSUME NEW p \in Procs, FailWrite(p) PROVE count'[cur[q]] = count[cur[q]]
  BY <1>7 DEF FailWrite, At, Goto
<1>8. CASE RequeueRunning
  BY <1>8 DEF RequeueRunning
<1> QED
  BY <1>1, <1>2, <1>3, <1>4, <1>5, <1>6, <1>7, <1>8, RowWriters DEF WritesRow

\* The count that fail has read is still the count when it writes: nobody else
\* writes the row of a task being executed.
LEMMA StepFresh == Typed /\ Excl /\ Fresh /\ [Next]_vars => Fresh'
<1> SUFFICES ASSUME Typed, Excl, Fresh, [Next]_vars, NEW q \in Procs, pc'[q] = "fail_write"
             PROVE  seen'[q] = count'[cur'[q]]
  BY DEF Fresh
<1>1. CASE pc[q] = "fail_write" /\ cur'[q] = cur[q] /\ seen'[q] = seen[q]
  BY <1>1, CountIsMine DEF Fresh, Executing
<1>2. CASE FailRead(q)
  BY <1>2 DEF FailRead, taskVars, Typed, TypeOK
<1> QED
  BY <1>1, <1>2, OnlyReadFails

\* Every step of the queue is a transition of the matrix, or leaves the row alone.
LEMMA StepImplements ==
  Prompt /\ Typed /\ Excl /\ Fresh /\ Budget /\ [Next]_vars
    => [Lifecycle!Next]_<<status, count>>
<1> SUFFICES ASSUME Prompt, Typed, Excl, Fresh, Budget, [Next]_vars
             PROVE  [Lifecycle!Next]_<<status, count>>
  OBVIOUS
<1> USE QueueAssumption DEF Typed, TypeOK, Shape, Lifecycle!Move
<1>1. CASE UNCHANGED <<status, count>>
  BY <1>1
<1>2. ASSUME NEW t \in Tasks, Submit(t) PROVE Lifecycle!Submit(t)
  BY <1>2 DEF Submit, Lifecycle!Submit, Budget
<1>3. ASSUME NEW S \in SUBSET Tasks, Cancel(S) PROVE Lifecycle!Cancel(S)
  BY <1>3 DEF Cancel, Cancellable, Lifecycle!Cancel
<1>4. ASSUME NEW c \in Clients, RetryUpdate(c)
      PROVE  asked[c] \in Tasks /\ Lifecycle!Retry(asked[c])
  BY <1>4 DEF RetryUpdate, Excl, Lifecycle!Retry
<1>5. ASSUME NEW w \in Workers, NEW t \in Tasks, Claim(w, t) PROVE Lifecycle!Claim(t)
  BY <1>5 DEF Claim, Claimable, Lifecycle!Claim
<1>6. ASSUME NEW w \in Workers, Complete(w)
      PROVE  cur[w] \in Tasks /\ Lifecycle!Complete(cur[w])
  BY <1>6 DEF Complete, At, Procs, Excl, ExclusiveExecution, Executing, Lifecycle!Complete
<1>7. ASSUME NEW p \in Procs, FailWrite(p)
      PROVE  cur[p] \in Tasks /\ (Lifecycle!Requeue(cur[p]) \/ Lifecycle!Exhaust(cur[p]))
  <2>1. /\ cur[p] \in Tasks /\ status[cur[p]] = "running" /\ seen[p] = count[cur[p]]
        /\ count[cur[p]] \in Nat
    BY <1>7 DEF FailWrite, At, Excl, ExclusiveExecution, Executing, Fresh
  <2>2. CASE count[cur[p]] + 1 < MaxAttempts
    BY <1>7, <2>1, <2>2 DEF FailWrite, AttemptsLeft, AfterFailure, Lifecycle!Requeue
  <2>3. CASE ~(count[cur[p]] + 1 < MaxAttempts)
    BY <1>7, <2>1, <2>3 DEF FailWrite, AttemptsLeft, AfterFailure, Lifecycle!Exhaust
  <2> QED
    BY <2>1, <2>2, <2>3
<1>8. ASSUME RequeueRunning PROVE Lifecycle!Restart
  BY <1>8 DEF RequeueRunning, Lifecycle!Restart
<1>9. WritesRow => Lifecycle!Next
  BY <1>2, <1>3, <1>4, <1>5, <1>6, <1>7, <1>8 DEF WritesRow, Lifecycle!Next
<1> QED
  BY <1>1, <1>9, RowWriters

\* Under Prompt every step of the queue is a step of the transition matrix of
\* ARCHITECTURE.md section 4.2 or leaves status and attempt_count alone: the split
\* SELECT and UPDATE of fail and the unguarded UPDATEs act as if they were atomic
\* and guarded.
THEOREM QueueImplementsLifecycle ==
  ASSUME Prompt
  PROVE  Spec => ImplementsLifecycle
<1>1. Init => Excl /\ Fresh /\ Budget /\ Lifecycle!Init
  BY QueueAssumption DEF Init, NoProcess, Excl, ExclusiveExecution, Executing, Fresh, Budget,
     BudgetLeft, Lifecycle!Init
<1>2. Typed /\ Excl /\ [Next]_vars => Excl'
  BY StepExcl DEF Prompt, NoEventLost
<1>3. Typed /\ Excl /\ Fresh /\ [Next]_vars => Fresh'
  BY StepFresh
<1>4. Typed /\ Budget /\ [Next]_vars => Budget'
  BY StepBudget
<1>5. Typed /\ Excl /\ Fresh /\ Budget /\ [Next]_vars => [Lifecycle!Next]_<<status, count>>
  BY StepImplements
<1> QED
  BY <1>1, <1>2, <1>3, <1>4, <1>5, TypedAlways, PTL DEF Spec, ImplementsLifecycle, Lifecycle!Spec
=============================================================================
