--------------------------- MODULE LlmAttemptProofs ---------------------------
(***************************************************************************)
(* What holds of the attempts and results of LlmTaskQueue: who writes a    *)
(* row, which numbers there are, and what they say of the task.            *)
(***************************************************************************)
EXTENDS LlmTaskQueueProofs, DataLemmas

\* The steps in which a worker has an attempt row of its own.
Owning == {"call", "mark", "store", "complete", "mark_bad"}

-----------------------------------------------------------------------------
(* What one process does in a step.                                        *)

\* Process p keeps its place and its locals.
Stays(p) ==
  /\ pc'[p] = pc[p] /\ ctx'[p] = ctx[p] /\ cur'[p] = cur[p]
  /\ no'[p] = no[p] /\ seen'[p] = seen[p]

\* Process p takes a step of its own.
Acts(p) ==
  \/ p \in Workers /\ (Execute(p) \/ DispatchRaises(p) \/ \E t \in Tasks : Claim(p, t))
  \/ FailCall(p) \/ StatementRaises(p)
  \/ p = Recovery /\ \E t \in Tasks : RecoveryPick(t)

\* Another process's exception handler leaves p alone.
LEMMA RaiseSpares ==
  ASSUME Typed, NEW p \in Procs, NEW q \in Procs, q # p, NEW n, Raise(q, n)
  PROVE  Stays(p)
  BY DEF Raise, Goto, Finish, Stays, Typed, TypeOK

\* A step of one process leaves every other process where it is.
LEMMA ActSpares ==
  ASSUME Typed, NEW p \in Procs, NEW q \in Procs, q # p, Acts(q)
  PROVE  Stays(p)
<1> USE QueueAssumption DEF Typed, TypeOK
<1>1. CASE q \in Workers /\ Execute(q)
  <2>1. CASE Dispatch(q) \/ ReadAttemptNo(q) \/ InsertAttempt(q) \/ ProviderAnswers(q)
    BY <2>1 DEF Dispatch, ReadAttemptNo, InsertAttempt, ProviderAnswers, Goto, Stays
  <2>2. CASE InsertRejected(q) \/ ProviderRaises(q)
    BY <2>2, RaiseSpares DEF InsertRejected, ProviderRaises
  <2>3. CASE MarkSucceeded(q) \/ StoreResult(q) \/ Complete(q) \/ MarkFailed(q)
    BY <2>3 DEF MarkSucceeded, StoreResult, Complete, MarkFailed, Goto, Stays
  <2> QED
    BY <1>1, <2>1, <2>2, <2>3 DEF Execute
<1>2. CASE q \in Workers /\ (DispatchRaises(q) \/ \E t \in Tasks : Claim(q, t))
  BY <1>2 DEF DispatchRaises, Claim, Goto, Stays
<1>3. CASE FailCall(q)
  BY <1>3 DEF FailCall, FailRead, FailWrite, Emit, Finish, Goto, Stays
<1>4. CASE StatementRaises(q)
  BY <1>4, RaiseSpares DEF StatementRaises, Goto, Stays
<1>5. CASE q = Recovery /\ \E t \in Tasks : RecoveryPick(t)
  BY <1>5 DEF RecoveryPick, Goto, Stays, Procs
<1> QED
  BY <1>1, <1>2, <1>3, <1>4, <1>5 DEF Acts

\* Process p is ended by the service.
Ends(p) == Crash \/ StopWorkers \/ (p = Recovery /\ StopRecovery)

\* In any step a process stays, dies with the service, or acts itself.
LEMMA Moves ==
  ASSUME Typed, [Next]_vars, NEW p \in Procs
  PROVE  Stays(p) \/ (Ends(p) /\ pc'[p] = "idle") \/ Acts(p)
<1>1. ASSUME NEW q \in Procs, Acts(q) PROVE Stays(p) \/ Acts(p)
  BY <1>1, ActSpares
<1>2. CASE UNCHANGED vars
  BY <1>2 DEF vars, procVars, Stays
<1>3. ASSUME NEW t \in Tasks, Submit(t) \/ BackoffElapses(t) \/ LeaseExpires(t) PROVE Stays(p)
  BY <1>3 DEF Submit, BackoffElapses, LeaseExpires, procVars, Stays
<1>4. ASSUME NEW S \in SUBSET Tasks, Cancel(S) PROVE Stays(p)
  BY <1>4 DEF Cancel, procVars, Stays
<1>5. ASSUME NEW c \in Clients, RetryUpdate(c) \/ \E t \in Tasks : RetryCheck(c, t)
      PROVE  Stays(p)
  BY <1>5 DEF RetryUpdate, RetryCheck, procVars, Stays
<1>6. ASSUME NEW w \in Workers, Execute(w) \/ DispatchRaises(w) \/ \E t \in Tasks : Claim(w, t)
      PROVE  Stays(p) \/ Acts(p)
  BY <1>1, <1>6 DEF Acts, Procs
<1>7. ASSUME NEW q \in Procs, FailCall(q) \/ StatementRaises(q) PROVE Stays(p) \/ Acts(p)
  BY <1>1, <1>7 DEF Acts
<1>8. ASSUME NEW t \in Tasks, RecoveryPick(t) PROVE Stays(p) \/ Acts(p)
  BY <1>1, <1>8 DEF Acts, Procs
<1>9. CASE RecoveryScan \/ Start \/ StartRaises
  BY <1>9 DEF RecoveryScan, Start, StartRaises, procVars, Stays
<1>10. CASE Crash \/ Shutdown
  <2>1. CASE Crash \/ StopWorkers
    BY <1>10, <2>1 DEF Crash, StopWorkers, ProcessesDie, Ends
  <2>2. CASE StopRecovery
    BY <1>10, <2>2 DEF StopRecovery, Finish, Stays, Ends, Typed, TypeOK, Procs
  <2>3. CASE StopRequeues \/ StopRequeueRaises
    BY <2>3 DEF StopRequeues, StopRequeueRaises, procVars, Stays
  <2> QED
    BY <1>10, <2>1, <2>2, <2>3 DEF Shutdown
<1> QED
  BY <1>2, <1>3, <1>4, <1>5, <1>6, <1>7, <1>8, <1>9, <1>10 DEF Next

-----------------------------------------------------------------------------
(* The rows of agent_llm_attempts.                                         *)

\* The statements that write attempt rows.
LEMMA AttemptWriters ==
  ASSUME [Next]_vars
  PROVE  \/ UNCHANGED attempts
         \/ \E w \in Workers : InsertAttempt(w) \/ MarkSucceeded(w) \/ MarkFailed(w)
         \/ \E t \in Tasks : RecoveryPick(t)
<1> SUFFICES ASSUME Next,
                    ~\E w \in Workers : InsertAttempt(w) \/ MarkSucceeded(w) \/ MarkFailed(w),
                    ~\E t \in Tasks : RecoveryPick(t)
             PROVE  UNCHANGED attempts
  BY DEF vars, rowVars
<1> USE DEF rowVars
<1>1. ASSUME NEW t \in Tasks, Submit(t) \/ BackoffElapses(t) \/ LeaseExpires(t)
      PROVE  UNCHANGED attempts
  BY <1>1 DEF Submit, BackoffElapses, LeaseExpires
<1>2. ASSUME NEW S \in SUBSET Tasks, Cancel(S) PROVE UNCHANGED attempts
  BY <1>2 DEF Cancel
<1>3. ASSUME NEW c \in Clients, RetryUpdate(c) \/ \E t \in Tasks : RetryCheck(c, t)
      PROVE  UNCHANGED attempts
  BY <1>3 DEF RetryUpdate, RetryCheck
<1>4. ASSUME NEW w \in Workers, Execute(w) \/ DispatchRaises(w) \/ \E t \in Tasks : Claim(w, t)
      PROVE  UNCHANGED attempts
  BY <1>4 DEF Execute, Dispatch, ReadAttemptNo, InsertRejected, ProviderAnswers, ProviderRaises,
              StoreResult, Complete, DispatchRaises, Claim
<1>5. ASSUME NEW p \in Procs, FailCall(p) \/ StatementRaises(p) PROVE UNCHANGED attempts
  BY <1>5 DEF FailCall, FailRead, FailWrite, Emit, StatementRaises
<1>6. CASE RecoveryScan \/ Crash \/ Shutdown \/ Start \/ StartRaises
  BY <1>6 DEF RecoveryScan, Crash, Shutdown, StopRecovery, StopWorkers,
              StopRequeues, StopRequeueRaises, Start, StartRaises
<1> QED
  BY <1>1, <1>2, <1>3, <1>4, <1>5, <1>6 DEF Next

\* An attempt number is used for ever, and only the INSERT uses a new one.
LEMMA NumbersStay ==
  ASSUME Typed, [Next]_vars, NEW t \in Tasks, NEW n \in Nat
  PROVE  AttemptExists(t, n)' <=>
           AttemptExists(t, n) \/ \E w \in Workers : InsertAttempt(w) /\ t = cur[w] /\ n = no[w]
<1> USE DEF AttemptExists, AttemptStatus
<1> DEFINE Inserted == \E w \in Workers : InsertAttempt(w) /\ t = cur[w] /\ n = no[w]
<1>1. ASSUME NEW w \in Workers, InsertAttempt(w)
      PROVE  AttemptExists(t, n)' <=> AttemptExists(t, n) \/ (t = cur[w] /\ n = no[w])
  BY <1>1 DEF InsertAttempt
<1>2. ASSUME NEW v \in Workers, NEW w \in Workers, InsertAttempt(v), InsertAttempt(w)
      PROVE  v = w
  <2>1. pc[v] = "insert" /\ pc'[v] = "call" /\ v \in Procs
    BY <1>2 DEF InsertAttempt, At, Goto, Typed, TypeOK, Procs
  <2>2. v # w => pc'[v] = pc[v]
    BY <1>2, <2>1 DEF InsertAttempt, Goto, Typed, TypeOK, Procs
  <2> QED
    BY <2>1, <2>2
<1>3. ASSUME NEW w \in Workers, MarkSucceeded(w) \/ MarkFailed(w)
      PROVE  AttemptExists(t, n)' <=> AttemptExists(t, n)
  <2>1. PICK s \in AttemptStatus : MarkAttempt(cur[w], no[w], s)
    BY <1>3 DEF MarkSucceeded, MarkFailed
  <2> QED
    BY <2>1 DEF MarkAttempt
<1>4. ASSUME NEW u \in Tasks, RecoveryPick(u)
      PROVE  AttemptExists(t, n)' <=> AttemptExists(t, n)
  <2>1. \A a \in attempts : a = <<a[1], a[2], a[3]>>
    BY DEF Typed, TypeOK
  <2> QED
    BY <1>4, <2>1 DEF RecoveryPick
<1>5. ASSUME NEW w \in Workers, InsertAttempt(w), UNCHANGED attempts PROVE FALSE
  <2>1. <<cur[w], no[w], "running">> \in attempts' /\ ~AttemptExists(cur[w], no[w])
    BY <1>5 DEF InsertAttempt
  <2> QED
    BY <1>5, <2>1
<1> QED
  BY <1>1, <1>2, <1>3, <1>4, <1>5, AttemptWriters

-----------------------------------------------------------------------------
(* Attempt rows have one owner.                                            *)

\* The row a worker is writing to exists.
Owned == \A w \in Workers : pc[w] \in Owning => AttemptExists(cur[w], no[w])

\* A worker owns a row because it did before, or because it has inserted it now.
LEMMA OnlyInsertOwns ==
  ASSUME Typed, [Next]_vars, NEW w \in Workers, pc'[w] \in Owning
  PROVE  /\ cur'[w] = cur[w] /\ no'[w] = no[w] /\ cur[w] \in Tasks /\ no[w] \in Nat
         /\ pc[w] \in Owning \/ InsertAttempt(w)
<1> USE QueueAssumption DEF Typed, TypeOK, Shape, Owning, Procs
<1>1. CASE Stays(w)
  BY <1>1 DEF Stays
<1>2. CASE Execute(w)
  <2>1. CASE InsertAttempt(w) \/ ProviderAnswers(w) \/ MarkSucceeded(w) \/ StoreResult(w)
    BY <2>1 DEF InsertAttempt, ProviderAnswers, MarkSucceeded, StoreResult, At
  <2>2. CASE Dispatch(w) \/ ReadAttemptNo(w) \/ Complete(w) \/ MarkFailed(w)
    BY <2>2 DEF Dispatch, ReadAttemptNo, Complete, MarkFailed, Goto
  <2>3. CASE InsertRejected(w) \/ ProviderRaises(w)
    BY <2>3 DEF InsertRejected, ProviderRaises, Raise, Finish, Goto
  <2> QED
    BY <1>2, <2>1, <2>2, <2>3 DEF Execute
<1>3. CASE DispatchRaises(w) \/ \E t \in Tasks : Claim(w, t)
  BY <1>3 DEF DispatchRaises, Claim, Goto
<1>4. CASE FailCall(w)
  BY <1>4 DEF FailCall, FailRead, FailWrite, Emit, Finish, Goto
<1>5. CASE StatementRaises(w)
  BY <1>5 DEF StatementRaises, Raise, Finish, Goto
<1>6. Stays(w) \/ Acts(w)
  BY Moves
<1> QED
  BY <1>1, <1>2, <1>3, <1>4, <1>5, <1>6 DEF Acts

\* Two owners of one row would have inserted it twice.
LEMMA StepOwners ==
  Typed /\ Owned /\ OneOwnerPerAttempt /\ [Next]_vars => (Owned /\ OneOwnerPerAttempt)'
<1> SUFFICES ASSUME Typed, Owned, OneOwnerPerAttempt, [Next]_vars
             PROVE  Owned' /\ OneOwnerPerAttempt'
  OBVIOUS
<1>1. ASSUME NEW w \in Workers, pc'[w] \in Owning PROVE AttemptExists(cur[w], no[w])'
  <2>1. PICK t \in Tasks, n \in Nat : t = cur[w] /\ n = no[w] /\ t = cur'[w] /\ n = no'[w]
    BY <1>1, OnlyInsertOwns
  <2>2. AttemptExists(t, n)'
    BY <1>1, <2>1, OnlyInsertOwns, NumbersStay DEF Owned
  <2> QED
    BY <2>1, <2>2 DEF AttemptExists
<1>2. ASSUME NEW v \in Workers, NEW w \in Workers, v # w,
             pc'[v] \in Owning, pc'[w] \in Owning, cur'[v] = cur'[w], no'[v] = no'[w]
      PROVE  FALSE
  <2>1. cur[v] = cur[w] /\ no[v] = no[w] /\ cur[v] \in Tasks
    BY <1>2, OnlyInsertOwns
  <2>2. ~(pc[v] \in Owning /\ pc[w] \in Owning)
    BY <1>2, <2>1, QueueAssumption DEF OneOwnerPerAttempt, Owning
  <2>3. ASSUME NEW x \in Workers, NEW y \in Workers, x # y, InsertAttempt(x), pc'[y] \in Owning,
               cur[x] = cur[y], no[x] = no[y]
        PROVE  FALSE
    <3>1. ~AttemptExists(cur[y], no[y]) /\ pc[y] = pc'[y]
      BY <2>3 DEF InsertAttempt, Goto, Typed, TypeOK, Procs
    <3> QED
      BY <2>3, <3>1 DEF Owned
  <2> QED
    BY <1>2, <2>1, <2>2, <2>3, OnlyInsertOwns
<1> QED
  BY <1>1, <1>2 DEF Owned, OneOwnerPerAttempt, Owning

\* Two workers never write to the same attempt row, although leases may lapse under
\* them, any statement may raise and the service may restart: whoever calls the
\* provider has inserted a row of its own, which UNIQUE (task_id, attempt_no) admits
\* once.
THEOREM AttemptHasOneOwner == Spec => []OneOwnerPerAttempt
<1>1. Init => Owned /\ OneOwnerPerAttempt
  BY DEF Init, NoProcess, Owned, OneOwnerPerAttempt, Owning, Procs
<1>2. Typed /\ Owned /\ OneOwnerPerAttempt /\ [Next]_vars => (Owned /\ OneOwnerPerAttempt)'
  BY StepOwners
<1> QED
  BY <1>1, <1>2, TypedAlways, PTL DEF Spec

-----------------------------------------------------------------------------
(* The numbers of attempts.                                                *)

\* A number that is about to be inserted is within the budget.
Numbers == \A w \in Workers : pc[w] = "insert" => no[w] \in 1 .. MaxAttempts

\* The number of an attempt is one more than the count of a task that has budget.
LEMMA StepNumbers ==
  Typed /\ Excl /\ Budget /\ Numbers /\ [Next]_vars => Numbers'
<1> SUFFICES ASSUME Typed, Excl, Budget, Numbers, [Next]_vars,
                    NEW w \in Workers, pc'[w] = "insert"
             PROVE  no'[w] \in 1 .. MaxAttempts
  BY DEF Numbers
<1> USE QueueAssumption DEF Typed, TypeOK, Shape, Procs
<1>1. CASE Stays(w)
  BY <1>1 DEF Stays, Numbers
<1>2. CASE ReadAttemptNo(w)
  <2>1. cur[w] \in Tasks /\ status[cur[w]] = "running" /\ count[cur[w]] \in Nat
    BY <1>2 DEF ReadAttemptNo, At, Excl, ExclusiveExecution, Executing
  <2>2. count[cur[w]] < MaxAttempts
    BY <2>1 DEF Budget, BudgetLeft
  <2>3. no'[w] = count[cur[w]] + 1
    BY <1>2 DEF ReadAttemptNo
  <2> QED
    BY <2>1, <2>2, <2>3
<1>3. CASE Execute(w) /\ ~ReadAttemptNo(w)
  <2>1. CASE Dispatch(w) \/ InsertAttempt(w) \/ ProviderAnswers(w) \/ MarkSucceeded(w)
    BY <2>1 DEF Dispatch, InsertAttempt, ProviderAnswers, MarkSucceeded, Goto
  <2>2. CASE StoreResult(w) \/ Complete(w) \/ MarkFailed(w)
    BY <2>2 DEF StoreResult, AfterStore, Complete, MarkFailed, Goto
  <2>3. CASE InsertRejected(w) \/ ProviderRaises(w)
    BY <2>3 DEF InsertRejected, ProviderRaises, Raise, Finish, Goto
  <2> QED
    BY <1>3, <2>1, <2>2, <2>3 DEF Execute
<1>4. CASE DispatchRaises(w) \/ \E t \in Tasks : Claim(w, t)
  BY <1>4 DEF DispatchRaises, Claim, Goto
<1>5. CASE FailCall(w)
  BY <1>5 DEF FailCall, FailRead, FailWrite, Emit, Finish, Goto
<1>6. CASE StatementRaises(w)
  BY <1>6 DEF StatementRaises, Raise, Finish, Goto
<1> QED
  BY <1>1, <1>2, <1>3, <1>4, <1>5, <1>6, Moves DEF Acts

\* A new attempt row has a number within the budget; the others keep theirs.
LEMMA StepCalls == Typed /\ Numbers /\ CallBudget /\ [Next]_vars => CallBudget'
<1> SUFFICES ASSUME Typed, Numbers, CallBudget, [Next]_vars,
                    NEW a \in attempts'
             PROVE  a[2] \in 1 .. MaxAttempts
  BY DEF CallBudget
<1>1. CASE UNCHANGED attempts
  BY <1>1 DEF CallBudget
<1>2. ASSUME NEW w \in Workers, InsertAttempt(w) PROVE a[2] \in 1 .. MaxAttempts
  BY <1>2 DEF InsertAttempt, At, Numbers, CallBudget
<1>3. ASSUME NEW w \in Workers, MarkSucceeded(w) \/ MarkFailed(w)
      PROVE  a[2] \in 1 .. MaxAttempts
  <2>1. PICK s \in AttemptStatus : MarkAttempt(cur[w], no[w], s)
    BY <1>3 DEF MarkSucceeded, MarkFailed, AttemptStatus
  <2>2. CASE AttemptExists(cur[w], no[w])
    <3>1. no[w] \in 1 .. MaxAttempts
      BY <2>2 DEF AttemptExists, CallBudget
    <3> QED
      BY <2>1, <2>2, <3>1 DEF MarkAttempt, CallBudget
  <2>3. CASE ~AttemptExists(cur[w], no[w])
    BY <2>1, <2>3 DEF MarkAttempt, CallBudget
  <2> QED
    BY <2>2, <2>3
<1>4. ASSUME NEW t \in Tasks, RecoveryPick(t) PROVE a[2] \in 1 .. MaxAttempts
  BY <1>4 DEF RecoveryPick, CallBudget
<1> QED
  BY <1>1, <1>2, <1>3, <1>4, AttemptWriters

\* Under Prompt a task costs at most max_attempts calls of its provider, over all
\* its retries, crashes and restarts: every call has an attempt row of its own, and
\* its number is one more than the attempt_count of a running task.
THEOREM CallsStayInBudget ==
  ASSUME Prompt
  PROVE  Spec => []CallBudget
<1>1. Init => Excl /\ Budget /\ Numbers /\ CallBudget
  BY QueueAssumption DEF Init, NoProcess, Excl, ExclusiveExecution, Executing, Budget,
     BudgetLeft, Numbers, CallBudget, Procs
<1>2. Typed /\ Excl /\ [Next]_vars => Excl'
  BY StepExcl DEF Prompt, NoEventLost
<1>3. Typed /\ Budget /\ [Next]_vars => Budget'
  BY StepBudget
<1>4. Typed /\ Excl /\ Budget /\ Numbers /\ [Next]_vars => Numbers'
  BY StepNumbers
<1>5. Typed /\ Numbers /\ CallBudget /\ [Next]_vars => CallBudget'
  BY StepCalls
<1> QED
  BY <1>1, <1>2, <1>3, <1>4, <1>5, TypedAlways, PTL DEF Spec

-----------------------------------------------------------------------------
(* Open attempts, while nothing has failed and the service has not stopped. *)

\* An exception raised by the provider is caught by the executor, and a rejected
\* INSERT by the executor or by the safety net.
Caught ==
  \A w \in Workers : /\ pc[w] = "call" => ctx[w] = "try"
                     /\ pc[w] \in {"read_no", "insert"} => ctx[w] # "loop"

\* The handlers are set up by the dispatch and by the INSERT.
LEMMA StepCaught == Typed /\ Caught /\ [Next]_vars => Caught'
<1> SUFFICES ASSUME Typed, Caught, [Next]_vars, NEW w \in Workers
             PROVE  /\ pc'[w] = "call" => ctx'[w] = "try"
                    /\ pc'[w] \in {"read_no", "insert"} => ctx'[w] # "loop"
  BY DEF Caught
<1> USE QueueAssumption DEF Typed, TypeOK, Procs
<1>1. CASE Stays(w)
  BY <1>1 DEF Stays, Caught
<1>2. CASE InsertAttempt(w)
  BY <1>2 DEF InsertAttempt, Goto
<1>3. CASE Execute(w) /\ ~InsertAttempt(w)
  <2>1. CASE Dispatch(w) \/ ReadAttemptNo(w) \/ ProviderAnswers(w) \/ MarkSucceeded(w)
    BY <2>1 DEF Dispatch, ReadAttemptNo, ProviderAnswers, MarkSucceeded, At, Goto, Caught
  <2>2. CASE StoreResult(w) \/ Complete(w) \/ MarkFailed(w)
    BY <2>2 DEF StoreResult, AfterStore, Complete, MarkFailed, Goto
  <2>3. CASE InsertRejected(w) \/ ProviderRaises(w)
    BY <2>3 DEF InsertRejected, ProviderRaises, Raise, Finish, Goto
  <2> QED
    BY <1>3, <2>1, <2>2, <2>3 DEF Execute
<1>4. CASE DispatchRaises(w) \/ \E t \in Tasks : Claim(w, t)
  BY <1>4 DEF DispatchRaises, Claim, Goto
<1>5. CASE FailCall(w)
  BY <1>5 DEF FailCall, FailRead, FailWrite, Emit, Finish, Goto
<1>6. CASE StatementRaises(w)
  BY <1>6 DEF StatementRaises, Raise, Finish, Goto
<1> QED
  BY <1>1, <1>2, <1>3, <1>4, <1>5, <1>6, Moves DEF Acts

\* Worker w has the attempt a open: it will mark it as succeeded or as failed.
HasOpen(w, a) ==
  cur[w] = a[1] /\ no[w] = a[2] /\ pc[w] \in {"call", "mark", "mark_exc"}

\* The service has not been stopped and no statement has raised.
Smooth == stops = 0 /\ faults = 0

\* Every open attempt has the worker that will close it.
Opened == Smooth => \A a \in attempts : a[3] = "running" => \E w \in Workers : HasOpen(w, a)

\* What is not a stop, a start or a fault leaves their bounds alone.
LEMMA OtherSteps ==
  ASSUME [Next]_vars, ~Crash, ~Shutdown, ~Start, ~StartRaises
  PROVE  /\ UNCHANGED <<up, stops>>
         /\ (\A p \in Procs : ~StatementRaises(p) /\ ~DispatchRaises(p)) => UNCHANGED faults
<1> USE DEF boundVars
<1>1. CASE UNCHANGED vars
  BY <1>1 DEF vars
<1>2. ASSUME NEW t \in Tasks,
             Submit(t) \/ BackoffElapses(t) \/ LeaseExpires(t) \/ RecoveryPick(t)
      PROVE  UNCHANGED <<up, stops, faults>>
  BY <1>2 DEF Submit, BackoffElapses, LeaseExpires, RecoveryPick
<1>3. ASSUME NEW S \in SUBSET Tasks, Cancel(S) PROVE UNCHANGED <<up, stops, faults>>
  BY <1>3 DEF Cancel
<1>4. ASSUME NEW c \in Clients, RetryUpdate(c) \/ \E t \in Tasks : RetryCheck(c, t)
      PROVE  UNCHANGED <<up, stops, faults>>
  BY <1>4 DEF RetryUpdate, RetryCheck
<1>5. ASSUME NEW w \in Workers, Execute(w) \/ \E t \in Tasks : Claim(w, t)
      PROVE  UNCHANGED <<up, stops, faults>>
  BY <1>5 DEF Execute, Dispatch, ReadAttemptNo, InsertAttempt, InsertRejected, ProviderAnswers,
              ProviderRaises, MarkSucceeded, StoreResult, Complete, MarkFailed, Claim
<1>6. ASSUME NEW w \in Workers, DispatchRaises(w) PROVE w \in Procs /\ UNCHANGED <<up, stops>>
  BY <1>6 DEF DispatchRaises, Procs
<1>7. ASSUME NEW p \in Procs, StatementRaises(p) PROVE UNCHANGED <<up, stops>>
  BY <1>7 DEF StatementRaises
<1>8. ASSUME NEW p \in Procs, FailCall(p) PROVE UNCHANGED <<up, stops, faults>>
  BY <1>8 DEF FailCall, FailRead, FailWrite, Emit
<1>9. CASE RecoveryScan
  BY <1>9 DEF RecoveryScan
<1> QED
  BY <1>1, <1>2, <1>3, <1>4, <1>5, <1>6, <1>7, <1>8, <1>9 DEF Next

\* The bounds only count up, and what raises or stops is counted.
LEMMA BoundsCount ==
  ASSUME Typed, [Next]_vars
  PROVE  /\ faults' = 0 => faults = 0 /\ ~StartRaises
                           /\ \A p \in Procs : ~StatementRaises(p) /\ ~DispatchRaises(p)
         /\ stops' = 0 => stops = 0 /\ ~Crash /\ ~Shutdown
         /\ up' => up \/ Start \/ StartRaises
<1> USE DEF Typed, TypeOK
<1>1. ASSUME StartRaises PROVE faults' # 0 /\ stops' = stops
  BY <1>1 DEF StartRaises
<1>2. ASSUME NEW p \in Procs, StatementRaises(p) \/ DispatchRaises(p)
      PROVE  faults' # 0 /\ stops' = stops
  BY <1>2 DEF StatementRaises, DispatchRaises
<1>3. ASSUME Crash \/ Shutdown PROVE (up' => up) /\ stops' # 0 /\ (faults' = 0 => faults = 0)
  BY <1>3 DEF Crash, Shutdown, StopRecovery, StopWorkers, StopRequeues, StopRequeueRaises, boundVars
<1>4. ASSUME Start PROVE faults' = faults /\ stops' = stops
  BY <1>4 DEF Start, boundVars
<1> QED
  BY <1>1, <1>2, <1>3, <1>4, OtherSteps

\* Until an open attempt is marked its worker keeps it open, and goes on to mark it.
LEMMA OpenStays ==
  ASSUME Typed, Caught, [Next]_vars, Smooth', NEW a, NEW w \in Workers, HasOpen(w, a),
         ~MarkSucceeded(w), ~MarkFailed(w)
  PROVE  HasOpen(w, a)'
<1> USE QueueAssumption DEF Typed, TypeOK, Procs, HasOpen
<1>1. CASE Stays(w)
  BY <1>1 DEF Stays
<1>2. ~StatementRaises(w) /\ ~DispatchRaises(w) /\ ~Crash /\ ~Shutdown
  BY BoundsCount DEF Smooth
<1>3. CASE ProviderAnswers(w)
  BY <1>3 DEF ProviderAnswers, At, Goto
<1>4. CASE ProviderRaises(w)
  BY <1>4 DEF ProviderRaises, At, Raise, Goto, Caught
<1>5. CASE Execute(w) /\ ~ProviderAnswers(w) /\ ~ProviderRaises(w)
  BY <1>5 DEF Execute, Dispatch, ReadAttemptNo, InsertAttempt, InsertRejected, StoreResult,
              Complete, At
<1>6. ~FailCall(w) /\ ~\E t \in Tasks : Claim(w, t)
  BY DEF FailCall, FailRead, FailWrite, Emit, Claim, At
<1>7. Stays(w) \/ Acts(w)
  BY <1>2, Moves DEF Ends, Shutdown
<1> QED
  BY <1>1, <1>2, <1>3, <1>4, <1>5, <1>6, <1>7 DEF Acts

\* While nothing fails, an attempt is open as long as its worker has not marked it.
LEMMA StepOpened == Typed /\ Caught /\ Opened /\ [Next]_vars => Opened'
<1> SUFFICES ASSUME Typed, Caught, Opened, [Next]_vars, Smooth',
                    NEW a \in attempts', a[3] = "running"
             PROVE  \E w \in Workers : HasOpen(w, a)'
  BY DEF Opened
<1>1. Smooth
  BY BoundsCount DEF Smooth
<1>2. CASE a \in attempts
  <2>1. PICK w \in Workers : HasOpen(w, a)
    BY <1>1, <1>2 DEF Opened
  <2>2. a = <<cur[w], no[w], "running">>
    BY <1>2, <2>1 DEF HasOpen, Typed, TypeOK
  <2>3. ~MarkSucceeded(w) /\ ~MarkFailed(w)
    BY <1>2, <2>2 DEF MarkSucceeded, MarkFailed, MarkAttempt, AttemptExists, AttemptStatus
  <2> QED
    BY <2>1, <2>3, OpenStays
<1>3. ASSUME a \notin attempts, NEW w \in Workers, InsertAttempt(w) PROVE HasOpen(w, a)'
  BY <1>3 DEF InsertAttempt, Goto, HasOpen, Typed, TypeOK, Procs
<1>4. ASSUME a \notin attempts, NEW w \in Workers, MarkSucceeded(w) \/ MarkFailed(w)
      PROVE  FALSE
  BY <1>4 DEF MarkSucceeded, MarkFailed, MarkAttempt
<1>5. ASSUME a \notin attempts, NEW t \in Tasks, RecoveryPick(t) PROVE FALSE
  BY <1>5 DEF RecoveryPick
<1> QED
  BY <1>2, <1>3, <1>4, <1>5, AttemptWriters

\* Under Timely, and until something fails or stops, an attempt is open only while
\* its task runs: whoever opens an attempt closes it before it settles or requeues
\* the task, on each of the paths through the executors and their handlers.
THEOREM OpenAttemptRuns ==
  ASSUME Timely
  PROVE  Spec => []NoOpenAttempt
<1> DEFINE ExclAtFirst == faults = 0 => Excl
<1>1. Init => ExclAtFirst /\ Caught /\ Opened
  BY DEF Init, NoProcess, Excl, ExclusiveExecution, Executing, Caught, Opened, Procs
<1>2. Typed /\ ExclAtFirst /\ [Next]_vars => ExclAtFirst'
  BY BoundsCount, StepExcl DEF NoEventLost
<1>3. Typed /\ Caught /\ [Next]_vars => Caught'
  BY StepCaught
<1>4. Typed /\ Caught /\ Opened /\ [Next]_vars => Opened'
  BY StepOpened
<1>5. Typed /\ ExclAtFirst /\ Opened => NoOpenAttempt
  BY DEF Excl, ExclusiveExecution, Executing, Opened, Smooth, HasOpen, NoOpenAttempt, Procs
<1> QED
  BY <1>1, <1>2, <1>3, <1>4, <1>5, TypedAlways, PTL DEF Spec

-----------------------------------------------------------------------------
(* Attempt numbers, counts and results, while no statement has raised.     *)

\* A running task has a worker, and LeaseRecovery has nothing to do.
Attended ==
  /\ up => \A t \in Tasks : status[t] = "running" =>
             \E w \in Workers : Executing(w) /\ cur[w] = t
  /\ pc[Recovery] = "idle" /\ batch = {}

\* The numbers of a task's attempts have no gap and reach its count.
Dense ==
  \A t \in Tasks :
    /\ \A n \in Nat : AttemptExists(t, n) => \A k \in 1 .. n : AttemptExists(t, k)
    /\ \A k \in 1 .. count[t] : AttemptExists(t, k)

\* A worker uses the number after the count; once it calls fail there is an attempt
\* with that number, its own or the one that made its INSERT fail.
Slotted ==
  \A w \in Workers :
    /\ pc[w] \in Owning \cup {"insert"} => no[w] = count[cur[w]] + 1
    /\ pc[w] \in {"mark_exc", "fail_read", "fail_write"} =>
         AttemptExists(cur[w], count[cur[w]] + 1)

\* The attempt of a worker is the newest of its task, and results belong to attempts.
Newest ==
  /\ \A w \in Workers : pc[w] \in Owning =>
       \A n \in Nat : AttemptExists(cur[w], n) => n <= no[w]
  /\ \A r \in results : AttemptExists(r[1], r[2])

\* The invariants of a queue that does not lose a statement.
Proper ==
  /\ Typed /\ Caught /\ Owned /\ Backed
  /\ faults = 0 => Excl /\ Fresh /\ Attended /\ Dense /\ Slotted /\ Newest

\* A worker stops executing a task only by writing how it ended, or with the service.
LEMMA WorkGoesOn ==
  ASSUME Typed, Caught, [Next]_vars, faults' = 0, NEW w \in Workers, Executing(w),
         ~Complete(w), ~FailWrite(w), ~Crash, ~StopWorkers
  PROVE  Executing(w)' /\ cur'[w] = cur[w]
<1> USE QueueAssumption DEF Typed, TypeOK, Procs, Executing
<1>1. CASE Stays(w)
  BY <1>1 DEF Stays
<1>2. ~StatementRaises(w) /\ ~DispatchRaises(w)
  BY BoundsCount
<1>3. CASE InsertRejected(w)
  BY <1>3 DEF InsertRejected, At, Raise, Goto, Caught
<1>4. CASE ProviderRaises(w)
  BY <1>4 DEF ProviderRaises, At, Raise, Goto, Caught
<1>5. CASE Dispatch(w) \/ ReadAttemptNo(w) \/ InsertAttempt(w) \/ ProviderAnswers(w)
  BY <1>5 DEF Dispatch, ReadAttemptNo, InsertAttempt, ProviderAnswers, Goto
<1>6. CASE MarkSucceeded(w) \/ StoreResult(w) \/ MarkFailed(w)
  BY <1>6 DEF MarkSucceeded, StoreResult, AfterStore, MarkFailed, Goto
<1>7. CASE FailCall(w)
  BY <1>7 DEF FailCall, FailRead, Emit, At, Goto
<1>8. ~\E t \in Tasks : Claim(w, t)
  BY DEF Claim, At
<1> QED
  BY <1>1, <1>2, <1>3, <1>4, <1>5, <1>6, <1>7, <1>8, Moves DEF Acts, Ends, Execute

\* A process that executes a task is the only one to write its count.
LEMMA CountStays ==
  ASSUME Typed, Excl, [Next]_vars, NEW w \in Workers, Executing(w), ~Complete(w), ~FailWrite(w)
  PROVE  count'[cur[w]] = count[cur[w]]
<1> USE QueueAssumption DEF Typed, TypeOK, Shape, Excl, ExclusiveExecution, Executing, Procs
<1>1. CASE UNCHANGED <<status, count>>
  BY <1>1
<1>2. ASSUME NEW t \in Tasks, Submit(t) PROVE count' = count
  BY <1>2 DEF Submit
<1>3. ASSUME NEW S \in SUBSET Tasks, Cancel(S) PROVE count' = count
  BY <1>3 DEF Cancel
<1>4. ASSUME NEW c \in Clients, RetryUpdate(c) PROVE count'[cur[w]] = count[cur[w]]
  BY <1>4 DEF RetryUpdate
<1>5. ASSUME NEW v \in Workers, NEW t \in Tasks, Claim(v, t) PROVE count' = count
  BY <1>5 DEF Claim
<1>6. ASSUME NEW v \in Workers, Complete(v) PROVE count'[cur[w]] = count[cur[w]]
  BY <1>6 DEF Complete, At
<1>7. ASSUME NEW p \in Procs, FailWrite(p) PROVE count'[cur[w]] = count[cur[w]]
  <2>1. p # w /\ Executing(p) /\ w \in Procs
    BY <1>7 DEF FailWrite, At
  <2>2. cur[p] # cur[w]
    BY <2>1
  <2>3. count' = [count EXCEPT ![cur[p]] = seen[p] + 1]
    BY <1>7 DEF FailWrite
  <2> QED
    BY <2>2, <2>3
<1>8. CASE RequeueRunning
  BY <1>8 DEF RequeueRunning
<1> QED
  BY <1>1, <1>2, <1>3, <1>4, <1>5, <1>6, <1>7, <1>8, RowWriters DEF WritesRow

\* A task starts to run only by a claim.
LEMMA OnlyClaimRuns ==
  ASSUME Typed, [Next]_vars, NEW t \in Tasks, status'[t] = "running", status[t] # "running"
  PROVE  \E w \in Workers : Executing(w)' /\ cur'[w] = t
<1> USE QueueAssumption DEF Typed, TypeOK, Procs
<1>1. \E w \in Workers : Claim(w, t)
  <2>1. ASSUME NEW u \in Tasks, Submit(u) PROVE FALSE
    BY <2>1 DEF Submit
  <2>2. ASSUME NEW S \in SUBSET Tasks, Cancel(S) PROVE FALSE
    BY <2>2 DEF Cancel
  <2>3. ASSUME NEW c \in Clients, RetryUpdate(c) PROVE FALSE
    BY <2>3 DEF RetryUpdate
  <2>4. ASSUME NEW w \in Workers, Complete(w) PROVE FALSE
    BY <2>4 DEF Complete
  <2>5. ASSUME NEW w \in Workers, NEW u \in Tasks, Claim(w, u) PROVE u = t
    BY <2>5 DEF Claim
  <2>6. ASSUME NEW p \in Procs, FailWrite(p) PROVE FALSE
    BY <2>6 DEF FailWrite, AfterFailure
  <2>7. CASE RequeueRunning
    BY <2>7 DEF RequeueRunning
  <2> QED
    BY <2>1, <2>2, <2>3, <2>4, <2>5, <2>6, <2>7, RowWriters DEF WritesRow
<1>2. ASSUME NEW w \in Workers, Claim(w, t) PROVE pc'[w] = "claimed" /\ cur'[w] = t
  BY <1>2 DEF Claim, Goto
<1> QED
  BY <1>1, <1>2 DEF Executing

\* Without a fault every claimed task stays with its worker until it is settled,
\* requeued, or the service stops; the start requeues what the stop left running.
LEMMA StepAttended ==
  ASSUME Typed, Excl, Caught, Attended, [Next]_vars, faults' = 0
  PROVE  Attended'
<1> USE QueueAssumption DEF Typed, TypeOK
<1>1. ASSUME up', NEW t \in Tasks, status'[t] = "running"
      PROVE  \E w \in Workers : Executing(w)' /\ cur'[w] = t
  <2>1. ~Crash /\ ~StopWorkers /\ ~StopRequeues /\ ~Start
    BY <1>1 DEF Crash, StopWorkers, StopRequeues, Start, RequeueRunning
  <2>2. up
    BY <1>1, <2>1, BoundsCount
  <2>3. CASE status[t] = "running"
    <3>1. PICK w \in Workers : Executing(w) /\ cur[w] = t
      BY <2>2, <2>3 DEF Attended
    <3>2. ~Complete(w)
      BY <1>1, <3>1 DEF Complete
    <3>3. ~FailWrite(w)
      BY <1>1, <3>1 DEF FailWrite, AfterFailure
    <3> QED
      BY <2>1, <3>1, <3>2, <3>3, WorkGoesOn
  <2> QED
    BY <1>1, <2>3, OnlyClaimRuns
<1>2. ~RecoveryScan
  <2>1. SUFFICES ASSUME RecoveryScan, NEW t \in expired, status[t] = "running" PROVE FALSE
    BY DEF RecoveryScan, Recoverable, Running
  <2> QED
    BY <2>1 DEF RecoveryScan, At, Attended, Excl
<1>3. ~\E t \in Tasks : RecoveryPick(t)
  BY DEF RecoveryPick, Attended
<1>4. ~Acts(Recovery)
  BY <1>3, BoundsCount DEF Acts, Attended, FailCall, FailRead, FailWrite, Emit, At, Procs
<1>5. pc'[Recovery] = "idle"
  BY <1>4, Moves DEF Attended, Stays, Procs
<1>6. batch' = {}
  <2> USE DEF Attended, procVars
  <2>1. CASE UNCHANGED vars
    BY <2>1 DEF vars
  <2>2. ASSUME NEW t \in Tasks, Submit(t) \/ BackoffElapses(t) \/ LeaseExpires(t) PROVE batch' = {}
    BY <2>2 DEF Submit, BackoffElapses, LeaseExpires
  <2>3. ASSUME NEW S \in SUBSET Tasks, Cancel(S) PROVE batch' = {}
    BY <2>3 DEF Cancel
  <2>4. ASSUME NEW c \in Clients, RetryUpdate(c) \/ \E t \in Tasks : RetryCheck(c, t)
        PROVE  batch' = {}
    BY <2>4 DEF RetryUpdate, RetryCheck
  <2>5. ASSUME NEW w \in Workers, Execute(w) \/ DispatchRaises(w) \/ \E t \in Tasks : Claim(w, t)
        PROVE  batch' = {}
    BY <2>5 DEF Execute, Dispatch, ReadAttemptNo, InsertAttempt, InsertRejected, ProviderAnswers,
                ProviderRaises, MarkSucceeded, StoreResult, Complete, MarkFailed, DispatchRaises,
                Claim, Raise
  <2>6. ASSUME NEW p \in Procs, FailCall(p) \/ StatementRaises(p) PROVE batch' = {}
    BY <2>6 DEF FailCall, FailRead, FailWrite, Emit, StatementRaises, Raise
  <2>7. CASE Crash \/ Shutdown \/ Start \/ StartRaises
    BY <2>7 DEF Crash, Shutdown, StopRecovery, StopWorkers,
                StopRequeues, StopRequeueRaises, Start, StartRaises, ProcessesDie
  <2> QED
    BY <1>2, <1>3, <2>1, <2>2, <2>3, <2>4, <2>5, <2>6, <2>7 DEF Next
<1> QED
  BY <1>1, <1>5, <1>6 DEF Attended

\* An inserting worker uses the number after the count, as the only one on its task.
LEMMA InsertFacts ==
  ASSUME Typed, Excl, Slotted, NEW w \in Workers, InsertAttempt(w)
  PROVE  /\ cur[w] \in Tasks /\ no[w] = count[cur[w]] + 1 /\ count[cur[w]] \in Nat
         /\ ~AttemptExists(cur[w], no[w])
         /\ \A v \in Workers : Executing(v) /\ cur[v] = cur[w] => v = w
<1> USE QueueAssumption DEF Typed, TypeOK, Shape, Procs
<1>1. pc[w] = "insert"
  BY DEF InsertAttempt, At
<1>2. cur[w] \in Tasks /\ no[w] = count[cur[w]] + 1 /\ count[cur[w]] \in Nat
  BY <1>1 DEF Slotted
<1>3. \A v \in Workers : Executing(v) /\ cur[v] = cur[w] => v = w
  BY <1>1 DEF Excl, ExclusiveExecution, Executing
<1> QED
  BY <1>2, <1>3 DEF InsertAttempt

\* A task's attempts stay numbered from 1 to its newest, and count stays below.
LEMMA StepDense ==
  ASSUME Typed, Excl, Fresh, Owned, Attended, Dense, Slotted, [Next]_vars, faults' = 0
  PROVE  Dense'
<1>1. ASSUME NEW t \in Tasks, NEW n \in Nat, AttemptExists(t, n)', NEW k \in 1 .. n
      PROVE  AttemptExists(t, k)'
  <2>1. k \in Nat
    OBVIOUS
  <2>2. CASE AttemptExists(t, n)
    BY <2>1, <2>2, NumbersStay DEF Dense
  <2>3. CASE ~AttemptExists(t, n)
    <3>1. PICK w \in Workers : InsertAttempt(w) /\ t = cur[w] /\ n = no[w]
      BY <1>1, <2>3, NumbersStay
    <3>2. n = count[t] + 1 /\ count[t] \in Nat
      BY <3>1, InsertFacts
    <3>3. k = n \/ k \in 1 .. count[t]
      BY <3>2
    <3> QED
      BY <1>1, <2>1, <3>3, NumbersStay DEF Dense
  <2> QED
    BY <2>2, <2>3
<1>2. ASSUME NEW t \in Tasks, NEW k \in 1 .. count'[t] PROVE AttemptExists(t, k)'
  <2>1. k \in Nat /\ count[t] \in Nat /\ \A v \in Tasks : count[v] \in Nat
    BY DEF Typed, TypeOK
  <2>2. SUFFICES AttemptExists(t, k)
    BY <2>1, NumbersStay
  <2>3. SUFFICES ASSUME count'[t] # count[t] PROVE AttemptExists(t, k)
    BY DEF Dense
  <2>4. SUFFICES ASSUME WritesRow PROVE AttemptExists(t, k)
    BY <2>3, RowWriters
  <2>5. CASE \E u \in Tasks : Submit(u)
    BY <2>3, <2>5 DEF Submit
  <2>6. CASE \E S \in SUBSET Tasks : Cancel(S)
    BY <2>3, <2>6 DEF Cancel
  <2>7. ASSUME NEW c \in Clients, RetryUpdate(c) PROVE FALSE
    BY <2>1, <2>3, <2>7 DEF RetryUpdate, Typed, TypeOK
  <2>8. ASSUME NEW w \in Workers, Complete(w) PROVE AttemptExists(t, k)
    <3>1. t = cur[w] /\ count'[t] = count[t] + 1 /\ pc[w] = "complete"
      BY <2>3, <2>8 DEF Complete, At, Typed, TypeOK
    <3>2. AttemptExists(t, no[w]) /\ no[w] = count[t] + 1
      BY <3>1 DEF Owned, Slotted, Owning
    <3>3. k = no[w] \/ k \in 1 .. count[t]
      BY <2>1, <3>1, <3>2
    <3> QED
      BY <3>2, <3>3 DEF Dense
  <2>9. CASE \E w \in Workers : \E u \in Tasks : Claim(w, u)
    BY <2>3, <2>9 DEF Claim
  <2>10. ASSUME NEW p \in Procs, FailWrite(p) PROVE AttemptExists(t, k)
    <3>1. t = cur[p] /\ count'[t] = seen[p] + 1 /\ pc[p] = "fail_write"
      BY <2>3, <2>10 DEF FailWrite, At, Typed, TypeOK
    <3>2. count'[t] = count[t] + 1
      BY <3>1 DEF Fresh
    <3>3. p \in Workers
      BY <3>1 DEF Attended, Procs
    <3>4. AttemptExists(t, count[t] + 1)
      BY <3>1, <3>3 DEF Slotted
    <3>5. k = count[t] + 1 \/ k \in 1 .. count[t]
      BY <2>1, <3>2
    <3> QED
      BY <3>4, <3>5 DEF Dense
  <2>11. CASE RequeueRunning
    BY <2>3, <2>11 DEF RequeueRunning
  <2> QED
    BY <2>4, <2>5, <2>6, <2>7, <2>8, <2>9, <2>10, <2>11 DEF WritesRow
<1> QED
  BY <1>1, <1>2 DEF Dense

\* A worker comes to fail from a failure, from its own attempt, or from a rejected
\* INSERT.
LEMMA OnlyFailuresFail ==
  ASSUME Typed, Caught, [Next]_vars, faults' = 0, NEW w \in Workers,
         pc'[w] \in {"mark_exc", "fail_read", "fail_write"}
  PROVE  /\ pc[w] \in {"mark_exc", "fail_read", "fail_write"} \cup Owning \/ InsertRejected(w)
         /\ Executing(w) /\ cur'[w] = cur[w] /\ ~Complete(w) /\ ~FailWrite(w)
<1> USE QueueAssumption DEF Typed, TypeOK, Procs, Executing, Owning
<1>1. CASE Stays(w)
  <2>1. ~Complete(w) /\ ~FailWrite(w)
    BY <1>1 DEF Stays, Complete, FailWrite, At, Goto
  <2> QED
    BY <1>1, <2>1 DEF Stays
<1>2. ~StatementRaises(w) /\ ~DispatchRaises(w)
  BY BoundsCount
<1>3. CASE InsertRejected(w) \/ ProviderRaises(w)
  BY <1>3 DEF InsertRejected, ProviderRaises, At, Raise, Finish, Goto, Complete, FailWrite, Caught
<1>4. CASE MarkFailed(w) \/ FailRead(w)
  BY <1>4 DEF MarkFailed, FailRead, At, Goto, Complete, FailWrite
<1>5. ~Dispatch(w) /\ ~ReadAttemptNo(w) /\ ~InsertAttempt(w) /\ ~ProviderAnswers(w)
  BY DEF Dispatch, ReadAttemptNo, InsertAttempt, ProviderAnswers, Goto
<1>6. ~MarkSucceeded(w) /\ ~StoreResult(w) /\ ~Complete(w) /\ ~FailWrite(w) /\ ~Emit(w)
  BY DEF MarkSucceeded, StoreResult, AfterStore, Complete, FailWrite, Emit, Finish, Goto
<1>7. ~\E t \in Tasks : Claim(w, t)
  BY DEF Claim, Goto
<1> QED
  BY <1>1, <1>2, <1>3, <1>4, <1>5, <1>6, <1>7, Moves DEF Acts, Execute, FailCall

\* A worker comes to insert from reading the count.
LEMMA OnlyReadInserts ==
  ASSUME Typed, [Next]_vars, faults' = 0, NEW w \in Workers, pc'[w] = "insert"
  PROVE  /\ (pc[w] = "insert" /\ no'[w] = no[w]) \/ (ReadAttemptNo(w) /\ no'[w] = count[cur[w]] + 1)
         /\ Executing(w) /\ cur'[w] = cur[w] /\ ~Complete(w) /\ ~FailWrite(w)
<1> USE QueueAssumption DEF Typed, TypeOK, Procs, Executing
<1>1. CASE Stays(w)
  <2>1. ~Complete(w) /\ ~FailWrite(w)
    BY <1>1 DEF Stays, Complete, FailWrite, At, Goto
  <2> QED
    BY <1>1, <2>1 DEF Stays
<1>2. ~StatementRaises(w) /\ ~DispatchRaises(w)
  BY BoundsCount
<1>3. CASE ReadAttemptNo(w)
  BY <1>3 DEF ReadAttemptNo, At, Goto, Complete, FailWrite
<1>4. ~Dispatch(w) /\ ~InsertAttempt(w) /\ ~ProviderAnswers(w)
  BY DEF Dispatch, InsertAttempt, ProviderAnswers, Goto
<1>5. ~MarkSucceeded(w) /\ ~StoreResult(w) /\ ~Complete(w) /\ ~MarkFailed(w)
  BY DEF MarkSucceeded, StoreResult, AfterStore, Complete, MarkFailed, Goto
<1>6. ~InsertRejected(w) /\ ~ProviderRaises(w)
  BY DEF InsertRejected, ProviderRaises, Raise, Finish, Goto
<1>7. ~FailRead(w) /\ ~FailWrite(w) /\ ~Emit(w)
  BY DEF FailRead, FailWrite, Emit, Finish, Goto
<1>8. ~\E t \in Tasks : Claim(w, t)
  BY DEF Claim, Goto
<1> QED
  BY <1>1, <1>2, <1>3, <1>4, <1>5, <1>6, <1>7, <1>8, Moves DEF Acts, Execute, FailCall

\* A worker keeps the number it has read, for nobody else writes its task's count,
\* and whatever makes it fail has an attempt with that number behind it.
LEMMA StepSlotted ==
  ASSUME Typed, Excl, Caught, Owned, Slotted, [Next]_vars, faults' = 0
  PROVE  Slotted'
<1> USE QueueAssumption DEF Typed, TypeOK, Shape, Procs
<1>1. ASSUME NEW w \in Workers, pc'[w] \in Owning PROVE no'[w] = count'[cur'[w]] + 1
  <2>1. /\ cur'[w] = cur[w] /\ no'[w] = no[w] /\ cur[w] \in Tasks
        /\ pc[w] \in Owning \cup {"insert"}
    BY <1>1, OnlyInsertOwns DEF InsertAttempt, At
  <2>2. Executing(w) /\ ~Complete(w) /\ ~FailWrite(w)
    BY <1>1, <2>1 DEF Executing, Owning, Complete, FailWrite, Goto
  <2> QED
    BY <2>1, <2>2, CountStays DEF Slotted
<1>2. ASSUME NEW w \in Workers, pc'[w] = "insert" PROVE no'[w] = count'[cur'[w]] + 1
  BY <1>2, OnlyReadInserts, CountStays DEF Slotted
<1>3. ASSUME NEW w \in Workers, pc'[w] \in {"mark_exc", "fail_read", "fail_write"}
      PROVE  AttemptExists(cur[w], count[cur[w]] + 1)' /\ count'[cur'[w]] = count[cur[w]]
  <2>1. PICK t \in Tasks, n \in Nat : t = cur[w] /\ t = cur'[w] /\ n = count[t] + 1
    <3>1. cur'[w] = cur[w] /\ Executing(w)
      BY <1>3, OnlyFailuresFail
    <3>2. cur[w] \in Tasks
      BY <3>1 DEF Executing
    <3> QED
      BY <3>1, <3>2
  <2>2. count'[t] = count[t]
    BY <1>3, <2>1, OnlyFailuresFail, CountStays
  <2>3. AttemptExists(t, n)
    <3>1. CASE pc[w] \in {"mark_exc", "fail_read", "fail_write"}
      BY <2>1, <3>1 DEF Slotted
    <3>2. CASE pc[w] \in Owning
      <4>1. no[w] = n
        BY <2>1, <3>2 DEF Slotted
      <4>2. AttemptExists(cur[w], no[w])
        BY <3>2 DEF Owned
      <4> QED
        BY <2>1, <4>1, <4>2
    <3>3. CASE InsertRejected(w)
      BY <2>1, <3>3 DEF Slotted, InsertRejected, At
    <3> QED
      BY <1>3, <3>1, <3>2, <3>3, OnlyFailuresFail
  <2>4. AttemptExists(t, n)'
    BY <2>3, NumbersStay
  <2> QED
    BY <2>1, <2>2, <2>4 DEF AttemptExists
<1> QED
  BY <1>1, <1>2, <1>3 DEF Slotted, AttemptExists

\* The only statement that writes result rows.
LEMMA ResultWriter ==
  ASSUME [Next]_vars
  PROVE  UNCHANGED results \/ \E w \in Workers : StoreResult(w)
<1> SUFFICES ASSUME Next, ~\E w \in Workers : StoreResult(w) PROVE UNCHANGED results
  BY DEF vars, rowVars
<1> USE DEF rowVars
<1>1. ASSUME NEW t \in Tasks,
             Submit(t) \/ BackoffElapses(t) \/ LeaseExpires(t) \/ RecoveryPick(t)
      PROVE  UNCHANGED results
  BY <1>1 DEF Submit, BackoffElapses, LeaseExpires, RecoveryPick
<1>2. ASSUME NEW S \in SUBSET Tasks, Cancel(S) PROVE UNCHANGED results
  BY <1>2 DEF Cancel
<1>3. ASSUME NEW c \in Clients, RetryUpdate(c) \/ \E t \in Tasks : RetryCheck(c, t)
      PROVE  UNCHANGED results
  BY <1>3 DEF RetryUpdate, RetryCheck
<1>4. ASSUME NEW w \in Workers, Execute(w) \/ DispatchRaises(w) \/ \E t \in Tasks : Claim(w, t)
      PROVE  UNCHANGED results
  BY <1>4 DEF Execute, Dispatch, ReadAttemptNo, InsertAttempt, InsertRejected, ProviderAnswers,
              ProviderRaises, MarkSucceeded, Complete, MarkFailed, DispatchRaises, Claim
<1>5. ASSUME NEW p \in Procs, FailCall(p) \/ StatementRaises(p) PROVE UNCHANGED results
  BY <1>5 DEF FailCall, FailRead, FailWrite, Emit, StatementRaises
<1>6. CASE RecoveryScan \/ Crash \/ Shutdown \/ Start \/ StartRaises
  BY <1>6 DEF RecoveryScan, Crash, Shutdown, StopRecovery, StopWorkers,
              StopRequeues, StopRequeueRaises, Start, StartRaises
<1> QED
  BY <1>1, <1>2, <1>3, <1>4, <1>5, <1>6 DEF Next

\* What a worker stores is a result of its own attempt.
LEMMA StoredIsOwn ==
  ASSUME Typed, Owned, NEW w \in Workers, StoreResult(w)
  PROVE  /\ cur[w] \in Tasks /\ no[w] \in Nat /\ AttemptExists(cur[w], no[w]) /\ Executing(w)
         /\ \A r \in results' : r \in results \/ (r[1] = cur[w] /\ r[2] = no[w])
<1>1. pc[w] = "store" /\ cur[w] \in Tasks /\ no[w] \in Nat
  BY DEF StoreResult, At, Typed, TypeOK, Shape, Procs
<1>2. AttemptExists(cur[w], no[w]) /\ Executing(w)
  BY <1>1 DEF Owned, Owning, Executing
<1>3. \A r \in results' : r \in results \/ (r[1] = cur[w] /\ r[2] = no[w])
  BY DEF StoreResult
<1> QED
  BY <1>1, <1>2, <1>3

\* A new attempt is the newest of its task, and stays it while its worker has it.
LEMMA StepNewest ==
  ASSUME Typed, Excl, Owned, Dense, Slotted, Newest, [Next]_vars, faults' = 0
  PROVE  Newest'
<1>1. ASSUME NEW w \in Workers, pc'[w] \in Owning, NEW n \in Nat, AttemptExists(cur[w], n)',
             cur'[w] = cur[w]
      PROVE  n <= no'[w]
  <2>1. PICK t \in Tasks, m \in Nat : t = cur[w] /\ m = no[w] /\ m = no'[w]
    BY <1>1, OnlyInsertOwns
  <2>2. AttemptExists(t, n)'
    BY <1>1, <2>1 DEF AttemptExists
  <2>3. CASE AttemptExists(t, n) /\ pc[w] \in Owning
    BY <2>1, <2>3 DEF Newest
  <2>4. CASE AttemptExists(t, n) /\ InsertAttempt(w)
    <3>1. ~AttemptExists(t, m) /\ m = count[t] + 1 /\ count[t] \in Nat
      BY <2>1, <2>4, InsertFacts
    <3>2. m \notin 1 .. n
      BY <2>4, <3>1 DEF Dense
    <3> QED
      BY <2>1, <3>1, <3>2
  <2>5. CASE ~AttemptExists(t, n)
    <3>1. PICK v \in Workers : InsertAttempt(v) /\ t = cur[v] /\ n = no[v]
      BY <2>2, <2>5, NumbersStay
    <3>2. Executing(w)
      BY <1>1, OnlyInsertOwns DEF Executing, Owning, InsertAttempt, At
    <3>3. v = w
      BY <2>1, <3>1, <3>2, InsertFacts
    <3>4. n = no'[w]
      BY <2>1, <3>1, <3>3, Zenon
    <3>5. n <= n
      OBVIOUS
    <3> QED
      BY <3>4, <3>5, Zenon
  <2> QED
    BY <1>1, <2>3, <2>4, <2>5, OnlyInsertOwns
<1>2. ASSUME NEW r \in results' PROVE AttemptExists(r[1], r[2])'
  <2>1. PICK t \in Tasks, n \in Nat : t = r[1] /\ n = r[2] /\ AttemptExists(t, n)
    <3>1. CASE r \in results
      BY <3>1 DEF Newest, Typed, TypeOK
    <3>2. CASE r \notin results
      BY <3>2, ResultWriter, StoredIsOwn
    <3> QED
      BY <3>1, <3>2
  <2>2. AttemptExists(t, n)'
    BY <2>1, NumbersStay
  <2> QED
    BY <2>1, <2>2
<1>3. \A w \in Workers : pc'[w] \in Owning => cur'[w] = cur[w]
  BY OnlyInsertOwns
<1> QED
  BY <1>1, <1>2, <1>3 DEF Newest, AttemptExists

\* The invariant of the queue, as a whole.
LEMMA ProperAlways ==
  ASSUME Timely
  PROVE  Spec => []Proper
<1>1. Init => Proper
  <2> SUFFICES ASSUME Init PROVE Proper
    OBVIOUS
  <2>1. Typed
    BY InitTyped
  <2>2. Excl /\ Fresh /\ Caught /\ Owned /\ Backed
    BY DEF Init, NoProcess, Excl, ExclusiveExecution, Executing, Fresh, Caught, Owned, Owning,
           Backed, Procs
  <2>3. Attended
    BY QueueAssumption DEF Init, NoProcess, Attended, Procs
  <2>4. Dense
    BY DEF Init, Dense, AttemptExists
  <2>5. Slotted /\ Newest
    BY DEF Init, NoProcess, Slotted, Newest, Owning, Procs
  <2> QED
    BY <2>1, <2>2, <2>3, <2>4, <2>5 DEF Proper
<1>2. Proper /\ [Next]_vars => Proper'
  <2> SUFFICES ASSUME Proper, [Next]_vars PROVE Proper'
    OBVIOUS
  <2>1. Typed' /\ Caught' /\ Backed'
    BY StepTyped, StepCaught, StepBacked DEF Proper
  <2>2. Owned'
    <3> SUFFICES ASSUME NEW w \in Workers, pc'[w] \in Owning PROVE AttemptExists(cur[w], no[w])'
      BY DEF Owned
    <3>1. PICK t \in Tasks, n \in Nat : t = cur[w] /\ n = no[w] /\ t = cur'[w] /\ n = no'[w]
      BY OnlyInsertOwns DEF Proper
    <3>2. AttemptExists(t, n)'
      BY <3>1, OnlyInsertOwns, NumbersStay DEF Proper, Owned
    <3> QED
      BY <3>1, <3>2 DEF AttemptExists
  <2>3. ASSUME faults' = 0 PROVE (Excl /\ Fresh /\ Attended /\ Dense /\ Slotted /\ Newest)'
    <3>1. Typed /\ Excl /\ Fresh /\ Caught /\ Owned /\ Attended /\ Dense /\ Slotted /\ Newest
      BY <2>3, BoundsCount DEF Proper
    <3>2. Excl' /\ Fresh'
      BY <2>3, <3>1, StepExcl, StepFresh DEF NoEventLost
    <3>3. Attended' /\ Dense' /\ Slotted' /\ Newest'
      BY <2>3, <3>1, StepAttended, StepDense, StepSlotted, StepNewest
    <3> QED
      BY <3>2, <3>3
  <2> QED
    BY <2>1, <2>2, <2>3 DEF Proper
<1> QED
  BY <1>1, <1>2, PTL DEF Spec

\* A task turns succeeded by complete, whose attempt is the newest of the task; no
\* result is stored for a task that has succeeded.
LEMMA StepLatest ==
  Proper /\ LatestResultUsable /\ [Next]_vars => LatestResultUsable'
<1> SUFFICES ASSUME Proper, LatestResultUsable, [Next]_vars, faults' = 0,
                    NEW t \in Tasks, status'[t] = "succeeded"
             PROVE  \E r \in results' : r[1] = t /\ r[3] /\ \A q \in results' : q[1] = t => q[2] <= r[2]
  BY DEF LatestResultUsable
<1>1. Typed /\ Excl /\ Owned /\ Backed /\ Slotted /\ Newest /\ faults = 0
  BY BoundsCount DEF Proper
<1>2. CASE status[t] = "succeeded"
  <2>1. PICK r \in results : r[1] = t /\ r[3] /\ \A q \in results : q[1] = t => q[2] <= r[2]
    BY <1>1, <1>2 DEF LatestResultUsable
  <2>2. \A w \in Workers : StoreResult(w) => cur[w] # t
    BY <1>1, <1>2, StoredIsOwn DEF Excl, ExclusiveExecution, Procs
  <2>3. \A q \in results' : q[1] = t => q \in results
    BY <1>1, <2>2, ResultWriter, StoredIsOwn
  <2>4. r \in results'
    BY ResultsGrow
  <2> QED
    BY <2>1, <2>3, <2>4
<1>3. CASE status[t] # "succeeded"
  <2>1. PICK w \in Workers : Complete(w) /\ cur[w] = t
    <3>1. WritesRow
      BY <1>3, RowWriters
    <3> QED
      BY <1>1, <1>3, <3>1 DEF WritesRow, Submit, Cancel, RetryUpdate, Claim, Complete, FailWrite,
                              AfterFailure, RequeueRunning, Typed, TypeOK
  <2>2. pc[w] = "complete" /\ UNCHANGED results
    BY <2>1 DEF Complete, At, rowVars
  <2>3. <<t, no[w], TRUE>> \in results
    BY <1>1, <2>1, <2>2 DEF Backed
  <2>4. ASSUME NEW q \in results, q[1] = t PROVE q[2] <= no[w]
    <3>1. q[2] \in Nat /\ AttemptExists(q[1], q[2])
      BY <1>1 DEF Newest, Typed, TypeOK
    <3> QED
      BY <1>1, <2>1, <2>2, <2>4, <3>1 DEF Newest, Owning
  <2> QED
    BY <2>2, <2>3, <2>4
<1> QED
  BY <1>2, <1>3

\* Under Timely, and until a statement raises, the result of a succeeded task with the
\* highest attempt_no is a usable one, as get_result promises, although a task may
\* have unusable results of earlier attempts and a retry counts from 1 again: a new
\* attempt always has the highest number of its task.
THEOREM LatestIsUsable ==
  ASSUME Timely
  PROVE  Spec => []LatestResultUsable
<1>1. Init => LatestResultUsable
  BY DEF Init, LatestResultUsable
<1>2. Proper /\ LatestResultUsable /\ [Next]_vars => LatestResultUsable'
  BY StepLatest
<1> QED
  BY <1>1, <1>2, ProperAlways, PTL DEF Spec

-----------------------------------------------------------------------------
(* Counting attempts.                                                      *)

\* The rows of agent_llm_attempts are finitely many.
LEMMA StepFinite ==
  Typed /\ IsFiniteSet(attempts) /\ [Next]_vars => IsFiniteSet(attempts')
<1> SUFFICES ASSUME Typed, IsFiniteSet(attempts), [Next]_vars PROVE IsFiniteSet(attempts')
  OBVIOUS
<1>1. ASSUME NEW S, S \subseteq attempts, NEW a PROVE IsFiniteSet(S \cup {a})
  BY <1>1, FS_Subset, FS_AddElement
<1>2. ASSUME NEW w \in Workers, InsertAttempt(w) PROVE IsFiniteSet(attempts')
  BY <1>1, <1>2 DEF InsertAttempt
<1>3. ASSUME NEW w \in Workers, MarkSucceeded(w) \/ MarkFailed(w) PROVE IsFiniteSet(attempts')
  <2>1. PICK s : MarkAttempt(cur[w], no[w], s)
    BY <1>3 DEF MarkSucceeded, MarkFailed
  <2>2. {a \in attempts : ~(a[1] = cur[w] /\ a[2] = no[w])} \subseteq attempts
    OBVIOUS
  <2> QED
    BY <1>1, <2>1, <2>2 DEF MarkAttempt
<1>4. ASSUME NEW t \in Tasks, RecoveryPick(t) PROVE IsFiniteSet(attempts')
  <2> DEFINE Pending == {b \in attempts : b[1] = t /\ b[3] = "running"}
             Rest == {a \in attempts : ~(a[1] = t /\ a[3] = "running")}
             Closed == {<<t, a[2], "failed">> : a \in Pending}
  <2>1. IsFiniteSet(Pending) /\ IsFiniteSet(Rest)
    BY FS_Subset
  <2>2. IsFiniteSet(Closed)
    <3> DEFINE f == [a \in Pending |-> <<t, a[2], "failed">>]
    <3>1. f \in [Pending -> Closed] /\ \A c \in Closed : \E a \in Pending : f[a] = c
      OBVIOUS
    <3> HIDE DEF Pending, Closed, f
    <3> QED
      BY <2>1, <3>1, ValuesOfFinite
  <2>3. attempts' = Rest \cup Closed
    BY <1>4 DEF RecoveryPick
  <2> QED
    BY <2>1, <2>2, <2>3, FS_Union
<1> QED
  BY <1>2, <1>3, <1>4, AttemptWriters

\* As many attempts as a task has counted are as many rows at least.
LEMMA CountedAreRows ==
  ASSUME Typed, Dense, IsFiniteSet(attempts), NEW t \in Tasks
  PROVE  count[t] <= Cardinality({a \in attempts : a[1] = t})
<1> DEFINE Own == {a \in attempts : a[1] = t}
           Used == {a[2] : a \in Own}
<1>1. IsFiniteSet(Own)
  BY FS_Subset
<1>2. IsFiniteSet(Used) /\ Cardinality(Used) <= Cardinality(Own)
  <2> DEFINE f == [a \in Own |-> a[2]]
  <2>1. f \in [Own -> Used] /\ \A n \in Used : \E a \in Own : f[a] = n
    OBVIOUS
  <2> HIDE DEF Own, Used, f
  <2> QED
    BY <1>1, <2>1, ValuesOfFinite
<1>3. 1 .. count[t] \subseteq Used
  <2> SUFFICES ASSUME NEW k \in 1 .. count[t] PROVE k \in Used
    OBVIOUS
  <2>1. PICK s \in AttemptStatus : <<t, k, s>> \in attempts
    BY DEF Dense, AttemptExists
  <2> QED
    BY <2>1
<1>4. count[t] \in Nat
  BY DEF Typed, TypeOK
<1>5. IsFiniteSet(1 .. count[t]) /\ Cardinality(1 .. count[t]) = count[t]
  BY <1>4, FS_Interval
<1>6. Cardinality(1 .. count[t]) <= Cardinality(Used)
  <2> HIDE DEF Used
  <2> QED
    BY <1>2, <1>3, FS_Subset
<1>7. Cardinality(Used) \in Nat /\ Cardinality(Own) \in Nat
  <2> HIDE DEF Used, Own
  <2> QED
    BY <1>1, <1>2, FS_CardinalityType
<1> HIDE DEF Own, Used
<1>8. count[t] <= Cardinality(Own)
  BY <1>2, <1>4, <1>5, <1>6, <1>7
<1> QED
  BY <1>8 DEF Own

\* Under Timely, and until a statement raises, a failure costs one retry slot and not
\* two: attempt_count never runs ahead of the attempts made, whichever of the
\* handlers, of the rejected INSERTs of a retried task, and of the restarts counts it.
THEOREM SlotsAreAttempts ==
  ASSUME Timely
  PROVE  Spec => []OneSlotPerAttempt
<1>1. Init => IsFiniteSet(attempts)
  BY FS_EmptySet DEF Init
<1>2. Typed /\ IsFiniteSet(attempts) /\ [Next]_vars => IsFiniteSet(attempts)'
  BY StepFinite
<1>3. Proper /\ IsFiniteSet(attempts) => OneSlotPerAttempt
  BY CountedAreRows DEF Proper, OneSlotPerAttempt
<1> QED
  BY <1>1, <1>2, <1>3, TypedAlways, ProperAlways, PTL DEF Spec

=============================================================================
