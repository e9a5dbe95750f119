---------------------------- MODULE LlmSubmission ----------------------------
(***************************************************************************)
(* What surrounds the task queue of llm_service: submissions, which may    *)
(* reuse a task by its idempotency key; synchronous calls, whose records   *)
(* PersistWriter writes behind the answer; retries; and the retention      *)
(* cleanup.  Every transaction is a step, and every turn of the search for *)
(* a task with the same key.                                               *)
(*                                                                         *)
(* The queue itself is LlmTaskQueue; here its workers only move a row from *)
(* one status to the next.  A contract is all that a caller asks for; its  *)
(* key and its fingerprint are what a submission is compared by.           *)
(***************************************************************************)
EXTENDS Naturals, FiniteSets, FiniteSetsExt, Sequences

CONSTANTS
  Contracts,  \* contracts of requests
  ContractOf, \* the contract of each client's submission and of each call
  KeyOf, FingerprintOf, \* the idempotency key and the fingerprint of a contract
  Clients,    \* callers of the submit endpoints
  Calls,      \* synchronous calls
  Writers,    \* the writer coroutines of PersistWriter
  Stopper,    \* the coroutine that stops it
  Nobody,     \* no client, no call
  QueueSize, BatchSize,  \* of PersistWriter
  ClaimsDuringScan, \* TRUE: a claim may fall between two reads of find_existing_task
  MaxRetries, \* bound: calls of the retry endpoint
  MaxStops,   \* bound: crashes and shutdowns
  MaxFaults   \* bound: records that cannot be written

ASSUME SubmissionAssumption ==
  /\ Stopper \notin Writers /\ Nobody \notin Clients \cup Calls
  /\ ContractOf \in [Clients \cup Calls -> Contracts]
  /\ QueueSize \in Nat \ {0} /\ BatchSize \in Nat \ {0}
  /\ MaxRetries \in Nat /\ MaxStops \in Nat /\ MaxFaults \in Nat

VARIABLES
  phase,    \* of the service: "up", "stopping", "down"
  task,     \* the rows of agent_llm_tasks, in the order of their creation
  lock,     \* the holder of _submit_lock
  step,     \* where each client is
  answer,   \* the task it was given
  asked,    \* the task a retry has checked, 0 for none
  picked,   \* the tasks the cleanup has selected
  queue,    \* the queue of PersistWriter
  batch,    \* the records each coroutine has taken from it
  called,   \* the calls that have been answered
  dropped,  \* those whose record the full queue has refused
  lost,     \* calls whose record died with a coroutine or a statement
  retries, stops, faults  \* uses of the bounds

clientVars == <<lock, step, answer>>
writerVars == <<queue, batch, called, dropped, lost>>
boundVars == <<retries, stops, faults>>
vars == <<phase, task, clientVars, asked, picked, writerVars, boundVars>>

-----------------------------------------------------------------------------
Ids == 1 .. Len(task)
Live == {"queued", "running"}
\* "failed" stands for failed, dead_letter and cancelled, which nothing here tells apart.
Final == {"succeeded", "failed"}
Exists(t) == task[t].status # "deleted"

\* A row and its request row are inserted together.  by: the call it records.
Row(status, contract, by) ==
  [status |-> status, contract |-> contract, by |-> by,
   request |-> TRUE, old |-> FALSE, retried |-> FALSE]

Idle == [c \in Clients |-> "idle"]

Init ==
  /\ phase = "up" /\ task = <<>>
  /\ lock = Nobody /\ step = Idle
  /\ answer = [c \in Clients |-> 0]
  /\ asked = 0 /\ picked = {}
  /\ queue = <<>> /\ batch = [p \in Writers \cup {Stopper} |-> <<>>]
  /\ called = {} /\ dropped = {} /\ lost = {}
  /\ retries = 0 /\ stops = 0 /\ faults = 0

-----------------------------------------------------------------------------
(* _submit_with_idempotency and find_existing_task.                        *)

Goto(c, where) == step' = [step EXCEPT ![c] = where]

\* Mutant: no lock.
AlwaysFree == TRUE

\* The lock of the submissions is free.
Free == lock = Nobody

Enter(c) ==
  /\ phase = "up" /\ step[c] = "idle" /\ Free
  /\ lock' = c /\ Goto(c, "succeeded")
  /\ UNCHANGED <<phase, task, answer, asked, picked, writerVars, boundVars>>

\* request_fingerprint has the messages, the input, the parameters and the expected
\* type; the model of a chat request and its output schema are columns it leaves out.
SameRequest(x, y) == KeyOf[x] = KeyOf[y] /\ FingerprintOf[x] = FingerprintOf[y]

\* The key of the row and the fingerprint of its stored request are those of the submission.
Matches(t, contract) == SameRequest(task[t].contract, contract) /\ task[t].request

\* The status that is read after s.
NextRead(s) == CASE s = "succeeded" -> "running" [] s = "running" -> "queued" [] s = "queued" -> "insert"

\* One turn of the loop over the statuses: the newest task that matches is the answer.
\* The code gives up after a number of rows of the same key that do not match.
Scan(c) ==
  /\ step[c] \in {"succeeded", "running", "queued"}
  /\ LET found == {t \in Ids : task[t].status = step[c] /\ Matches(t, ContractOf[c])}
     IN \/ /\ found = {} /\ Goto(c, NextRead(step[c]))
           /\ UNCHANGED <<lock, answer>>
        \/ /\ found # {} /\ answer' = [answer EXCEPT ![c] = Max(found)]
           /\ Goto(c, "done") /\ lock' = Nobody
  /\ UNCHANGED <<phase, task, asked, picked, writerVars, boundVars>>

\* The task and its request are inserted in one transaction.
Insert(c) ==
  /\ step[c] = "insert"
  /\ task' = Append(task, Row("queued", ContractOf[c], Nobody))
  /\ answer' = [answer EXCEPT ![c] = Len(task) + 1]
  /\ Goto(c, "done") /\ lock' = Nobody
  /\ UNCHANGED <<phase, asked, picked, writerVars, boundVars>>

-----------------------------------------------------------------------------
(* The task queue.                                                         *)

SetStatus(t, status) == task' = [task EXCEPT ![t].status = status]

Claim(t) ==
  /\ phase = "up" /\ task[t].status = "queued"
  /\ ClaimsDuringScan \/ \A c \in Clients : step[c] # "queued"
  /\ SetStatus(t, "running")
  /\ UNCHANGED <<phase, clientVars, asked, picked, writerVars, boundVars>>

\* TaskManager.complete and fail.
Settle(t) ==
  /\ phase = "up" /\ task[t].status = "running"
  /\ \E status \in {"succeeded", "queued", "failed"} : SetStatus(t, status)
  /\ UNCHANGED <<phase, clientVars, asked, picked, writerVars, boundVars>>

Cancel(t) ==
  /\ phase = "up" /\ task[t].status = "queued"
  /\ SetStatus(t, "failed")
  /\ UNCHANGED <<phase, clientVars, asked, picked, writerVars, boundVars>>

\* The check of the retry endpoint, and its UPDATE, which finds the row or does not.
RetryCheck(t) ==
  /\ phase = "up" /\ asked = 0 /\ retries < MaxRetries
  /\ task[t].status = "failed"
  /\ asked' = t /\ retries' = retries + 1
  /\ UNCHANGED <<phase, task, clientVars, picked, writerVars, stops, faults>>

RetryUpdate ==
  /\ asked # 0
  /\ task' = IF Exists(asked)
             THEN [task EXCEPT ![asked].status = "queued", ![asked].old = FALSE,
                               ![asked].retried = TRUE]
             ELSE task
  /\ asked' = 0
  /\ UNCHANGED <<phase, clientVars, picked, writerVars, boundVars>>

-----------------------------------------------------------------------------
(* run_cleanup.                                                            *)

\* _task_predicate
Eligible(t) == task[t].status \in Final /\ task[t].old

\* The finished tasks S have grown old and are selected.
Select(S) ==
  /\ phase = "up" /\ picked = {} /\ S # {}
  /\ \A t \in S : task[t].status \in Final
  /\ task' = [t \in Ids |-> [task[t] EXCEPT !.old = @ \/ t \in S]]
  /\ picked' = {t \in Ids : Eligible(t)'}
  /\ UNCHANGED <<phase, clientVars, asked, writerVars, boundVars>>

\* Mutant: the selection is not verified.
Unverified == picked

\* The candidates that still are eligible, locked.
Verified == {t \in picked : Eligible(t)}

\* _batch_delete_txn: the children go first, the tasks by the predicate again.
Delete ==
  /\ picked # {}
  /\ task' = [t \in Ids |->
       IF t \in Verified /\ Eligible(t) THEN [Row("deleted", task[t].contract, task[t].by) EXCEPT !.request = FALSE]
       ELSE IF t \in Verified THEN [task[t] EXCEPT !.request = FALSE]
       ELSE task[t]]
  /\ picked' = {}
  /\ UNCHANGED <<phase, clientVars, asked, writerVars, boundVars>>

-----------------------------------------------------------------------------
(* LLMService.execute, ModelService and PersistWriter.                     *)

InSeq(x, s) == \E i \in 1 .. Len(s) : s[i] = x
Pending(s) == InSeq(s, queue) \/ \E p \in DOMAIN batch : InSeq(s, batch[p])

\* Mutant: the queue has no limit.
AlwaysRoom == TRUE

\* put_nowait does not raise.
HasRoom == Len(queue) < QueueSize

\* Call s has been answered: its record is queued, or refused by the full queue.
Call(s) ==
  /\ phase = "up" /\ s \notin called /\ called' = called \cup {s}
  /\ IF HasRoom
     THEN queue' = Append(queue, s) /\ UNCHANGED dropped
     ELSE dropped' = dropped \cup {s} /\ UNCHANGED queue
  /\ UNCHANGED <<phase, task, clientVars, asked, picked, batch, lost, boundVars>>

\* A writer takes what there is, up to the size of a batch.
Take(w) ==
  /\ phase = "up" /\ batch[w] = <<>> /\ queue # <<>>
  /\ LET n == Min({BatchSize, Len(queue)})
     IN /\ batch' = [batch EXCEPT ![w] = SubSeq(queue, 1, n)]
        /\ queue' = SubSeq(queue, n + 1, Len(queue))
  /\ UNCHANGED <<phase, task, clientVars, asked, picked, called, dropped, lost, boundVars>>

\* _write_batch: each record has a transaction of its own ...
Write(p) ==
  /\ batch[p] # <<>>
  /\ \E status \in {"succeeded", "failed"} :
       LET s == Head(batch[p]) IN task' = Append(task, Row(status, ContractOf[s], s))
  /\ batch' = [batch EXCEPT ![p] = Tail(@)]
  /\ UNCHANGED <<phase, clientVars, asked, picked, queue, called, dropped, lost, boundVars>>

\* ... and one that fails is logged and left.
WriteFails(p) ==
  /\ batch[p] # <<>> /\ faults < MaxFaults /\ faults' = faults + 1
  /\ batch' = [batch EXCEPT ![p] = Tail(@)]
  /\ lost' = lost \cup {Head(batch[p])}
  /\ UNCHANGED <<phase, task, clientVars, asked, picked, queue, called, dropped, retries, stops>>

-----------------------------------------------------------------------------
(* The life of the service.                                                *)

Requeued == [t \in Ids |-> IF task[t].status = "running" THEN [task[t] EXCEPT !.status = "queued"]
                                                         ELSE task[t]]

\* Mutant: the queue is not flushed.
Nothing == <<>>

\* _flush_all takes what the writers have not taken.
Rest == queue

\* The lifespan ends when no request is left: running tasks are requeued, and
\* PersistWriter.stop begins.
Shutdown ==
  /\ phase = "up" /\ stops < MaxStops /\ stops' = stops + 1
  /\ step = Idle \/ \A c \in Clients : step[c] \in {"idle", "done"}
  /\ asked = 0 /\ picked = {}
  /\ phase' = "stopping" /\ task' = Requeued
  /\ batch' = [batch EXCEPT ![Stopper] = Rest] /\ queue' = <<>>
  /\ UNCHANGED <<clientVars, asked, picked, called, dropped, lost, retries, faults>>

InHand == {s \in Calls : \E p \in DOMAIN batch : InSeq(s, batch[p])}

\* The rest is written: the writers are cancelled in whatever they do.
StopEnds ==
  /\ phase = "stopping" /\ batch[Stopper] = <<>>
  /\ phase' = "down"
  /\ lost' = lost \cup InHand
  /\ batch' = [p \in DOMAIN batch |-> <<>>]
  /\ UNCHANGED <<task, clientVars, asked, picked, queue, called, dropped, boundVars>>

Crash ==
  /\ phase = "up" /\ stops < MaxStops /\ stops' = stops + 1
  /\ phase' = "down"
  /\ lock' = Nobody /\ asked' = 0 /\ picked' = {}
  /\ step' = [c \in Clients |-> IF step[c] = "done" THEN "done" ELSE "idle"]
  /\ lost' = lost \cup {s \in Calls : Pending(s)}
  /\ queue' = <<>> /\ batch' = [p \in DOMAIN batch |-> <<>>]
  /\ UNCHANGED <<task, answer, called, dropped, retries, faults>>

Start ==
  /\ phase = "down" /\ phase' = "up" /\ task' = Requeued
  /\ UNCHANGED <<clientVars, asked, picked, writerVars, boundVars>>

-----------------------------------------------------------------------------
Next ==
  \/ \E c \in Clients : Enter(c) \/ Scan(c) \/ Insert(c)
  \/ \E t \in Ids : Claim(t) \/ Settle(t) \/ Cancel(t) \/ RetryCheck(t)
  \/ RetryUpdate \/ Delete \/ \E S \in SUBSET Ids : Select(S)
  \/ \E s \in Calls : Call(s)
  \/ \E w \in Writers : Take(w)
  \/ \E p \in DOMAIN batch : Write(p) \/ WriteFails(p)
  \/ Shutdown \/ StopEnds \/ Crash \/ Start

Spec == Init /\ [][Next]_vars

-----------------------------------------------------------------------------
\* Every variable keeps to its values.
TypeOK ==
  /\ phase \in {"up", "stopping", "down"}
  /\ \A t \in Ids : task[t] \in
       [status : Live \cup Final \cup {"deleted"}, contract : Contracts,
        by : Calls \cup {Nobody}, request : BOOLEAN, old : BOOLEAN, retried : BOOLEAN]
  /\ lock \in Clients \cup {Nobody}
  /\ step \in [Clients -> {"idle", "succeeded", "running", "queued", "insert", "done"}]
  /\ answer \in [Clients -> 0 .. Len(task)]
  /\ asked \in 0 .. Len(task) /\ picked \subseteq Ids
  /\ Len(queue) <= QueueSize
  /\ \A w \in Writers : Len(batch[w]) <= BatchSize
  /\ lost \cup dropped \subseteq called /\ called \subseteq Calls

\* A request is not computed twice at a time: two submissions of one key and fingerprint
\* do not both create a task that is still to be done.  A retry may revive a second one.
OneLiveTask ==
  \A t, u \in Ids :
    /\ t # u /\ SameRequest(task[t].contract, task[u].contract)
    /\ {task[t].status, task[u].status} \subseteq Live
    => task[t].retried \/ task[u].retried

\* A task keeps its request row for as long as it exists, also when it is retried
\* while the cleanup is about to delete it.
RequestKept == \A t \in Ids : Exists(t) => task[t].request

\* The record of a call is in one place: on its way, in the table, counted as dropped,
\* or lost with the coroutine or the statement that had it.  It is not written twice,
\* and none is left behind when the service stops.
Accounted ==
  \A s \in called :
    /\ Cardinality({t \in Ids : task[t].by = s})
         + Cardinality({p \in DOMAIN batch : InSeq(s, batch[p])})
         + (IF InSeq(s, queue) THEN 1 ELSE 0)
         + (IF s \in dropped THEN 1 ELSE 0) + (IF s \in lost THEN 1 ELSE 0) = 1
    /\ phase = "down" => ~Pending(s)
=============================================================================
