---------------------------- MODULE MiningRunQueue ----------------------------
(***************************************************************************)
(* The mining runs of one domain of knowledge_mining: the rows of          *)
(* mining_runs, the DomainRunQueueDispatcher thread that drains them in    *)
(* FIFO order, the resume route with its own thread, the execution lease   *)
(* with its heartbeat, cancellation, and what a starting API process does  *)
(* with the runs of the process before it.                                 *)
(*                                                                         *)
(* pc[e] is the statement executor e sends next.  Every statement on       *)
(* mining_runs is its own transaction, so executors, API calls and the     *)
(* clock interleave between statements.  Both executors run the same       *)
(* _execute_workflow_job.  The guard of the dispatcher makes kick and the  *)
(* end of a drain thread one step each.                                    *)
(***************************************************************************)
EXTENDS Naturals, FiniteSets

CONSTANTS
  Runs,          \* ids of mining_runs rows
  KbOf,          \* their kb_id
  Rank,          \* their place in ORDER BY started_at, id
  Dispatcher,    \* the drain thread of the domain
  Resumer,       \* the thread of the resume route (its lock admits one)
  Cancellers,    \* the runs that a user may cancel
  LeasesLapse,   \* TRUE: every heartbeat of a lease may fail for lease_seconds
  ClaimsInterleave, \* TRUE: a claim may fall between the end of a job and the
                 \* record of its failure, two statements of one thread
  MaxStops,      \* bound: crashes and shutdowns of the API process
  MaxResumes,    \* bound: calls of the resume route
  MaxUpsets,     \* bound: both together
  FaultySteps,   \* the steps whose own statement may raise
  MaxFaults,     \* bound: how many of them do
  NoRun, Nobody, Dead  \* no run; no worker_id; the worker_id of a dead process

Execs == {Dispatcher, Resumer}
Statuses == {"absent", "queued", "running", "interrupted", "completed", "failed", "cancelled"}
Steps == {"off", "clear", "pick", "claim", "begin", "work", "publish", "refail",
          "release", "record", "check", "kick"}
Outcomes == {"ok", "error", "lost"}

ASSUME MiningAssumption ==
  /\ Dispatcher # Resumer
  /\ {Nobody, Dead} \cap Execs = {} /\ Nobody # Dead
  /\ NoRun \notin Runs
  /\ Rank \in [Runs -> Nat]
  /\ Cancellers \subseteq Runs
  /\ LeasesLapse \in BOOLEAN /\ ClaimsInterleave \in BOOLEAN
  /\ FaultySteps \subseteq {"pick", "claim", "release", "record"}
  /\ MaxStops \in Nat /\ MaxResumes \in Nat /\ MaxUpsets \in Nat /\ MaxFaults \in Nat

VARIABLES
  up, closed,   \* the API process runs; DomainRunQueueDispatcher._closed
  wakeup,       \* the Event of the drain thread
  status,       \* mining_runs.status
  owner,        \* mining_runs.worker_id
  leased,       \* runs with lease_until >= NOW()
  publishing,   \* runs with current_stage = 'publishing'
  pc, run,      \* control state of each executor and the run it has in hand
  resuming,     \* the executors whose action is resume; the others execute
  lost,         \* the executors whose heartbeat found the run taken over
  outcome,      \* how _execute_workflow_job ends
  kicks,        \* runs inserted by requests that have not called kick yet
  sweep,        \* the lease-expiry sweep of this process is still to come
  stops, resumes, faults  \* uses of the bounds

rowVars   == <<status, owner, leased, publishing>>
execVars  == <<run, resuming, lost, outcome>>
procVars  == <<up, closed, sweep>>
boundVars == <<stops, resumes, faults>>
vars == <<procVars, wakeup, rowVars, pc, execVars, kicks, boundVars>>

-----------------------------------------------------------------------------
Active == {"running", "interrupted"}   \* the statuses of the unique index on kb_id
Advancing == {"queued", "running"}     \* the expected_statuses of most UPDATEs
Working == {"begin", "work", "publish", "refail"}

KbBusy(r) == \E a \in Runs \ {r} : KbOf[a] = KbOf[r] /\ status[a] \in Active
Free(r) == owner[r] = Nobody \/ r \notin leased

\* _claim_statuses_for_action
ClaimStatuses(e) ==
  IF e \in resuming THEN {"running", "interrupted", "failed"} ELSE Advancing

At(e, step) == up /\ pc[e] = step

\* The statement of executor e raises.
Fault(e) ==
  /\ up /\ pc[e] \in FaultySteps /\ faults < MaxFaults
  /\ faults' = faults + 1

Goto(e, step) == pc' = [pc EXCEPT ![e] = step]

\* Mutant: the thread of the resume route ends without a kick.
ReturnedSilently(e) == IF e = Dispatcher THEN "pick" ELSE "off"
\* Where executor e continues when its job has returned.
Returned(e) == IF e = Dispatcher THEN "pick" ELSE "kick"

\* DomainRunQueueDispatcher.kick with the control states f of the executors: the
\* live thread is woken, or a new one is started.
Kicked(f) ==
  /\ pc' = IF ~closed /\ f[Dispatcher] = "off" THEN [f EXCEPT ![Dispatcher] = "clear"] ELSE f
  /\ wakeup' = (wakeup \/ ~closed)

\* A row of KB r may be drained: _NEXT_CANDIDATE_SQL.
Candidate(r) == status[r] \in {"queued", "interrupted"} /\ Free(r) /\ ~KbBusy(r)

\* ORDER BY: interrupted rows first, then the FIFO.
Before(r, s) ==
  \/ status[r] = "interrupted" /\ status[s] = "queued"
  \/ status[r] = status[s] /\ Rank[r] <= Rank[s]

\* Mutant: a lease in force does not keep another executor out.
ClaimableAnyway(e, r) == status[r] \in ClaimStatuses(e)

\* MiningRuntimeDB.claim_run: the WHERE clause of its UPDATE.
Claimable(e, r) ==
  /\ status[r] \in ClaimStatuses(e)
  /\ Free(r)
  /\ \A a \in Runs \ {r} : status[a] \in Advancing => Free(a)

Init ==
  /\ up = TRUE /\ closed = FALSE /\ sweep = TRUE
  /\ wakeup = TRUE
  /\ status = [r \in Runs |-> "absent"]
  /\ owner = [r \in Runs |-> Nobody]
  /\ leased = {} /\ publishing = {}
  /\ pc = [e \in Execs |-> IF e = Dispatcher THEN "clear" ELSE "off"]
  /\ run = [e \in Execs |-> NoRun]
  /\ resuming = {} /\ lost = {}
  /\ outcome = [e \in Execs |-> "ok"]
  /\ kicks = {}
  /\ stops = 0 /\ resumes = 0 /\ faults = 0

-----------------------------------------------------------------------------
(* Requests.                                                               *)

\* mine_kb and enqueue_auto_mining insert a queued row ...
Enqueue(r) ==
  /\ up /\ status[r] = "absent"
  /\ status' = [status EXCEPT ![r] = "queued"]
  /\ kicks' = kicks \cup {r}
  /\ UNCHANGED <<procVars, wakeup, owner, leased, publishing, pc, execVars, boundVars>>

\* ... and then kick the dispatcher of the domain.
KickQueue(r) ==
  /\ up /\ r \in kicks
  /\ kicks' = kicks \ {r}
  /\ Kicked(pc)
  /\ UNCHANGED <<procVars, rowVars, execVars, boundVars>>

\* Mutant: a run that is publishing can be cancelled.
CancellableAlways(r) == status[r] \in Advancing
Cancellable(r) == status[r] \in Advancing /\ r \notin publishing

Cancel(r) ==
  /\ up /\ r \in Cancellers /\ Cancellable(r)
  /\ status' = [status EXCEPT ![r] = "cancelled"]
  /\ UNCHANGED <<procVars, wakeup, owner, leased, publishing, pc, execVars, kicks, boundVars>>

\* Uses of MaxUpsets, a stop that has begun included.
Upsets == stops + resumes + IF closed THEN 1 ELSE 0

\* The resume route, under the domain's run lock, starts a thread of its own.
Resume(r) ==
  /\ At(Resumer, "off") /\ resumes < MaxResumes /\ Upsets < MaxUpsets
  /\ status[r] \in {"failed", "interrupted", "running"}
  /\ resumes' = resumes + 1
  /\ Goto(Resumer, "claim")
  /\ run' = [run EXCEPT ![Resumer] = r]
  /\ resuming' = resuming \cup {Resumer}
  /\ UNCHANGED <<procVars, wakeup, rowVars, lost, outcome, kicks, stops, faults>>

\* The thread of the route releases the lock and kicks the dispatcher.
ResumeEnds ==
  /\ At(Resumer, "kick")
  /\ Kicked([pc EXCEPT ![Resumer] = "off"])
  /\ run' = [run EXCEPT ![Resumer] = NoRun]
  /\ UNCHANGED <<procVars, rowVars, resuming, lost, outcome, kicks, boundVars>>

-----------------------------------------------------------------------------
(* DomainRunQueueDispatcher._worker and drain.                             *)

Clear ==
  /\ At(Dispatcher, "clear")
  /\ Goto(Dispatcher, IF closed THEN "off" ELSE "pick")
  /\ wakeup' = (closed /\ wakeup)
  /\ UNCHANGED <<procVars, rowVars, execVars, kicks, boundVars>>

Pick(r) ==
  /\ At(Dispatcher, "pick") /\ ~closed
  /\ Candidate(r) /\ \A s \in Runs : Candidate(s) => Before(r, s)
  /\ Goto(Dispatcher, "claim")
  /\ run' = [run EXCEPT ![Dispatcher] = r]
  /\ resuming' = IF status[r] = "interrupted" THEN resuming \cup {Dispatcher}
                                              ELSE resuming \ {Dispatcher}
  /\ UNCHANGED <<procVars, wakeup, rowVars, lost, outcome, kicks, boundVars>>

DrainEnds ==
  /\ At(Dispatcher, "pick")
  /\ closed \/ \A r \in Runs : ~Candidate(r)
  /\ Goto(Dispatcher, "check")
  /\ UNCHANGED <<procVars, wakeup, rowVars, execVars, kicks, boundVars>>

\* Mutant: the thread ends without looking at its Event again.
AfterDrainAlways == "off"
AfterDrain == IF wakeup /\ ~closed THEN "clear" ELSE "off"

\* Under the guard: go round again if kicked meanwhile, else the thread ends.
Check ==
  /\ At(Dispatcher, "check")
  /\ Goto(Dispatcher, AfterDrain)
  /\ UNCHANGED <<procVars, wakeup, rowVars, execVars, kicks, boundVars>>

\* next_candidate or record_failure raises: the exception ends the thread.
DispatcherRaises ==
  /\ pc[Dispatcher] \in {"pick", "record"} /\ Fault(Dispatcher)
  /\ Goto(Dispatcher, "off")
  /\ UNCHANGED <<procVars, wakeup, rowVars, execVars, kicks, stops, resumes>>

-----------------------------------------------------------------------------
(* _execute_workflow_job.                                                  *)

Claim(e) ==
  /\ At(e, "claim") /\ Claimable(e, run[e])
  /\ ClaimsInterleave \/ ~\E o \in Execs : pc[o] = "record" /\ run[o] = run[e]
  /\ owner' = [owner EXCEPT ![run[e]] = e]
  /\ leased' = leased \cup {run[e]}
  /\ lost' = lost \ {e}
  /\ outcome' = [outcome EXCEPT ![e] = "ok"]
  /\ Goto(e, "begin")
  /\ UNCHANGED <<procVars, wakeup, status, publishing, run, resuming, kicks, boundVars>>

\* claimed_elsewhere ends the drain of the dispatcher.
AfterRefusal(e) == IF e = Dispatcher THEN "check" ELSE "kick"

\* The row is not claimable, or the advisory lock of the domain is taken.
ClaimRefused(e) ==
  /\ At(e, "claim")
  /\ ~Claimable(e, run[e]) \/ \E o \in Execs \ {e} : pc[o] = "claim"
  /\ Goto(e, AfterRefusal(e))
  /\ UNCHANGED <<procVars, wakeup, rowVars, execVars, kicks, boundVars>>

End(e, result) ==
  /\ Goto(e, "release")
  /\ outcome' = [outcome EXCEPT ![e] = result]

\* fail_run: guarded by the status, not by the worker_id.
FailRun(r) ==
  status' = [status EXCEPT ![r] = IF @ \in Advancing THEN "failed" ELSE @]

\* Mutant: the run is advanced whatever its status.
BeginnableAlways(e) == TRUE
Beginnable(e) == status[run[e]] \in ClaimStatuses(e)
KbConflict(r) == status[r] \notin Active /\ KbBusy(r)

\* set_run_phase('ingest') of an execute, resume_running of a resume.
Begin(e) ==
  /\ At(e, "begin") /\ Beginnable(e) /\ ~KbConflict(run[e])
  /\ status' = [status EXCEPT ![run[e]] = "running"]
  /\ publishing' = publishing \ {run[e]}
  /\ Goto(e, "work")
  /\ UNCHANGED <<procVars, wakeup, owner, leased, execVars, kicks, boundVars>>

\* The row changed since the claim: a resume returns, an execute goes on and
\* meets the cancellation at its next checkpoint.
BeginMissed(e) ==
  /\ At(e, "begin") /\ ~Beginnable(e)
  /\ IF e \in resuming THEN End(e, "ok") ELSE Goto(e, "work") /\ UNCHANGED outcome
  /\ UNCHANGED <<procVars, wakeup, rowVars, run, resuming, lost, kicks, boundVars>>

\* A checkpoint sees the lost lease or the cancellation.
Checkpoint(e) ==
  /\ At(e, "work")
  /\ e \in lost \/ status[run[e]] = "cancelled"
  /\ End(e, IF e \in lost THEN "lost" ELSE "error")
  /\ UNCHANGED <<procVars, wakeup, rowVars, run, resuming, lost, kicks, boundVars>>

\* A statement up to the claim raises: fail_run, without a lease.
ClaimRaises(e) ==
  /\ pc[e] = "claim" /\ Fault(e)
  /\ FailRun(run[e])
  /\ Goto(e, "record")
  /\ UNCHANGED <<procVars, wakeup, owner, leased, publishing, execVars, kicks, stops, resumes>>

\* Any other exception, the unique index on kb_id included: fail_run.
JobRaises(e) ==
  /\ up /\ pc[e] \in {"begin", "work", "publish"}
  /\ FailRun(run[e])
  /\ End(e, "error")
  /\ UNCHANGED <<procVars, wakeup, owner, leased, publishing, run, resuming, lost, kicks, boundVars>>

\* _finalize_run builds: set_run_phase('publishing').
Publish(e) ==
  /\ At(e, "work") /\ e \notin lost /\ status[run[e]] \in Advancing
  /\ status' = [status EXCEPT ![run[e]] = "running"]
  /\ publishing' = publishing \cup {run[e]}
  /\ Goto(e, "publish")
  /\ UNCHANGED <<procVars, wakeup, owner, leased, execVars, kicks, boundVars>>

\* complete_run: guarded by the status, not by the worker_id.
Completes(r) ==
  status' = [status EXCEPT ![r] = IF @ \in Advancing THEN "completed" ELSE @]

Finalize(e) ==
  /\ up /\ pc[e] \in {"work", "publish"}
  /\ Completes(run[e])
  /\ \E result \in IF status[run[e]] \in Advancing THEN {"ok"} ELSE {"ok", "error"} : End(e, result)
  /\ UNCHANGED <<procVars, wakeup, owner, leased, publishing, run, resuming, lost, kicks, boundVars>>

\* All documents failed: fail_run, and when it applied the counters follow.
FinalizeFails(e) ==
  /\ up /\ pc[e] \in {"work", "publish"}
  /\ FailRun(run[e])
  /\ IF status[run[e]] \in Advancing THEN Goto(e, "refail") /\ UNCHANGED outcome
                                     ELSE End(e, "error")
  /\ UNCHANGED <<procVars, wakeup, owner, leased, publishing, run, resuming, lost, kicks, boundVars>>

\* update_run_status("failed", counters), which expects no status.
FailAgain(e) ==
  /\ At(e, "refail")
  /\ status' = [status EXCEPT ![run[e]] = "failed"]
  /\ End(e, "error")
  /\ UNCHANGED <<procVars, wakeup, owner, leased, publishing, run, resuming, lost, kicks, boundVars>>

\* _stop_run_lease: fenced by the worker_id.
Release(e) ==
  /\ At(e, "release")
  /\ IF owner[run[e]] = e
     THEN /\ owner' = [owner EXCEPT ![run[e]] = Nobody]
          /\ leased' = leased \ {run[e]}
     ELSE UNCHANGED <<owner, leased>>
  /\ Goto(e, IF outcome[e] = "ok" \/ (e = Resumer /\ outcome[e] = "lost")
             THEN Returned(e) ELSE "record")
  /\ UNCHANGED <<procVars, wakeup, status, publishing, execVars, kicks, boundVars>>

\* The UPDATE of _stop_run_lease raises, which is logged: the lease stays.
ReleaseRaises(e) ==
  /\ pc[e] = "release" /\ Fault(e)
  /\ Goto(e, IF outcome[e] = "ok" \/ (e = Resumer /\ outcome[e] = "lost")
             THEN Returned(e) ELSE "record")
  /\ UNCHANGED <<procVars, wakeup, rowVars, execVars, kicks, stops, resumes>>

\* record_failure: drain saw an exception, RunLeaseLost included.
RecordFailure ==
  /\ At(Dispatcher, "record")
  /\ LET r == run[Dispatcher] IN
       IF status[r] \in {"queued", "running", "interrupted"}
       THEN /\ status' = [status EXCEPT ![r] = "failed"]
            /\ owner' = [owner EXCEPT ![r] = Nobody]
            /\ leased' = leased \ {r}
       ELSE UNCHANGED <<status, owner, leased>>
  /\ Goto(Dispatcher, Returned(Dispatcher))
  /\ UNCHANGED <<procVars, wakeup, publishing, execVars, kicks, boundVars>>

\* _mark_resume_failure of the route.
MarkResumeFailure ==
  /\ At(Resumer, "record")
  /\ LET r == run[Resumer] IN
       status' = [status EXCEPT ![r] = IF @ = "running" THEN "failed" ELSE @]
  /\ Goto(Resumer, Returned(Resumer))
  /\ UNCHANGED <<procVars, wakeup, owner, leased, publishing, execVars, kicks, boundVars>>

-----------------------------------------------------------------------------
(* The heartbeat and the clock.                                            *)

\* renew_run_lease: fenced by the worker_id.
Heartbeat(e) ==
  /\ up /\ pc[e] \in Working
  /\ IF owner[run[e]] = e THEN leased' = leased \cup {run[e]} /\ UNCHANGED lost
                          ELSE lost' = lost \cup {e} /\ UNCHANGED leased
  /\ <<leased', lost'>> # <<leased, lost>>
  /\ UNCHANGED <<procVars, wakeup, status, owner, publishing, pc, run, resuming, outcome, kicks, boundVars>>

\* A heartbeat renews the lease of r.
Renewed(r) ==
  \E e \in Execs : owner[r] = e /\ run[e] = r /\ pc[e] \in Working \cup {"release"}

LeaseExpires(r) ==
  /\ r \in leased
  /\ Renewed(r) => LeasesLapse
  /\ leased' = leased \ {r}
  /\ UNCHANGED <<procVars, wakeup, status, owner, publishing, pc, execVars, kicks, boundVars>>

-----------------------------------------------------------------------------
(* The API process.                                                        *)

\* The lifespan ends: DomainRunQueueDispatcher.close.
Close ==
  /\ up /\ ~closed /\ stops < MaxStops /\ Upsets < MaxUpsets
  /\ closed' = TRUE /\ wakeup' = TRUE
  /\ UNCHANGED <<up, sweep, rowVars, pc, execVars, kicks, boundVars>>

\* The process ends or crashes; its daemon threads stop where they are.
Stop ==
  /\ up /\ stops < MaxStops /\ (closed \/ Upsets < MaxUpsets)
  /\ up' = FALSE /\ stops' = stops + 1
  /\ owner' = [r \in Runs |-> IF owner[r] = Nobody THEN Nobody ELSE Dead]
  /\ pc' = [e \in Execs |-> "off"]
  /\ run' = [e \in Execs |-> NoRun]
  /\ outcome' = [e \in Execs |-> "ok"]
  /\ resuming' = {} /\ lost' = {} /\ kicks' = {}
  /\ closed' = FALSE /\ wakeup' = FALSE
  /\ UNCHANGED <<sweep, status, leased, publishing, resumes, faults>>

\* Mutant: rows whose lease has expired are not recovered.
RecoveredUnowned ==
  [r \in Runs |-> IF status[r] = "running" /\ owner[r] = Nobody THEN "interrupted" ELSE status[r]]
\* recover_startup_runs: running rows that nobody holds become interrupted.  (Its
\* condition finished_at IS NULL holds of every running row: resume_running, the only
\* way from a finished status to running, clears the column.)
Recovered ==
  [r \in Runs |-> IF status[r] = "running" /\ Free(r) THEN "interrupted" ELSE status[r]]

\* The lifespan starts: recover, schedule the sweep, kick.
Start ==
  /\ ~up /\ up' = TRUE
  /\ status' = Recovered
  /\ sweep' = TRUE
  /\ Kicked(pc)
  /\ UNCHANGED <<closed, owner, leased, publishing, execVars, kicks, boundVars>>

\* _lease_expiry_sweep_once, 360 s after the start: leases of the process
\* before have expired by then.
Sweep ==
  /\ up /\ sweep /\ \A r \in leased : owner[r] # Dead
  /\ sweep' = FALSE
  /\ status' = Recovered
  /\ IF status' # status THEN Kicked(pc) ELSE UNCHANGED <<pc, wakeup>>
  /\ UNCHANGED <<up, closed, owner, leased, publishing, execVars, kicks, boundVars>>

-----------------------------------------------------------------------------
Job(e) ==
  \/ Claim(e) \/ ClaimRefused(e) \/ Begin(e) \/ BeginMissed(e) \/ Checkpoint(e)
  \/ JobRaises(e) \/ Publish(e) \/ Finalize(e) \/ FinalizeFails(e) \/ FailAgain(e)
  \/ Release(e)

Drain == Clear \/ (\E r \in Runs : Pick(r)) \/ DrainEnds \/ Check \/ RecordFailure

Next ==
  \/ \E r \in Runs : Enqueue(r) \/ KickQueue(r) \/ Cancel(r) \/ Resume(r) \/ LeaseExpires(r)
  \/ \E e \in Execs : Job(e) \/ ClaimRaises(e) \/ ReleaseRaises(e) \/ Heartbeat(e)
  \/ Drain \/ DispatcherRaises \/ ResumeEnds \/ MarkResumeFailure
  \/ Close \/ Stop \/ Start \/ Sweep

Spec == Init /\ [][Next]_vars

(* Threads run, jobs end, requests in progress reach their kick, the clock  *)
(* advances and supervisord starts a stopped process again.                 *)
Fairness ==
  /\ \A e \in Execs : WF_vars(Job(e))
  /\ WF_vars(Drain) /\ WF_vars(ResumeEnds) /\ WF_vars(MarkResumeFailure)
  /\ \A r \in Runs : WF_vars(KickQueue(r)) /\ WF_vars(~Renewed(r) /\ LeaseExpires(r))
  /\ WF_vars(Start \/ Sweep \/ (closed /\ Stop))

FairSpec == Spec /\ Fairness

-----------------------------------------------------------------------------
(* Properties.                                                             *)

\* Every variable has its type; a thread has a run in hand while it works on one
\* and the thread of the resume route has none once it has ended.
TypeOK ==
  /\ up \in BOOLEAN /\ closed \in BOOLEAN /\ wakeup \in BOOLEAN /\ sweep \in BOOLEAN
  /\ status \in [Runs -> Statuses]
  /\ owner \in [Runs -> Execs \cup {Dead, Nobody}]
  /\ leased \subseteq Runs /\ publishing \subseteq Runs /\ kicks \subseteq Runs
  /\ pc \in [Execs -> Steps]
  /\ run \in [Execs -> Runs \cup {NoRun}]
  /\ \A e \in Execs : pc[e] \in Working \cup {"claim", "release", "record"} => run[e] \in Runs
  /\ pc[Resumer] = "off" => run[Resumer] = NoRun
  /\ resuming \subseteq Execs /\ lost \subseteq Execs
  /\ outcome \in [Execs -> Outcomes]
  /\ stops \in Nat /\ resumes \in Nat /\ faults \in Nat

\* While heartbeats get through, a run is worked on by at most one thread: a
\* queue drain and a resume never advance the same run together (claim_run).
SoleExecutor ==
  run[Dispatcher] = run[Resumer] =>
    ~(pc[Dispatcher] \in Working /\ pc[Resumer] \in Working)

\* A run is completed only by the thread that holds its lease: complete_run is
\* not fenced by the worker_id, the order of statements has to see to it.
OwnerCompletes ==
  [][\A r \in Runs : status[r] # "completed" /\ status'[r] = "completed" =>
       \E e \in Execs : run[e] = r /\ pc[e] \in Working /\ owner[r] = e]_vars

\* A completed or cancelled run stays so: no late failure record, recovery or
\* retry of a job overwrites it (fail_run, record_failure, update_run_status).
SettledIsFinal ==
  [][\A r \in Runs : status[r] \in {"completed", "cancelled"} => status'[r] = status[r]]_vars

\* A run that is being published is not cancelled under the hands of the
\* publisher (cancel_run refuses current_stage = 'publishing').
PublishingIsNotCancelled ==
  \A e \in Execs : pc[e] = "publish" => status[run[e]] # "cancelled"

Settled(r) == status[r] \in {"completed", "failed", "cancelled"}

\* Every queued run is settled in the end, unless the process stops: no interleaving
\* of kicks with the end of a drain thread, and no resume that holds the domain,
\* strands it (_worker, kick, resume_run).
EveryRunSettles ==
  \A r \in Runs : status[r] = "queued" /\ stops = 0 ~> Settled(r) \/ stops > 0

\* A run that has begun is settled in the end, whatever crash it meets: the
\* recovery of the next start, or the sweep once the lease of the dead process has
\* expired, finds it and wakes the queue (recover_startup_runs).
BegunRunSettles ==
  \A r \in Runs : status[r] \in {"running", "interrupted"} ~> Settled(r)

\* A run that could be drained has somebody to drain it: the drain thread, a
\* request about to kick, a resume that will kick, or the sweep to come.  A crash
\* breaks this (see the README).
NoStrandedRun ==
  stops = 0 /\ ~closed /\ (\E r \in Runs : Candidate(r)) =>
    pc[Dispatcher] # "off" \/ pc[Resumer] # "off" \/ kicks # {} \/ sweep
=============================================================================
