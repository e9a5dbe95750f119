------------------------- MODULE MiningRunQueueProofs -------------------------
(***************************************************************************)
(* What holds of MiningRunQueue for every number of runs, resumes, crashes,*)
(* shutdowns and faulty statements.                                        *)
(***************************************************************************)
EXTENDS MiningRunQueue, TLAPS

\* The domain starts well typed, its drain thread about to run.
LEMMA InitTyped == Init => TypeOK
<1> SUFFICES ASSUME Init PROVE TypeOK
  OBVIOUS
<1>1. /\ pc \in [Execs -> Steps] /\ run \in [Execs -> Runs \cup {NoRun}]
      /\ \A e \in Execs : pc[e] \in {"off", "clear"} /\ run[e] = NoRun
  BY DEF Init, Steps
<1>2. Resumer \in Execs
  BY DEF Execs
<1>3. up \in BOOLEAN /\ closed \in BOOLEAN /\ wakeup \in BOOLEAN /\ sweep \in BOOLEAN
  BY Zenon DEF Init
<1>4. status \in [Runs -> Statuses] /\ outcome \in [Execs -> Outcomes]
  BY DEF Init, Statuses, Outcomes
<1>5. owner \in [Runs -> Execs \cup {Dead, Nobody}]
  BY DEF Init
<1> QED
  BY <1>1, <1>2, <1>3, <1>4, <1>5 DEF Init, TypeOK, Working

\* A kick starts the drain thread at most, and wakes it.
LEMMA KickedTyped ==
  ASSUME TypeOK, NEW f \in [Execs -> Steps], Kicked(f)
  PROVE  /\ pc' \in [Execs -> Steps] /\ wakeup' \in BOOLEAN
         /\ pc'[Resumer] = f[Resumer]
         /\ pc'[Dispatcher] = f[Dispatcher] \/ (f[Dispatcher] = "off" /\ pc'[Dispatcher] = "clear")
<1>1. wakeup' \in BOOLEAN
  BY Zenon DEF Kicked
<1> QED
  BY <1>1, MiningAssumption DEF Kicked, Execs, Steps

\* fail_run and complete_run write statuses there are.
LEMMA StatusTyped ==
  ASSUME TypeOK, NEW r \in Runs, FailRun(r) \/ Completes(r)
  PROVE  status' \in [Runs -> Statuses]
  BY DEF FailRun, Completes, TypeOK, Statuses

\* So does the recovery of a start and of the sweep.
LEMMA RecoveredTyped == TypeOK => Recovered \in [Runs -> Statuses]
  BY DEF Recovered, TypeOK, Statuses

\* No step of a request, a thread, the clock or the process breaks a type.
LEMMA StepTyped == TypeOK /\ [Next]_vars => TypeOK'
<1> SUFFICES ASSUME TypeOK, [Next]_vars PROVE TypeOK'
  OBVIOUS
<1> USE MiningAssumption
<1>1. CASE UNCHANGED vars
  BY <1>1 DEF vars, rowVars, execVars, procVars, boundVars, TypeOK
<1>2. ASSUME NEW r \in Runs, Enqueue(r) \/ Cancel(r) \/ LeaseExpires(r) PROVE TypeOK'
  BY <1>2 DEF Enqueue, Cancel, LeaseExpires, TypeOK, Statuses, rowVars, execVars, procVars, boundVars
<1>3. ASSUME NEW r \in Runs, KickQueue(r) PROVE TypeOK'
  <2>1. /\ pc' \in [Execs -> Steps] /\ wakeup' \in BOOLEAN /\ pc'[Resumer] = pc[Resumer]
        /\ pc'[Dispatcher] = pc[Dispatcher] \/ pc'[Dispatcher] = "clear"
    BY <1>3, KickedTyped DEF KickQueue, TypeOK
  <2> QED
    BY <1>3, <2>1 DEF KickQueue, TypeOK, Execs, Working, rowVars, execVars, procVars, boundVars
<1>4. ASSUME NEW r \in Runs, Resume(r) PROVE TypeOK'
  BY <1>4 DEF Resume, At, Goto, TypeOK, Execs, Steps, Working, rowVars, execVars, procVars
<1>5. CASE ResumeEnds
  <2>1. /\ pc' \in [Execs -> Steps] /\ wakeup' \in BOOLEAN /\ pc'[Resumer] = "off"
        /\ pc'[Dispatcher] = pc[Dispatcher] \/ pc'[Dispatcher] = "clear"
    <3> DEFINE f == [pc EXCEPT ![Resumer] = "off"]
    <3>1. f \in [Execs -> Steps] /\ f[Resumer] = "off" /\ f[Dispatcher] = pc[Dispatcher]
      BY DEF TypeOK, Execs, Steps
    <3>2. Kicked(f)
      BY <1>5 DEF ResumeEnds
    <3> QED
      BY <3>1, <3>2, KickedTyped
  <2> QED
    BY <1>5, <2>1 DEF ResumeEnds, TypeOK, Execs, Working, rowVars, procVars, boundVars
<1>6. CASE Clear
  <2>1. wakeup' \in BOOLEAN
    BY <1>6, Zenon DEF Clear
  <2> QED
    BY <1>6, <2>1 DEF Clear, At, Goto, TypeOK, Execs, Steps, Working, rowVars, execVars, procVars, boundVars
<1>7. ASSUME NEW r \in Runs, Pick(r) PROVE TypeOK'
  BY <1>7 DEF Pick, At, Goto, TypeOK, Execs, Steps, Working, rowVars, procVars, boundVars
<1>8. CASE DrainEnds \/ Check \/ DispatcherRaises
  BY <1>8 DEF DrainEnds, Check, AfterDrain, DispatcherRaises, Fault, At, Goto, TypeOK, Execs, Steps,
              Working, rowVars, execVars, procVars, boundVars
<1>9. ASSUME NEW e \in Execs, Claim(e) PROVE TypeOK'
  BY <1>9 DEF Claim, At, Goto, TypeOK, Execs, Steps, Working, Outcomes, procVars, boundVars
<1>10. ASSUME NEW e \in Execs, ClaimRefused(e) PROVE TypeOK'
  BY <1>10 DEF ClaimRefused, AfterRefusal, At, Goto, TypeOK, Execs, Steps, Working,
               rowVars, execVars, procVars, boundVars
<1>11. ASSUME NEW e \in Execs, Begin(e) \/ BeginMissed(e) \/ Publish(e) PROVE TypeOK'
  BY <1>11 DEF Begin, BeginMissed, Publish, End, At, Goto, TypeOK, Execs, Steps, Statuses, Working,
               Outcomes, rowVars, execVars, procVars, boundVars
<1>12. ASSUME NEW e \in Execs, Checkpoint(e) PROVE TypeOK'
  BY <1>12 DEF Checkpoint, End, At, Goto, TypeOK, Execs, Steps, Working, Outcomes,
               rowVars, procVars, boundVars
<1>13. ASSUME NEW e \in Execs, JobRaises(e) \/ FinalizeFails(e) \/ ClaimRaises(e) PROVE TypeOK'
  <2>1. run[e] \in Runs /\ FailRun(run[e])
    BY <1>13 DEF JobRaises, FinalizeFails, ClaimRaises, Working, TypeOK
  <2>2. status' \in [Runs -> Statuses]
    BY <2>1, StatusTyped
  <2> QED
    BY <1>13, <2>1, <2>2 DEF JobRaises, FinalizeFails, ClaimRaises, Fault, End, Goto, TypeOK, Execs,
                             Steps, Working, Outcomes, execVars, procVars, boundVars
<1>14. ASSUME NEW e \in Execs, Finalize(e) PROVE TypeOK'
  <2>1. run[e] \in Runs /\ Completes(run[e])
    BY <1>14 DEF Finalize, Working, TypeOK
  <2>2. status' \in [Runs -> Statuses]
    BY <2>1, StatusTyped
  <2> QED
    BY <1>14, <2>1, <2>2 DEF Finalize, End, Goto, TypeOK, Execs, Steps, Working, Outcomes,
                             procVars, boundVars
<1>15. ASSUME NEW e \in Execs, FailAgain(e) PROVE TypeOK'
  BY <1>15 DEF FailAgain, End, At, Goto, TypeOK, Execs, Steps, Statuses, Working, Outcomes,
               procVars, boundVars
<1>16. ASSUME NEW e \in Execs, Release(e) \/ ReleaseRaises(e) PROVE TypeOK'
  BY <1>16 DEF Release, ReleaseRaises, Returned, Fault, At, Goto, TypeOK, Execs, Steps, Working,
               rowVars, execVars, procVars, boundVars
<1>17. CASE RecordFailure \/ MarkResumeFailure
  BY <1>17 DEF RecordFailure, MarkResumeFailure, Returned, At, Goto, TypeOK, Execs, Steps, Statuses,
               Working, execVars, procVars, boundVars
<1>18. ASSUME NEW e \in Execs, Heartbeat(e) PROVE TypeOK'
  BY <1>18 DEF Heartbeat, TypeOK, procVars, boundVars
<1>19. CASE Close
  <2>1. closed' \in BOOLEAN /\ wakeup' \in BOOLEAN
    BY <1>19, Zenon DEF Close
  <2> QED
    BY <1>19, <2>1 DEF Close, TypeOK, rowVars, execVars, boundVars
<1>20. CASE Stop
  <2>1. up' \in BOOLEAN /\ closed' \in BOOLEAN /\ wakeup' \in BOOLEAN
    BY <1>20, Zenon DEF Stop
  <2> QED
    BY <1>20, <2>1 DEF Stop, TypeOK, Execs, Steps, Working, Outcomes
<1>21. CASE Start \/ Sweep
  <2>1. up' \in BOOLEAN /\ sweep' \in BOOLEAN
    BY <1>21, Zenon DEF Start, Sweep, TypeOK
  <2>2. /\ pc' \in [Execs -> Steps] /\ wakeup' \in BOOLEAN /\ pc'[Resumer] = pc[Resumer]
        /\ pc'[Dispatcher] = pc[Dispatcher] \/ pc'[Dispatcher] = "clear"
    BY <1>21, KickedTyped DEF Start, Sweep, TypeOK
  <2>3. status' \in [Runs -> Statuses]
    BY <1>21, RecoveredTyped DEF Start, Sweep
  <2> QED
    BY <1>21, <2>1, <2>2, <2>3 DEF Start, Sweep, TypeOK, Execs, Working, execVars, boundVars
<1> QED
  BY <1>1, <1>2, <1>3, <1>4, <1>5, <1>6, <1>7, <1>8, <1>9, <1>10, <1>11, <1>12, <1>13, <1>14,
     <1>15, <1>16, <1>17, <1>18, <1>19, <1>20, <1>21 DEF Next, Job, Drain

\* The rows and threads of a domain keep their types: _execute_workflow_job never
\* works without a run in hand, and the thread of the resume route ends without one.
THEOREM TypeCorrect == Spec => []TypeOK
<1>1. Init => TypeOK
  BY InitTyped
<1>2. TypeOK /\ [Next]_vars => TypeOK'
  BY StepTyped
<1> QED
  BY <1>1, <1>2, PTL DEF Spec
-----------------------------------------------------------------------------
(* One executor per run, where heartbeats get through and the failure of a *)
(* job is recorded before the next claim of its run.                       *)

Fenced == ~LeasesLapse /\ ~ClaimsInterleave /\ "claim" \notin FaultySteps

\* The steps between a claim and the release of its lease.
Leasing == Working \cup {"release"}

\* A thread that works on a run owns the row, with a lease in force.
HoldsLease == \A e \in Execs : pc[e] \in Leasing => owner[run[e]] = e /\ run[e] \in leased

\* Nobody works on a run whose last failure is still to be recorded.
RecordsAlone ==
  \A e, o \in Execs : e # o /\ pc[e] = "record" /\ run[e] = run[o] => pc[o] \notin Leasing

\* A run whose counters are still to be written after fail_run is failed.
Refails == \A e \in Execs : pc[e] = "refail" => status[run[e]] = "failed"

\* A run that is being published says so, and was not cancelled before.
Publishes ==
  \A e \in Execs : pc[e] = "publish" => run[e] \in publishing /\ status[run[e]] # "cancelled"

IInv == HoldsLease /\ RecordsAlone /\ lost = {} /\ Refails /\ Publishes

\* Most steps leave the rows alone and bring no thread into a job.
Quiet ==
  /\ UNCHANGED <<status, owner, publishing, lost>>
  /\ leased \subseteq leased'
  /\ \A e \in Execs :
       \/ pc'[e] = pc[e] /\ run'[e] = run[e]
       \/ pc'[e] \notin Working \cup {"release", "record"}
       \/ pc[e] \in Leasing /\ pc'[e] \in {"work", "release", "record"} /\ run'[e] = run[e]

\* Such a step keeps the invariant.
LEMMA QuietKeeps == IInv /\ Quiet => IInv'
<1> SUFFICES ASSUME IInv, Quiet PROVE IInv'
  OBVIOUS
<1>1. HoldsLease' /\ Refails' /\ Publishes' /\ lost' = {}
  BY DEF IInv, Quiet, HoldsLease, Refails, Publishes, Working, Leasing
<1>2. RecordsAlone'
  BY DEF IInv, Quiet, RecordsAlone, HoldsLease, Working, Leasing
<1> QED
  BY <1>1, <1>2 DEF IInv

\* The steps of threads and requests that are quiet: a lease that is held is
\* renewed, and no claim of another thread got between.
LEMMA QuietSteps ==
  ASSUME Fenced, TypeOK, IInv,
         \/ \E r \in Runs : KickQueue(r) \/ Resume(r) \/ Pick(r)
         \/ ResumeEnds \/ Clear \/ DrainEnds \/ Check \/ DispatcherRaises \/ Close
         \/ \E e \in Execs : ClaimRefused(e) \/ BeginMissed(e) \/ Checkpoint(e)
                             \/ ReleaseRaises(e) \/ Heartbeat(e)
  PROVE  Quiet
<1> USE MiningAssumption DEF Quiet, rowVars, execVars
<1>1. ASSUME NEW r \in Runs, KickQueue(r) PROVE Quiet
  BY <1>1, KickedTyped DEF KickQueue, TypeOK, Execs, Working
<1>2. ASSUME NEW r \in Runs, Resume(r) \/ Pick(r) PROVE Quiet
  BY <1>2 DEF Resume, Pick, At, Goto, TypeOK, Execs, Working
<1>3. CASE ResumeEnds
  <2> DEFINE f == [pc EXCEPT ![Resumer] = "off"]
  <2>1. f \in [Execs -> Steps] /\ f[Resumer] = "off" /\ f[Dispatcher] = pc[Dispatcher]
    BY DEF TypeOK, Execs, Steps
  <2>2. Kicked(f) /\ run'[Dispatcher] = run[Dispatcher]
    BY <1>3 DEF ResumeEnds, TypeOK, Execs
  <2>3. pc'[Resumer] = "off" /\ pc'[Dispatcher] \in {pc[Dispatcher], "clear"}
    BY <2>1, <2>2, KickedTyped
  <2> QED
    BY <1>3, <2>2, <2>3 DEF ResumeEnds, Execs, Working
<1>4. CASE Clear \/ DrainEnds \/ Check \/ DispatcherRaises
  BY <1>4 DEF Clear, DrainEnds, Check, AfterDrain, DispatcherRaises, At, Goto, TypeOK, Execs, Working
<1>5. CASE Close
  BY <1>5 DEF Close
<1>6. ASSUME NEW e \in Execs, ClaimRefused(e) PROVE Quiet
  BY <1>6 DEF ClaimRefused, AfterRefusal, At, Goto, TypeOK, Working
<1>7. ASSUME NEW e \in Execs, BeginMissed(e) \/ Checkpoint(e) PROVE Quiet
  BY <1>7 DEF BeginMissed, Checkpoint, End, At, Goto, TypeOK, Working, Leasing
<1>8. ASSUME NEW e \in Execs, ReleaseRaises(e) PROVE Quiet
  BY <1>8 DEF ReleaseRaises, Returned, Goto, TypeOK, Execs, Working, Leasing
<1>9. ASSUME NEW e \in Execs, Heartbeat(e) PROVE Quiet
  BY <1>9 DEF Heartbeat, IInv, HoldsLease, Leasing
<1> QED
  BY <1>1, <1>2, <1>3, <1>4, <1>5, <1>6, <1>7, <1>8, <1>9

\* Where Fenced holds every step keeps the invariant: a claim needs a run that
\* nobody holds and no failure record is pending for.
LEMMA StepIInv == Fenced /\ TypeOK /\ IInv /\ [Next]_vars => IInv'
<1> SUFFICES ASSUME Fenced, TypeOK, IInv, [Next]_vars PROVE IInv'
  OBVIOUS
<1> USE MiningAssumption
<1>1. CASE UNCHANGED vars
  BY <1>1, QuietKeeps DEF vars, rowVars, execVars, Quiet
<1>2. CASE \/ \E r \in Runs : KickQueue(r) \/ Resume(r) \/ Pick(r)
           \/ ResumeEnds \/ Clear \/ DrainEnds \/ Check \/ DispatcherRaises \/ Close
           \/ \E e \in Execs : ClaimRefused(e) \/ BeginMissed(e) \/ Checkpoint(e)
                               \/ ReleaseRaises(e) \/ Heartbeat(e)
  BY <1>2, QuietSteps, QuietKeeps
<1>3. ASSUME NEW r \in Runs, Enqueue(r) \/ Cancel(r) PROVE IInv'
  <2>1. UNCHANGED <<owner, leased, publishing, pc, run, lost>>
    BY <1>3 DEF Enqueue, Cancel, execVars
  <2>2. Refails' /\ Publishes'
    BY <1>3, <2>1 DEF Enqueue, Cancel, Cancellable, Advancing, IInv, Refails, Publishes, TypeOK, Working
  <2> QED
    BY <2>1, <2>2 DEF IInv, HoldsLease, RecordsAlone
<1>4. ASSUME NEW r \in Runs, LeaseExpires(r) PROVE IInv'
  <2>1. UNCHANGED <<status, owner, publishing, pc, run, lost>>
    BY <1>4 DEF LeaseExpires, execVars
  <2>2. HoldsLease'
    BY <1>4, <2>1 DEF LeaseExpires, Renewed, Fenced, IInv, HoldsLease, Leasing
  <2> QED
    BY <2>1, <2>2 DEF IInv, RecordsAlone, Refails, Publishes
<1>5. ASSUME NEW e \in Execs, Claim(e) PROVE IInv'
  <2>1. run[e] \in Runs
    BY <1>5 DEF Claim, At, TypeOK
  <2>2. ASSUME NEW o \in Execs, pc[o] \in Leasing \cup {"record"}, o # e PROVE run[o] # run[e]
    <3>1. CASE pc[o] = "record"
      BY <1>5, <2>2, <3>1 DEF Claim, Fenced
    <3>2. CASE pc[o] \in Leasing
      BY <1>5, <2>2, <3>2 DEF Claim, Claimable, Free, IInv, HoldsLease, Execs
    <3> QED
      BY <2>2, <3>1, <3>2
  <2>3. /\ pc' = [pc EXCEPT ![e] = "begin"] /\ owner' = [owner EXCEPT ![run[e]] = e]
        /\ leased' = leased \cup {run[e]} /\ lost' = {} /\ UNCHANGED <<status, publishing, run>>
    BY <1>5 DEF Claim, Goto, IInv
  <2>4. HoldsLease'
    BY <2>1, <2>2, <2>3 DEF TypeOK, IInv, HoldsLease, Leasing, Working
  <2>5. RecordsAlone'
    BY <2>2, <2>3 DEF TypeOK, IInv, RecordsAlone
  <2>6. Refails' /\ Publishes'
    BY <2>3 DEF TypeOK, IInv, Refails, Publishes
  <2> QED
    BY <2>3, <2>4, <2>5, <2>6 DEF IInv
<1>6. ASSUME NEW e \in Execs, \/ Begin(e) \/ JobRaises(e) \/ Publish(e)
                              \/ Finalize(e) \/ FinalizeFails(e) \/ FailAgain(e)
      PROVE  IInv'
  <2>1. pc[e] \in Working /\ run[e] \in Runs
    BY <1>6 DEF Begin, JobRaises, Publish, Finalize, FinalizeFails, FailAgain, At, Working, TypeOK
  <2>2. \A o \in Execs : o # e /\ pc[o] \in Leasing \cup {"record"} => run[o] # run[e]
    BY <2>1 DEF IInv, HoldsLease, RecordsAlone, Leasing
  <2>3. /\ UNCHANGED <<owner, leased, run, lost>>
        /\ pc' \in [Execs -> Steps] /\ \A o \in Execs : o # e => pc'[o] = pc[o]
        /\ pc'[e] \in Leasing
    BY <1>6 DEF Begin, JobRaises, Publish, Finalize, FinalizeFails, FailAgain, End, Goto, TypeOK,
                Steps, Working, Leasing, execVars
  <2>4. /\ \A r \in Runs : r # run[e] => status'[r] = status[r] /\ (r \in publishing => r \in publishing')
        /\ pc'[e] = "refail" => status'[run[e]] = "failed"
        /\ pc'[e] = "publish" => run[e] \in publishing' /\ status'[run[e]] # "cancelled"
    BY <1>6, <2>1 DEF Begin, JobRaises, Publish, Finalize, FinalizeFails, FailAgain, FailRun, Completes,
                End, Goto, TypeOK
  <2>5. HoldsLease' /\ RecordsAlone'
    BY <2>1, <2>2, <2>3 DEF IInv, HoldsLease, RecordsAlone, Leasing, Working
  <2>6. Refails' /\ Publishes'
    BY <2>1, <2>2, <2>3, <2>4 DEF TypeOK, IInv, Refails, Publishes, Leasing, Working
  <2> QED
    BY <2>3, <2>5, <2>6 DEF IInv
<1>7. ASSUME NEW e \in Execs, Release(e) PROVE IInv'
  <2>1. run[e] \in Runs /\ pc[e] \in Leasing
    BY <1>7 DEF Release, At, TypeOK, Leasing
  <2>2. \A o \in Execs : o # e /\ pc[o] \in Leasing => run[o] # run[e]
    BY <2>1 DEF IInv, HoldsLease
  <2>3. /\ UNCHANGED <<status, publishing, run, lost>>
        /\ \A o \in Execs : o # e => pc'[o] = pc[o]
        /\ pc'[e] \in {"record", "pick", "kick"}
        /\ \A r \in Runs : r # run[e] => owner'[r] = owner[r] /\ (r \in leased => r \in leased')
    BY <1>7, <2>1 DEF Release, Returned, Goto, TypeOK, execVars
  <2>4. HoldsLease' /\ RecordsAlone'
    BY <2>1, <2>2, <2>3 DEF TypeOK, IInv, HoldsLease, RecordsAlone, Leasing, Working
  <2>5. Refails' /\ Publishes'
    BY <2>3 DEF IInv, Refails, Publishes
  <2> QED
    BY <2>3, <2>4, <2>5 DEF IInv
<1>8. CASE RecordFailure \/ MarkResumeFailure
  <2> PICK e \in Execs : \/ e = Dispatcher /\ RecordFailure
                         \/ e = Resumer /\ MarkResumeFailure
    BY <1>8 DEF Execs
  <2>1. pc[e] = "record" /\ run[e] \in Runs
    BY DEF RecordFailure, MarkResumeFailure, At, TypeOK
  <2>2. \A o \in Execs : o # e /\ pc[o] \in Leasing => run[o] # run[e]
    BY <2>1 DEF IInv, RecordsAlone
  <2>3. /\ UNCHANGED <<publishing, run, lost>>
        /\ \A o \in Execs : o # e => pc'[o] = pc[o]
        /\ pc'[e] \in {"pick", "kick"}
        /\ \A r \in Runs : r # run[e] => /\ status'[r] = status[r] /\ owner'[r] = owner[r]
                                         /\ r \in leased => r \in leased'
    BY <2>1 DEF RecordFailure, MarkResumeFailure, Returned, Goto, TypeOK, execVars
  <2>4. HoldsLease' /\ RecordsAlone'
    BY <2>1, <2>2, <2>3 DEF TypeOK, IInv, HoldsLease, RecordsAlone, Leasing, Working
  <2>5. Refails' /\ Publishes'
    BY <2>2, <2>3 DEF TypeOK, IInv, Refails, Publishes, Leasing, Working
  <2> QED
    BY <2>3, <2>4, <2>5 DEF IInv
<1>9. CASE Stop
  BY <1>9 DEF Stop, IInv, HoldsLease, RecordsAlone, Refails, Publishes, Leasing, Working
<1>10. CASE Start \/ Sweep
  <2>1. /\ UNCHANGED <<owner, leased, publishing, run, lost>>
        /\ \A e \in Execs : pc'[e] = pc[e] \/ pc'[e] = "clear"
    BY <1>10, KickedTyped DEF Start, Sweep, TypeOK, Execs, execVars
  <2>2. \A r \in Runs : status'[r] # status[r] => status[r] = "running" /\ status'[r] = "interrupted"
    BY <1>10 DEF Start, Sweep, Recovered
  <2>3. HoldsLease' /\ RecordsAlone'
    BY <2>1 DEF IInv, HoldsLease, RecordsAlone, Leasing, Working
  <2>4. Refails' /\ Publishes'
    BY <2>1, <2>2 DEF TypeOK, IInv, Refails, Publishes, Working
  <2> QED
    BY <2>1, <2>3, <2>4 DEF IInv
<1>11. ASSUME NEW e \in Execs, ClaimRaises(e) PROVE IInv'
  BY <1>11 DEF ClaimRaises, Fault, Fenced
<1> QED
  BY <1>1, <1>2, <1>3, <1>4, <1>5, <1>6, <1>7, <1>8, <1>9, <1>10, <1>11 DEF Next, Job, Drain

\* A domain starts with no run in hand.
LEMMA InitIInv == Init => IInv
  BY DEF Init, IInv, HoldsLease, RecordsAlone, Refails, Publishes, Leasing, Working

\* Where Fenced holds, the invariant always does.
LEMMA IInvAlways ==
  ASSUME Fenced
  PROVE  Spec => [](TypeOK /\ IInv)
<1>1. Init => TypeOK /\ IInv
  BY InitTyped, InitIInv
<1>2. (TypeOK /\ IInv) /\ [Next]_vars => (TypeOK /\ IInv)'
  BY StepTyped, StepIInv
<1> QED
  BY <1>1, <1>2, PTL DEF Spec

\* The queue and a resume never advance the same run together, over any number of
\* resumes, crashes and shutdowns: claim_run refuses a run with a lease in force,
\* the heartbeat keeps the lease until _stop_run_lease, and the failure of a job is
\* recorded before its run is claimed again.
THEOREM RunHasOneExecutor ==
  ASSUME Fenced
  PROVE  Spec => []SoleExecutor
<1>1. IInv => SoleExecutor
  BY MiningAssumption DEF IInv, HoldsLease, Leasing, SoleExecutor, Execs
<1> QED
  BY <1>1, IInvAlways, PTL

\* A run that its executor is publishing has not been cancelled: only its owner can
\* leave the publishing stage, and cancel_run refuses that stage.
THEOREM PublishedRunStands ==
  ASSUME Fenced
  PROVE  Spec => []PublishingIsNotCancelled
<1>1. IInv => PublishingIsNotCancelled
  BY DEF IInv, Publishes, PublishingIsNotCancelled
<1> QED
  BY <1>1, IInvAlways, PTL

-----------------------------------------------------------------------------
(* What a step may do to the status of a run.                              *)

\* The statements that write mining_runs.status, and what they write.
WritesStatus(r) ==
  \/ status[r] = "absent" /\ status'[r] = "queued"
  \/ status[r] \in Advancing /\ status'[r] = "cancelled"
  \/ status[r] = "running" /\ status'[r] = "interrupted"
  \/ \E e \in Execs :
       /\ run[e] = r /\ pc[e] \in Working /\ pc'[e] # pc[e]
       /\ \/ status[r] \notin {"completed", "cancelled"} /\ status'[r] \in {"running", "failed"}
          \/ status[r] \in Advancing /\ status'[r] = "completed"
  \/ \E e \in Execs :
       /\ run[e] = r /\ pc[e] = "record" /\ status'[r] = "failed"
       /\ status[r] \in {"queued", "running", "interrupted"}

\* Nothing else writes it.
LEMMA StatusWriters ==
  ASSUME Fenced, TypeOK, IInv, [Next]_vars, NEW r \in Runs, status'[r] # status[r]
  PROVE  WritesStatus(r)
<1> USE MiningAssumption
<1>1. CASE \/ UNCHANGED vars
           \/ \E s \in Runs : KickQueue(s) \/ Resume(s) \/ Pick(s)
           \/ ResumeEnds \/ Clear \/ DrainEnds \/ Check \/ DispatcherRaises \/ Close
           \/ \E e \in Execs : ClaimRefused(e) \/ BeginMissed(e) \/ Checkpoint(e)
                               \/ ReleaseRaises(e) \/ Heartbeat(e)
  BY <1>1, QuietSteps DEF Quiet, vars, rowVars
<1>2. ASSUME NEW s \in Runs, Enqueue(s) \/ Cancel(s) \/ LeaseExpires(s) PROVE WritesStatus(r)
  BY <1>2 DEF Enqueue, Cancel, Cancellable, LeaseExpires, TypeOK, WritesStatus
<1>3. ASSUME NEW e \in Execs, Claim(e) \/ Release(e) \/ ClaimRaises(e) PROVE WritesStatus(r)
  BY <1>3 DEF Claim, Release, ClaimRaises, Fault, Fenced
<1>4. ASSUME NEW e \in Execs, \/ Begin(e) \/ JobRaises(e) \/ Publish(e)
                              \/ Finalize(e) \/ FinalizeFails(e) \/ FailAgain(e)
      PROVE  WritesStatus(r)
  <2>1. pc[e] \in Working /\ run[e] \in Runs
    BY <1>4 DEF Begin, JobRaises, Publish, Finalize, FinalizeFails, FailAgain, At, Working, TypeOK
  <2>2. pc'[e] # pc[e]
    BY <1>4 DEF Begin, JobRaises, Publish, Finalize, FinalizeFails, FailAgain, End, At, Goto, TypeOK
  <2>3. run[e] = r
    BY <1>4, <2>1 DEF Begin, JobRaises, Publish, Finalize, FinalizeFails, FailAgain, FailRun, Completes,
                TypeOK
  <2>4. \/ status[r] \notin {"completed", "cancelled"} /\ status'[r] \in {"running", "failed"}
        \/ status[r] \in Advancing /\ status'[r] = "completed"
    BY <1>4, <2>3 DEF Begin, Beginnable, ClaimStatuses, JobRaises, Publish, Finalize, FinalizeFails,
       FailAgain, FailRun, Completes, At, TypeOK, IInv, Refails, Advancing
  <2> QED
    BY <2>1, <2>2, <2>3, <2>4 DEF WritesStatus
<1>5. CASE RecordFailure \/ MarkResumeFailure
  BY <1>5 DEF RecordFailure, MarkResumeFailure, At, TypeOK, Execs, WritesStatus
<1>6. CASE Stop
  BY <1>6 DEF Stop
<1>7. CASE Start \/ Sweep
  BY <1>7 DEF Start, Sweep, Recovered, TypeOK, WritesStatus
<1> QED
  BY <1>1, <1>2, <1>3, <1>4, <1>5, <1>6, <1>7 DEF Next, Job, Drain

\* A run is completed only by the thread that holds its lease, although
\* complete_run does not compare the worker_id.
THEOREM CompletedByOwner ==
  ASSUME Fenced
  PROVE  Spec => OwnerCompletes
<1>1. ASSUME TypeOK, IInv, [Next]_vars, NEW r \in Runs,
             status[r] # "completed", status'[r] = "completed"
      PROVE  \E e \in Execs : run[e] = r /\ pc[e] \in Working /\ owner[r] = e
  BY <1>1, StatusWriters DEF WritesStatus, IInv, HoldsLease, Leasing
<1>2. TypeOK /\ IInv /\ [Next]_vars =>
        [\A r \in Runs : status[r] # "completed" /\ status'[r] = "completed" =>
           \E e \in Execs : run[e] = r /\ pc[e] \in Working /\ owner[r] = e]_vars
  BY <1>1
<1> QED
  BY <1>2, IInvAlways, PTL DEF Spec, OwnerCompletes

-----------------------------------------------------------------------------
(* A settled run stays so, where heartbeats get through.  Claims may raise *)
(* and may come before the record of a failure, which then takes a resumed *)
(* run away from its thread: two threads may work on one run.              *)

Owns(e) == owner[run[e]] = e /\ run[e] \in leased

\* The dispatcher is at one of the steps, with the run of the resume in hand.
OnHand(steps) == run[Dispatcher] = run[Resumer] /\ pc[Dispatcher] \in steps

\* Only the dispatcher's own record_failure takes its run away, after the job.
DispatcherOwns == pc[Dispatcher] \in Leasing => Owns(Dispatcher)

\* A run that is resumed has been claimed once.
ResumedWasClaimed ==
  pc[Resumer] \in Leasing \cup {"claim"} => status[run[Resumer]] \notin {"absent", "queued"}

\* A resume that lost its run before it began finds it ended, and for itself.
ResumeBegins ==
  pc[Resumer] = "begin" /\ ~Owns(Resumer) =>
    status[run[Resumer]] \in {"failed", "completed", "cancelled"} /\ ~OnHand(Working \cup {"claim"})

\* What the dispatcher is about to begin, a resume that lost it cannot advance.
ResumeWorks ==
  pc[Resumer] \in {"work", "publish"} /\ ~Owns(Resumer) /\ OnHand({"claim", "begin"}) =>
    status[run[Resumer]] \notin Advancing

\* Nobody begins a run whose counters a resume is still to write after fail_run.
ResumeRefails ==
  pc[Resumer] = "refail" => ~OnHand({"begin"}) /\ (OnHand({"claim"}) => Owns(Resumer))

Takeovers ==
  DispatcherOwns /\ Refails /\ ResumedWasClaimed /\ ResumeBegins /\ ResumeWorks /\ ResumeRefails

\* Every step keeps these: of two threads on one run at most one can advance it.
LEMMA StepTakeovers ==
  ASSUME ~LeasesLapse, TypeOK, Takeovers, [Next]_vars
  PROVE  Takeovers'
<1> USE MiningAssumption
    DEF Takeovers, DispatcherOwns, Refails, ResumedWasClaimed, ResumeBegins, ResumeWorks,
        ResumeRefails, Owns, OnHand, Working, Leasing, Advancing, TypeOK
<1>1. CASE UNCHANGED vars
  BY <1>1 DEF vars, rowVars, execVars
<1>2. ASSUME NEW r \in Runs, Enqueue(r) \/ Cancel(r) PROVE Takeovers'
  BY <1>2 DEF Enqueue, Cancel, Cancellable, execVars, Execs
<1>3. ASSUME NEW r \in Runs, KickQueue(r) PROVE Takeovers'
  <2>1. UNCHANGED <<status, owner, leased, run>> /\ pc'[Resumer] = pc[Resumer]
        /\ pc'[Dispatcher] \in {pc[Dispatcher], "clear"}
    BY <1>3, KickedTyped DEF KickQueue, rowVars, execVars
  <2> QED
    BY <2>1 DEF Execs
<1>4. ASSUME NEW r \in Runs, Resume(r) PROVE Takeovers'
  BY <1>4 DEF Resume, At, Goto, rowVars, Execs
<1>5. ASSUME NEW r \in Runs, Pick(r) PROVE Takeovers'
  BY <1>5 DEF Pick, Candidate, Free, At, Goto, rowVars, Execs
<1>6. CASE ResumeEnds
  BY <1>6 DEF ResumeEnds, Kicked, At, rowVars, Execs
<1>7. CASE Clear \/ DrainEnds \/ Check \/ DispatcherRaises
  BY <1>7 DEF Clear, DrainEnds, Check, AfterDrain, DispatcherRaises, At, Goto, rowVars, execVars, Execs
<1>8. ASSUME NEW e \in Execs, Claim(e) PROVE Takeovers'
  BY <1>8 DEF Claim, Claimable, Free, ClaimStatuses, At, Goto, Execs
<1>9. ASSUME NEW e \in Execs, ClaimRefused(e) PROVE Takeovers'
  BY <1>9 DEF ClaimRefused, AfterRefusal, At, Goto, rowVars, execVars, Execs
<1>10. ASSUME NEW e \in Execs, Begin(e) \/ BeginMissed(e) \/ Checkpoint(e) PROVE Takeovers'
  BY <1>10 DEF Begin, Beginnable, ClaimStatuses, BeginMissed, Checkpoint, End, At, Goto, rowVars,
               execVars, Execs
<1>11. ASSUME NEW e \in Execs, ClaimRaises(e) PROVE Takeovers'
  BY <1>11 DEF ClaimRaises, FailRun, Goto, execVars, Execs
<1>12. ASSUME NEW e \in Execs, JobRaises(e) PROVE Takeovers'
  BY <1>12 DEF JobRaises, FailRun, End, Goto, Execs
<1>13. ASSUME NEW e \in Execs, Publish(e) PROVE Takeovers'
  BY <1>13 DEF Publish, At, Goto, execVars, Execs
<1>14. ASSUME NEW e \in Execs, Finalize(e) PROVE Takeovers'
  BY <1>14 DEF Finalize, Completes, End, Goto, Execs
<1>15. ASSUME NEW e \in Execs, FinalizeFails(e) PROVE Takeovers'
  BY <1>15 DEF FinalizeFails, FailRun, End, Goto, Execs
<1>16. ASSUME NEW e \in Execs, FailAgain(e) PROVE Takeovers'
  BY <1>16 DEF FailAgain, End, At, Goto, Execs
<1>17. ASSUME NEW e \in Execs, Release(e) \/ ReleaseRaises(e) PROVE Takeovers'
  BY <1>17 DEF Release, ReleaseRaises, Returned, At, Goto, rowVars, execVars, Execs
<1>18. CASE RecordFailure \/ MarkResumeFailure
  BY <1>18 DEF RecordFailure, MarkResumeFailure, Returned, At, Goto, execVars, Execs
<1>19. ASSUME NEW e \in Execs, Heartbeat(e) PROVE Takeovers'
  BY <1>19 DEF Heartbeat, Execs
<1>20. ASSUME NEW r \in Runs, LeaseExpires(r) PROVE Takeovers'
  BY <1>20 DEF LeaseExpires, Renewed, execVars, Execs
<1>21. CASE Close
  BY <1>21 DEF Close, rowVars, execVars
<1>22. CASE Stop
  BY <1>22 DEF Stop, Execs
<1>23. CASE Start \/ Sweep
  <2>1. UNCHANGED <<owner, leased, run>> /\ pc'[Resumer] = pc[Resumer]
        /\ pc'[Dispatcher] \in {pc[Dispatcher], "clear"}
    BY <1>23, KickedTyped DEF Start, Sweep, execVars
  <2>2. \A r \in Runs : status'[r] = status[r] \/ (status[r] = "running" /\ status'[r] = "interrupted")
    BY <1>23 DEF Start, Sweep, Recovered
  <2> QED
    BY <2>1, <2>2 DEF Execs
<1> QED
  BY <1>1, <1>2, <1>3, <1>4, <1>5, <1>6, <1>7, <1>8, <1>9, <1>10, <1>11, <1>12, <1>13, <1>14,
     <1>15, <1>16, <1>17, <1>18, <1>19, <1>20, <1>21, <1>22, <1>23 DEF Next, Job, Drain

\* A settled status is overwritten by none of the statements that compare it.
LEMMA SettledStep ==
  ASSUME TypeOK, Refails, [Next]_vars, NEW r \in Runs, status[r] \in {"completed", "cancelled"}
  PROVE  status'[r] = status[r]
<1> USE DEF TypeOK, Advancing, Working
<1>1. CASE UNCHANGED vars
  BY <1>1 DEF vars, rowVars
<1>2. ASSUME NEW s \in Runs, \/ Enqueue(s) \/ KickQueue(s) \/ Cancel(s) \/ Resume(s)
                            \/ LeaseExpires(s) \/ Pick(s)
      PROVE  status'[r] = status[r]
  BY <1>2 DEF Enqueue, KickQueue, Cancel, Cancellable, Resume, LeaseExpires, Pick, rowVars
<1>3. ASSUME NEW e \in Execs, \/ Claim(e) \/ ClaimRefused(e) \/ BeginMissed(e) \/ Checkpoint(e)
                             \/ Release(e) \/ ReleaseRaises(e) \/ Heartbeat(e)
      PROVE  status'[r] = status[r]
  BY <1>3 DEF Claim, ClaimRefused, BeginMissed, Checkpoint, Release, ReleaseRaises, Heartbeat, rowVars
<1>4. ASSUME NEW e \in Execs, Begin(e) \/ Publish(e) PROVE status'[r] = status[r]
  BY <1>4 DEF Begin, Beginnable, ClaimStatuses, Publish, At
<1>5. ASSUME NEW e \in Execs, JobRaises(e) \/ ClaimRaises(e) \/ Finalize(e) \/ FinalizeFails(e)
      PROVE  status'[r] = status[r]
  BY <1>5 DEF JobRaises, ClaimRaises, Finalize, FinalizeFails, FailRun, Completes
<1>6. ASSUME NEW e \in Execs, FailAgain(e) PROVE status'[r] = status[r]
  BY <1>6 DEF FailAgain, At, Refails
<1>7. CASE RecordFailure \/ MarkResumeFailure
  BY <1>7 DEF RecordFailure, MarkResumeFailure, At
<1>8. CASE ResumeEnds \/ Clear \/ DrainEnds \/ Check \/ DispatcherRaises \/ Close \/ Stop
  BY <1>8 DEF ResumeEnds, Clear, DrainEnds, Check, DispatcherRaises, Close, Stop, rowVars
<1>9. CASE Start \/ Sweep
  BY <1>9 DEF Start, Sweep, Recovered
<1> QED
  BY <1>1, <1>2, <1>3, <1>4, <1>5, <1>6, <1>7, <1>8, <1>9 DEF Next, Job, Drain

\* A completed or cancelled run stays so, even where two threads work on it: fail_run,
\* complete_run and record_failure look at the status, and update_run_status, which
\* does not, only follows a fail_run that applied to a run nobody can begin again.
THEOREM SettledRunStays ==
  ASSUME ~LeasesLapse
  PROVE  Spec => SettledIsFinal
<1>1. Init => TypeOK /\ Takeovers
  BY InitTyped, MiningAssumption DEF Init, Takeovers, DispatcherOwns, Refails, ResumedWasClaimed,
     ResumeBegins, ResumeWorks, ResumeRefails, Leasing, Working, Execs
<1>2. (TypeOK /\ Takeovers) /\ [Next]_vars => (TypeOK /\ Takeovers)'
  BY StepTyped, StepTakeovers
<1>3. TypeOK /\ Takeovers /\ [Next]_vars =>
        [\A r \in Runs : status[r] \in {"completed", "cancelled"} => status'[r] = status[r]]_vars
  BY SettledStep DEF Takeovers
<1> QED
  BY <1>1, <1>2, <1>3, PTL DEF Spec, SettledIsFinal

-----------------------------------------------------------------------------
(* No run is stranded in the first life of a process, where heartbeats get *)
(* through, nobody cancels and only claims and releases may raise; a claim *)
(* may fall between the end of a job and the record of its failure.        *)

Undisturbed == ~LeasesLapse /\ Cancellers = {} /\ FaultySteps \subseteq {"claim", "release"}

FirstLife == stops = 0 /\ ~closed

Holds(e, r) == run[e] = r /\ owner[r] = e /\ r \in leased

\* Who is at work on a run owns it, or is the resume that a late failure record has
\* overtaken, and then the run is failed.
WorkerOwns ==
  \A e \in Execs : pc[e] \in Leasing =>
    \/ Holds(e, run[e])
    \/ e = Resumer /\ pc[e] # "begin" /\ owner[run[e]] = Nobody /\ status[run[e]] = "failed"

\* A running run is held by a thread past its first phase, a queued run that has
\* an owner by a thread at work.
RunningIsHeld ==
  \A r \in Runs :
    /\ status[r] = "running" => \E e \in Execs : Holds(e, r) /\ pc[e] \in {"work", "publish"}
    /\ status[r] = "queued" /\ owner[r] # Nobody => \E e \in Execs : Holds(e, r) /\ pc[e] \in Working
    /\ status[r] = "absent" => owner[r] = Nobody
    /\ status[r] # "interrupted"

\* A job ends with its run settled, a thread that lost its run does not own it, and
\* the resume route takes no queued run.
JobsSettle ==
  /\ \A e \in Execs :
       /\ pc[e] = "release" /\ owner[run[e]] = e => status[run[e]] \notin Advancing
       /\ pc[e] \in Leasing /\ e \in lost => owner[run[e]] # e
       /\ pc[e] \in Leasing \cup {"claim", "record"} => status[run[e]] # "absent"
  /\ pc[Resumer] \in Leasing \cup {"claim"} => status[run[Resumer]] # "queued"
  /\ Dispatcher \notin resuming

Jobs == WorkerOwns /\ RunningIsHeld /\ JobsSettle

\* Nobody but the drain thread is about to change anything.
Alone == FirstLife /\ pc[Resumer] = "off" /\ kicks = {}

\* The drain thread that nobody has woken will be able to claim what it picked, and
\* ends its drain only when nothing is left.
DrainsAll ==
  /\ Alone /\ ~wakeup /\ pc[Dispatcher] = "claim" => Claimable(Dispatcher, run[Dispatcher])
  /\ Alone /\ (\E r \in Runs : Candidate(r)) =>
       pc[Dispatcher] # "off" /\ (pc[Dispatcher] = "check" => wakeup)

FInv == (FirstLife => up /\ Jobs) /\ DrainsAll

\* A process that is in its first life was so before.
LEMMA LifeEnds == TypeOK /\ FInv /\ [Next]_vars /\ FirstLife' => FirstLife /\ up /\ up'
<1> SUFFICES ASSUME TypeOK, FInv, [Next]_vars, FirstLife' PROVE FirstLife /\ up'
  BY DEF FInv
<1>1. CASE Stop
  BY <1>1 DEF Stop, FirstLife, TypeOK
<1>2. CASE Close
  BY <1>2 DEF Close, FirstLife
<1>3. CASE UNCHANGED <<up, closed, stops>>
  BY <1>3 DEF FInv, FirstLife
<1>4. CASE Start
  BY <1>4, Zenon DEF Start, FirstLife, procVars, boundVars
<1>5. CASE ~Stop /\ ~Close /\ ~Start
  <2> USE DEF procVars, boundVars
  <2>1. CASE UNCHANGED vars \/ \E r \in Runs : Enqueue(r) \/ KickQueue(r) \/ Cancel(r) \/ Resume(r) \/ LeaseExpires(r)
    BY <2>1, <1>3 DEF vars, Enqueue, KickQueue, Cancel, Resume, LeaseExpires
  <2>2. ASSUME NEW e \in Execs, Claim(e) \/ ClaimRefused(e) \/ Begin(e) \/ BeginMissed(e) \/ Checkpoint(e)
        PROVE  UNCHANGED <<up, closed, stops>>
    BY <2>2 DEF Claim, ClaimRefused, Begin, BeginMissed, Checkpoint
  <2>3. ASSUME NEW e \in Execs, JobRaises(e) \/ Publish(e) \/ Finalize(e) \/ FinalizeFails(e) \/ FailAgain(e)
        PROVE  UNCHANGED <<up, closed, stops>>
    BY <2>3 DEF JobRaises, Publish, Finalize, FinalizeFails, FailAgain
  <2>4. ASSUME NEW e \in Execs, Release(e) \/ ClaimRaises(e) \/ ReleaseRaises(e) \/ Heartbeat(e)
        PROVE  UNCHANGED <<up, closed, stops>>
    BY <2>4 DEF Release, ClaimRaises, ReleaseRaises, Heartbeat
  <2>5. CASE Drain \/ DispatcherRaises \/ ResumeEnds \/ MarkResumeFailure
    BY <2>5, <1>3 DEF Drain, Clear, Pick, DrainEnds, Check, RecordFailure, DispatcherRaises, ResumeEnds,
                      MarkResumeFailure
  <2>6. CASE Sweep
    BY <2>6, <1>3 DEF Sweep
  <2> QED
    BY <1>3, <1>5, <2>1, <2>2, <2>3, <2>4, <2>5, <2>6 DEF Next, Job
<1> QED
  BY <1>1, <1>2, <1>4, <1>5

\* No thread is called nobody.
LEMMA NobodyApart == Nobody \notin Execs /\ Dispatcher \in Execs /\ Resumer \in Execs
  BY MiningAssumption DEF Execs

\* A step of a thread at work that settles its run, or advances it while it owns it.
Works(e) ==
  LET r == run[e] IN
  /\ pc[e] \in Working /\ pc'[e] \in Leasing \ {"begin"}
  /\ pc' \in [Execs -> Steps] /\ \A o \in Execs \ {e} : pc'[o] = pc[o]
  /\ UNCHANGED <<owner, leased, run, lost, resuming>>
  /\ \A s \in Runs \ {r} : status'[s] = status[s]
  /\ status[r] = "failed" /\ pc[e] # "begin" => status'[r] = "failed"
  /\ status'[r] \in {status[r], "running", "failed", "completed"}
  /\ status'[r] = "running" => Holds(e, r) /\ pc'[e] \in {"work", "publish"}
  /\ status'[r] = "queued" => ~Holds(e, r) /\ status[r] = "queued"
  /\ pc'[e] = "release" /\ owner[r] = e => status'[r] \notin Advancing

\* Such a step keeps what is true of jobs.
LEMMA WorksKeeps ==
  ASSUME TypeOK, Jobs, NEW e \in Execs, Works(e)
  PROVE  Jobs'
<1> USE MiningAssumption
<1> DEFINE r == run[e]
<1>1. r \in Runs
  BY DEF Works, TypeOK, Working
<1>2. \A o \in Execs : o # e => pc'[o] = pc[o] /\ run'[o] = run[o]
  BY DEF Works
<1>3. ASSUME NEW o \in Execs, o # e, pc[o] \in Leasing, run[o] = r
      PROVE  Holds(o, r) /\ status[r] = "failed" /\ pc[e] # "begin"
  <2>1. pc[e] \in Leasing /\ Nobody \notin Execs
    BY DEF Works, Leasing
  <2>2. \/ Holds(e, r)
        \/ e = Resumer /\ pc[e] # "begin" /\ owner[r] = Nobody /\ status[r] = "failed"
    BY <2>1 DEF Jobs, WorkerOwns
  <2>3. Holds(o, r) \/ (o = Resumer /\ owner[r] = Nobody)
    BY <1>3 DEF Jobs, WorkerOwns
  <2> QED
    BY <1>3, <2>1, <2>2, <2>3 DEF Holds
<1>4. WorkerOwns'
  <2> SUFFICES ASSUME NEW o \in Execs, pc'[o] \in Leasing
               PROVE  \/ Holds(o, run[o])'
                      \/ (o = Resumer /\ pc'[o] # "begin" /\ owner'[run'[o]] = Nobody
                          /\ status'[run'[o]] = "failed")
    BY DEF WorkerOwns
  <2>1. CASE o = e
    BY <2>1 DEF Jobs, WorkerOwns, Holds, Works, Leasing
  <2>2. CASE o # e
    <3>1. pc[o] \in Leasing /\ run[o] \in Runs
      BY <2>2, <1>2 DEF TypeOK, Leasing
    <3>2. \/ Holds(o, run[o])
          \/ o = Resumer /\ pc[o] # "begin" /\ owner[run[o]] = Nobody /\ status[run[o]] = "failed"
      BY <3>1 DEF Jobs, WorkerOwns
    <3>3. run[o] # r => status'[run[o]] = status[run[o]]
      BY <3>1 DEF Works
    <3>4. run[o] = r => Holds(o, r)
      BY <1>3, <2>2, <3>1
    <3>5. UNCHANGED <<owner, leased, run>> /\ pc'[o] = pc[o]
      BY <2>2 DEF Works
    <3> QED
      BY <3>2, <3>3, <3>4, <3>5 DEF Holds
  <2> QED
    BY <2>1, <2>2
<1>5. RunningIsHeld'
  <2> SUFFICES ASSUME NEW s \in Runs
               PROVE  /\ status'[s] = "running" =>
                           \E o \in Execs : Holds(o, s)' /\ pc'[o] \in {"work", "publish"}
                      /\ status'[s] = "queued" /\ owner'[s] # Nobody =>
                           \E o \in Execs : Holds(o, s)' /\ pc'[o] \in Working
                      /\ status'[s] = "absent" => owner'[s] = Nobody
                      /\ status'[s] # "interrupted"
    BY DEF RunningIsHeld
  <2>1. \A o \in Execs : Holds(o, s) => Holds(o, s)'
    BY DEF Holds, Works
  <2>2. CASE s = r
    <3>1. status'[s] = "queued" /\ owner'[s] # Nobody =>
            \E o \in Execs : Holds(o, s)' /\ pc'[o] \in Working
      BY <2>1, <2>2, <1>2, <1>1 DEF Jobs, RunningIsHeld, Works
    <3> QED
      BY <2>1, <2>2, <3>1, <1>1 DEF Jobs, RunningIsHeld, Works
  <2>3. CASE s # r
    <3>1. \A o \in Execs : Holds(o, s) => o # e
      BY <2>3 DEF Holds
    <3>2. status'[s] = status[s] /\ owner'[s] = owner[s]
      BY <2>3 DEF Works
    <3> QED
      BY <2>1, <3>1, <3>2, <1>2 DEF Jobs, RunningIsHeld
  <2> QED
    BY <2>2, <2>3
<1>6. JobsSettle'
  <2>1. \A o \in Execs : o # e /\ pc[o] \in Leasing \cup {"claim", "record"} =>
          /\ run[o] \in Runs
          /\ status'[run[o]] # status[run[o]] => run[o] = r
    BY DEF Works, TypeOK, Leasing
  <2>2. ASSUME NEW o \in Execs
        PROVE  /\ pc'[o] = "release" /\ owner'[run'[o]] = o => status'[run'[o]] \notin Advancing
               /\ pc'[o] \in Leasing /\ o \in lost' => owner'[run'[o]] # o
               /\ pc'[o] \in Leasing \cup {"claim", "record"} => status'[run'[o]] # "absent"
    <3>1. CASE o = e
      BY <3>1 DEF Jobs, JobsSettle, Works, Leasing
    <3>2. CASE o # e
      <4>1. UNCHANGED <<owner, run, lost>> /\ pc'[o] = pc[o]
        BY <3>2 DEF Works
      <4>2. pc[o] \in Leasing /\ run[o] = r => status'[r] = "failed"
        BY <3>2, <1>3 DEF Works
      <4>3. pc[o] \in Leasing \cup {"claim", "record"} => status'[run[o]] # "absent"
        BY <3>2, <2>1, <1>1 DEF Jobs, JobsSettle, Works, Leasing
      <4>4. pc[o] = "release" /\ owner[run[o]] = o => status'[run[o]] \notin Advancing
        BY <2>1, <3>2, <4>2 DEF Jobs, JobsSettle, Leasing, Advancing
      <4> QED
        BY <4>1, <4>3, <4>4 DEF Jobs, JobsSettle
    <3> QED
      BY <3>1, <3>2
  <2>3. pc'[Resumer] \in Leasing \cup {"claim"} => status'[run'[Resumer]] # "queued"
    BY <2>1 DEF Jobs, JobsSettle, Works, Execs, Leasing
  <2> QED
    BY <2>2, <2>3 DEF Jobs, JobsSettle, Works
<1> QED
  BY <1>4, <1>5, <1>6 DEF Jobs

\* The steps of a job, from its first phase to its end, are such steps.
LEMMA JobWorks ==
  ASSUME TypeOK, Jobs, NEW e \in Execs,
         \/ Begin(e) \/ BeginMissed(e) \/ Checkpoint(e) \/ JobRaises(e) \/ Publish(e)
         \/ Finalize(e) \/ FinalizeFails(e) \/ FailAgain(e)
  PROVE  Works(e)
<1> USE MiningAssumption DEF execVars, rowVars
<1> DEFINE r == run[e]
<1>1. pc[e] \in Working /\ r \in Runs /\ pc[e] \in Leasing
  BY DEF Begin, BeginMissed, Checkpoint, JobRaises, Publish, Finalize, FinalizeFails, FailAgain, At,
         Working, Leasing, TypeOK
<1>2. \/ Holds(e, r)
      \/ e = Resumer /\ pc[e] # "begin" /\ owner[r] = Nobody /\ status[r] = "failed"
  BY <1>1 DEF Jobs, WorkerOwns
<1>3. pc' \in [Execs -> Steps] /\ \A o \in Execs \ {e} : pc'[o] = pc[o]
  BY DEF Begin, BeginMissed, Checkpoint, JobRaises, Publish, Finalize, FinalizeFails, FailAgain, End,
         Goto, TypeOK, Steps
<1>4. pc'[e] \in Leasing \ {"begin"}
  BY DEF Begin, BeginMissed, Checkpoint, JobRaises, Publish, Finalize, FinalizeFails, FailAgain, End,
         Goto, TypeOK, Working, Leasing
<1>5. UNCHANGED <<owner, leased, run, lost, resuming>>
  BY DEF Begin, BeginMissed, Checkpoint, JobRaises, Publish, Finalize, FinalizeFails, FailAgain
<1>6. /\ \A s \in Runs \ {r} : status'[s] = status[s]
      /\ status[r] = "failed" /\ pc[e] # "begin" => status'[r] = "failed"
      /\ status'[r] \in {status[r], "running", "failed", "completed"}
  BY <1>1 DEF Begin, BeginMissed, Checkpoint, JobRaises, Publish, Finalize, FinalizeFails, FailAgain,
         FailRun, Completes, At, TypeOK, Advancing
<1>7. status[r] # "interrupted" /\ Dispatcher \notin resuming
  BY <1>1 DEF Jobs, RunningIsHeld, JobsSettle
<1>8. status[r] = "queued" => e = Dispatcher
  BY <1>1 DEF Jobs, JobsSettle, Execs, Leasing
<1>9. CASE Begin(e)
  BY <1>1, <1>2, <1>3, <1>4, <1>5, <1>6, <1>9 DEF Begin, At, Goto, TypeOK, Works
<1>10. CASE BeginMissed(e)
  <2>1. /\ pc[e] = "begin" /\ status' = status /\ status[r] \notin {"running", "queued"}
        /\ status'[r] \notin Advancing
    BY <1>1, <1>7, <1>8, <1>10 DEF BeginMissed, Beginnable, ClaimStatuses, Advancing, At
  <2> QED
    BY <1>1, <1>2, <1>3, <1>4, <1>5, <1>6, <2>1 DEF Works
<1>11. CASE Checkpoint(e)
  <2>1. status' = status /\ pc'[e] = "release"
    BY <1>11 DEF Checkpoint, End, Goto, TypeOK
  <2>2. Holds(e, r) => status[r] = "cancelled"
    BY <1>1, <1>11 DEF Checkpoint, Jobs, JobsSettle, Holds
  <2>3. status'[r] \notin Advancing
    BY <1>2, <2>1, <2>2 DEF Advancing
  <2> QED
    BY <1>1, <1>3, <1>4, <1>5, <1>6, <2>3 DEF Works, Advancing
<1>12. CASE Publish(e)
  <2>1. Holds(e, r) /\ pc'[e] = "publish" /\ status'[r] = "running"
    BY <1>1, <1>2, <1>12 DEF Publish, Goto, TypeOK, Advancing
  <2> QED
    BY <1>1, <1>3, <1>4, <1>5, <1>6, <2>1 DEF Works
<1>13. CASE JobRaises(e) \/ Finalize(e) \/ FinalizeFails(e) \/ FailAgain(e)
  <2>1. status'[r] \notin Advancing
    BY <1>1, <1>13 DEF JobRaises, Finalize, FinalizeFails, FailAgain, FailRun, Completes, TypeOK, Advancing
  <2> QED
    BY <1>1, <1>3, <1>4, <1>5, <1>6, <2>1 DEF Works, Advancing
<1> QED
  BY <1>9, <1>10, <1>11, <1>12, <1>13

\* A step that touches no row and brings no thread to a claim or into a job.
Passes ==
  /\ UNCHANGED <<status, owner, leased>>
  /\ Dispatcher \in resuming' => Dispatcher \in resuming
  /\ lost' = lost
  /\ \A e \in Execs : \/ pc'[e] = pc[e] /\ run'[e] = run[e]
                      \/ /\ pc[e] \notin Leasing
                         /\ pc'[e] \notin Leasing \cup {"claim", "record"}

\* It keeps what is true of jobs.
LEMMA PassesKeeps ==
  ASSUME Jobs, Passes
  PROVE  Jobs'
<1>1. WorkerOwns'
  BY DEF Jobs, WorkerOwns, Holds, Passes, Leasing
<1>2. RunningIsHeld'
  BY DEF Jobs, RunningIsHeld, Holds, Passes, Leasing, Working
<1>3. JobsSettle'
  BY MiningAssumption DEF Jobs, JobsSettle, Passes, Leasing, Execs
<1> QED
  BY <1>1, <1>2, <1>3 DEF Jobs

\* A thread that ends its job gives the lease back, or fails to.
Ends(e) ==
  LET r == run[e] IN
  /\ pc[e] = "release" /\ pc'[e] \in {"pick", "kick", "record"}
  /\ \A o \in Execs \ {e} : pc'[o] = pc[o]
  /\ UNCHANGED <<status, run, lost, resuming>>
  /\ \A s \in Runs : s # r \/ owner[s] # e => owner'[s] = owner[s] /\ (s \in leased => s \in leased')
  /\ owner'[r] \in {owner[r], Nobody}

\* That keeps what is true of jobs.
LEMMA EndsKeeps ==
  ASSUME TypeOK, Jobs, NEW e \in Execs, Ends(e)
  PROVE  Jobs'
<1> USE MiningAssumption
<1>1. run[e] \in Runs /\ pc'[e] \notin Leasing \cup {"claim"} /\ Nobody \notin Execs
  BY DEF Ends, TypeOK, Leasing, Working
<1>2. ASSUME NEW o \in Execs, o # e, NEW s \in Runs, Holds(o, s) PROVE Holds(o, s)'
  BY <1>2 DEF Ends, Holds
<1>3. \A s \in Runs : owner[s] = Nobody => owner'[s] = Nobody
  BY <1>1 DEF Ends
<1>4. WorkerOwns'
  <2> SUFFICES ASSUME NEW o \in Execs, pc'[o] \in Leasing
               PROVE  \/ Holds(o, run[o])'
                      \/ (o = Resumer /\ pc'[o] # "begin" /\ owner'[run'[o]] = Nobody
                          /\ status'[run'[o]] = "failed")
    BY DEF WorkerOwns
  <2>1. o # e /\ pc'[o] = pc[o] /\ run'[o] = run[o] /\ status' = status
    BY <1>1 DEF Ends
  <2>2. run[o] \in Runs
    BY <2>1 DEF TypeOK, Leasing
  <2>3. Holds(o, run[o]) => Holds(o, run[o])'
    BY <1>2, <2>1, <2>2 DEF Holds
  <2> QED
    BY <1>3, <2>1, <2>2, <2>3 DEF Jobs, WorkerOwns
<1>5. RunningIsHeld'
  <2>1. \A o \in Execs : pc[o] \in Working => o # e /\ pc'[o] = pc[o]
    BY DEF Ends, Working
  <2>2. \A s \in Runs : owner'[s] # Nobody => owner[s] # Nobody
    BY <1>3
  <2>3. status' = status
    BY DEF Ends
  <2> QED
    BY <1>2, <1>3, <2>1, <2>2, <2>3 DEF Jobs, RunningIsHeld, Working
<1>6. JobsSettle'
  <2>1. \A o \in Execs : pc'[o] \in Leasing => o # e /\ pc'[o] = pc[o] /\ run[o] \in Runs
    BY <1>1 DEF Ends, TypeOK, Leasing
  <2>2. \A o \in Execs, s \in Runs : owner'[s] = o => owner[s] = o
    BY <1>1 DEF Ends
  <2>3. \A o \in Execs : pc'[o] \in Leasing \cup {"claim", "record"} =>
                           pc[o] \in Leasing \cup {"claim", "record"}
    BY DEF Ends, Leasing
  <2>4. pc'[Resumer] \in Leasing \cup {"claim"} => pc[Resumer] \in Leasing \cup {"claim"}
    BY <1>1 DEF Ends, Execs
  <2> QED
    BY <2>1, <2>2, <2>3, <2>4 DEF Jobs, JobsSettle, Ends, Leasing
<1> QED
  BY <1>4, <1>5, <1>6 DEF Jobs

\* A thread that is not at work marks its run failed; the queue's failure record
\* also takes the lease away.
Overtakes(e) ==
  LET r == run[e] IN
  /\ pc[e] \in {"claim", "record"} /\ pc'[e] \in {"record", "pick", "kick"}
  /\ \A o \in Execs \ {e} : pc'[o] = pc[o]
  /\ UNCHANGED <<run, lost, resuming>>
  /\ \A s \in Runs \ {r} : status'[s] = status[s] /\ owner'[s] = owner[s] /\ (s \in leased => s \in leased')
  /\ status'[r] \in {status[r], "failed"}
  /\ \/ owner'[r] = owner[r] /\ (r \in leased => r \in leased')
     \/ /\ e = Dispatcher /\ owner'[r] = Nobody
        /\ status[r] \in {"queued", "running"} /\ status'[r] = "failed"

\* That keeps what is true of jobs: the resume it may overtake is past its first phase.
LEMMA OvertakesKeeps ==
  ASSUME TypeOK, Jobs, NEW e \in Execs, Overtakes(e)
  PROVE  Jobs'
<1> USE MiningAssumption
<1> DEFINE r == run[e]
<1>1. /\ r \in Runs /\ Nobody \notin Execs
      /\ pc[e] \notin Leasing /\ pc'[e] \notin Leasing \cup {"claim"}
  BY DEF Overtakes, TypeOK, Leasing, Working
<1>2. \A s \in Runs : owner'[s] = owner[s] \/ owner'[s] = Nobody
  BY DEF Overtakes
<1>3. ASSUME NEW s \in Runs, status'[s] # "failed"
      PROVE  status'[s] = status[s] /\ owner'[s] = owner[s] /\ (s \in leased => s \in leased')
  BY <1>3 DEF Overtakes
<1>4. \A o \in Execs : pc[o] \in Leasing => o # e /\ pc'[o] = pc[o] /\ run[o] \in Runs
  BY <1>1 DEF Overtakes, TypeOK, Leasing
<1>5. \A o \in Execs : pc'[o] \in Leasing => pc[o] \in Leasing
  BY <1>1 DEF Overtakes
<1>6. WorkerOwns'
  <2> SUFFICES ASSUME NEW o \in Execs, pc'[o] \in Leasing
               PROVE  \/ Holds(o, run[o])'
                      \/ (o = Resumer /\ pc'[o] # "begin" /\ owner'[run'[o]] = Nobody
                          /\ status'[run'[o]] = "failed")
    BY DEF WorkerOwns
  <2>1. /\ o # e /\ pc'[o] = pc[o] /\ pc[o] \in Leasing /\ run[o] \in Runs /\ run'[o] = run[o]
        /\ \/ Holds(o, run[o])
           \/ o = Resumer /\ pc[o] # "begin" /\ owner[run[o]] = Nobody /\ status[run[o]] = "failed"
    BY <1>4, <1>5 DEF Overtakes, Jobs, WorkerOwns
  <2>2. CASE owner'[run[o]] = owner[run[o]] /\ (run[o] \in leased => run[o] \in leased')
    <3>1. status[run[o]] = "failed" => status'[run[o]] = "failed"
      BY <2>1 DEF Overtakes
    <3> QED
      BY <2>1, <2>2, <3>1 DEF Holds
  <2>3. CASE ~(owner'[run[o]] = owner[run[o]] /\ (run[o] \in leased => run[o] \in leased'))
    <3>1. /\ run[o] = r /\ e = Dispatcher /\ owner'[r] = Nobody
          /\ status[r] \in {"queued", "running"} /\ status'[r] = "failed"
      BY <2>1, <2>3 DEF Overtakes
    <3>2. o = Resumer /\ Holds(o, r) /\ status[r] = "running"
      BY <2>1, <3>1 DEF Jobs, JobsSettle, Execs
    <3>3. pc[o] # "begin"
      BY <1>1, <3>2 DEF Jobs, RunningIsHeld, Holds
    <3> QED
      BY <2>1, <3>1, <3>2, <3>3
  <2> QED
    BY <2>2, <2>3
<1>7. RunningIsHeld'
  <2>1. \A o \in Execs, s \in Runs : Holds(o, s) /\ status'[s] # "failed" => Holds(o, s)'
    BY <1>3 DEF Holds, Overtakes
  <2>2. \A o \in Execs : pc[o] \in Working => pc'[o] = pc[o]
    BY <1>4 DEF Leasing
  <2> QED
    BY <1>3, <2>1, <2>2 DEF Jobs, RunningIsHeld, Working
<1>8. JobsSettle'
  <2>1. \A o \in Execs, s \in Runs : owner'[s] = o => owner[s] = o
    BY <1>1, <1>2
  <2>2. \A s \in Runs : status'[s] = status[s] \/ status'[s] = "failed"
    BY DEF Overtakes
  <2>3. \A o \in Execs : pc'[o] \in Leasing \cup {"claim", "record"} =>
                           /\ pc[o] \in Leasing \cup {"claim", "record"} /\ run[o] \in Runs
    BY <1>4, <1>5 DEF Overtakes, TypeOK, Leasing
  <2>4. pc'[Resumer] \in Leasing \cup {"claim"} => pc[Resumer] \in Leasing \cup {"claim"}
    BY <1>1 DEF Overtakes, Execs
  <2>5. run' = run /\ lost' = lost /\ resuming' = resuming /\ Resumer \in Execs
    BY DEF Overtakes, Execs
  <2> QED
    BY <1>4, <1>5, <2>1, <2>2, <2>3, <2>4, <2>5 DEF Jobs, JobsSettle, Leasing, Advancing
<1> QED
  BY <1>6, <1>7, <1>8 DEF Jobs

\* In its first life every step of the process keeps what is true of jobs: a claim
\* finds the run unheld, and a late failure record leaves a failed run behind.
LEMMA StepJobs ==
  ASSUME Undisturbed, TypeOK, Jobs, up, FirstLife', [Next]_vars, stops = 0
  PROVE  Jobs'
<1> USE MiningAssumption DEF execVars, rowVars
<1>1. CASE UNCHANGED vars
  BY <1>1, PassesKeeps DEF vars, Passes
<1>2. ASSUME NEW r \in Runs, KickQueue(r) PROVE Jobs'
  <2>1. \A e \in Execs : pc'[e] = pc[e] \/ (pc[e] = "off" /\ pc'[e] = "clear")
    BY <1>2, KickedTyped DEF KickQueue, TypeOK, Execs
  <2>2. Passes
    BY <1>2, <2>1 DEF KickQueue, Passes, Leasing, Working
  <2> QED
    BY <2>2, PassesKeeps
<1>3. CASE ResumeEnds
  <2> DEFINE f == [pc EXCEPT ![Resumer] = "off"]
  <2>1. f \in [Execs -> Steps] /\ f[Resumer] = "off" /\ f[Dispatcher] = pc[Dispatcher]
    BY DEF TypeOK, Execs, Steps
  <2>2. Kicked(f) /\ run'[Dispatcher] = run[Dispatcher] /\ pc[Resumer] = "kick"
    BY <1>3 DEF ResumeEnds, TypeOK, Execs, At
  <2>3. /\ pc'[Resumer] = "off"
        /\ pc'[Dispatcher] = pc[Dispatcher] \/ (pc[Dispatcher] = "off" /\ pc'[Dispatcher] = "clear")
    BY <2>1, <2>2, KickedTyped
  <2>4. Passes
    BY <1>3, <2>2, <2>3 DEF ResumeEnds, Passes, Execs, Leasing, Working
  <2> QED
    BY <2>4, PassesKeeps
<1>4. CASE Clear \/ DrainEnds \/ Check
  <2>1. Passes
    BY <1>4 DEF Clear, DrainEnds, Check, AfterDrain, At, Goto, TypeOK, Passes, Execs, Leasing, Working
  <2> QED
    BY <2>1, PassesKeeps
<1>5. ASSUME NEW e \in Execs, ClaimRefused(e) PROVE Jobs'
  <2>1. Passes
    BY <1>5 DEF ClaimRefused, AfterRefusal, At, Goto, TypeOK, Passes, Leasing, Working
  <2> QED
    BY <2>1, PassesKeeps
<1>6. CASE DispatcherRaises \/ (\E r \in Runs : Cancel(r)) \/ Close \/ Stop \/ Start
  <2>1. ~Close /\ ~Start
    BY DEF Close, Start, FirstLife
  <2>2. ~DispatcherRaises /\ \A r \in Runs : ~Cancel(r)
    BY DEF DispatcherRaises, Fault, Cancel, Undisturbed
  <2>3. ~Stop
    BY DEF Stop, FirstLife
  <2> QED
    BY <1>6, <2>1, <2>2, <2>3
<1>7. ASSUME NEW r \in Runs, Enqueue(r) PROVE Jobs'
  <2>1. /\ status[r] = "absent" /\ status' = [status EXCEPT ![r] = "queued"] /\ owner[r] = Nobody
        /\ UNCHANGED <<owner, leased, pc, run, lost, resuming>>
    BY <1>7 DEF Enqueue, Jobs, RunningIsHeld
  <2>2. \A e \in Execs : pc[e] \in Leasing \cup {"claim", "record"} => run[e] # r
    BY <2>1 DEF Jobs, JobsSettle
  <2>3. WorkerOwns' /\ RunningIsHeld'
    BY <2>1, <2>2 DEF TypeOK, Jobs, WorkerOwns, RunningIsHeld, Holds
  <2>4. JobsSettle'
    BY <2>1, <2>2 DEF TypeOK, Jobs, JobsSettle, Leasing, Execs
  <2> QED
    BY <2>3, <2>4 DEF Jobs
<1>8. ASSUME NEW r \in Runs, Resume(r) PROVE Jobs'
  <2>1. /\ pc[Resumer] = "off" /\ status[r] \in {"failed", "running"}
        /\ pc' = [pc EXCEPT ![Resumer] = "claim"] /\ run' = [run EXCEPT ![Resumer] = r]
        /\ UNCHANGED <<status, owner, leased, lost>>
        /\ Dispatcher \in resuming' => Dispatcher \in resuming
    BY <1>8 DEF Resume, At, Goto, Jobs, RunningIsHeld
  <2>2. \A e \in Execs : e # Resumer => pc'[e] = pc[e] /\ run'[e] = run[e]
    BY <2>1 DEF TypeOK
  <2>3. pc'[Resumer] = "claim" /\ run'[Resumer] = r
    BY <2>1 DEF TypeOK, Execs
  <2>4. WorkerOwns' /\ RunningIsHeld'
    BY <2>1, <2>2, <2>3 DEF Jobs, WorkerOwns, RunningIsHeld, Holds, Leasing, Working
  <2>5. JobsSettle'
    BY <2>1, <2>2, <2>3 DEF Jobs, JobsSettle, Leasing, Working
  <2> QED
    BY <2>4, <2>5 DEF Jobs
<1>9. ASSUME NEW r \in Runs, LeaseExpires(r) PROVE Jobs'
  <2>1. UNCHANGED <<status, owner, pc, run, lost, resuming>> /\ leased' = leased \ {r}
    BY <1>9 DEF LeaseExpires
  <2>2. \A e \in Execs : Holds(e, r) => pc[e] \notin Leasing
    BY <1>9 DEF LeaseExpires, Renewed, Undisturbed, Holds, Leasing
  <2>3. WorkerOwns'
    BY <2>1, <2>2 DEF Jobs, WorkerOwns, Holds
  <2>4. RunningIsHeld'
    BY <2>1, <2>2 DEF Jobs, RunningIsHeld, Holds, Leasing, Working
  <2> QED
    BY <2>1, <2>3, <2>4 DEF Jobs, JobsSettle
<1>10. ASSUME NEW r \in Runs, Pick(r) PROVE Jobs'
  <2>1. /\ pc[Dispatcher] = "pick" /\ status[r] = "queued"
        /\ pc' = [pc EXCEPT ![Dispatcher] = "claim"] /\ run' = [run EXCEPT ![Dispatcher] = r]
        /\ UNCHANGED <<status, owner, leased, lost>> /\ Dispatcher \notin resuming'
    BY <1>10 DEF Pick, At, Goto, Candidate, Jobs, RunningIsHeld
  <2>2. \A e \in Execs : e # Dispatcher => pc'[e] = pc[e] /\ run'[e] = run[e]
    BY <2>1 DEF TypeOK
  <2>3. pc'[Dispatcher] = "claim" /\ run'[Dispatcher] = r
    BY <2>1 DEF TypeOK, Execs
  <2>4. WorkerOwns' /\ RunningIsHeld'
    BY <2>1, <2>2, <2>3 DEF Jobs, WorkerOwns, RunningIsHeld, Holds, Leasing, Working
  <2>5. JobsSettle'
    BY <2>1, <2>2, <2>3 DEF Jobs, JobsSettle, Leasing, Working, Execs
  <2> QED
    BY <2>4, <2>5 DEF Jobs
<1>11. ASSUME NEW e \in Execs, Claim(e) PROVE Jobs'
  <2> DEFINE r == run[e]
  <2>1. /\ pc[e] = "claim" /\ r \in Runs /\ Free(r) /\ status[r] \in ClaimStatuses(e)
        /\ pc' = [pc EXCEPT ![e] = "begin"] /\ owner' = [owner EXCEPT ![r] = e]
        /\ leased' = leased \cup {r} /\ lost' = lost \ {e} /\ UNCHANGED <<status, run, resuming>>
    BY <1>11 DEF Claim, Claimable, At, Goto, TypeOK
  <2>2. status[r] # "running" /\ (e = Dispatcher => status[r] = "queued")
    <3>1. status[r] # "running"
      BY <2>1, NobodyApart DEF Free, Holds, Jobs, RunningIsHeld
    <3> QED
      BY <2>1, <3>1 DEF ClaimStatuses, Advancing, Jobs, JobsSettle
  <2>3. ASSUME NEW o \in Execs, o # e, pc[o] \in Leasing PROVE run[o] # r
    <3>1. ~Holds(o, r)
      BY <2>1 DEF Free, Holds, Execs
    <3>2. CASE Holds(o, run[o])
      BY <3>1, <3>2
    <3>3. CASE o = Resumer /\ status[run[o]] = "failed"
      BY <2>2, <2>3, <3>3 DEF Execs
    <3> QED
      BY <2>3, <3>2, <3>3 DEF Jobs, WorkerOwns
  <2>4. /\ \A o \in Execs : o # e => pc'[o] = pc[o]
        /\ pc'[e] = "begin" /\ owner'[r] = e /\ r \in leased' /\ e \notin lost'
        /\ \A s \in Runs : s # r => owner'[s] = owner[s]
        /\ leased \subseteq leased' /\ lost' \subseteq lost
    BY <2>1 DEF TypeOK
  <2>5. WorkerOwns'
    BY <2>1, <2>3, <2>4 DEF TypeOK, Jobs, WorkerOwns, Holds, Leasing
  <2>6. RunningIsHeld'
    <3> SUFFICES ASSUME NEW s \in Runs
                 PROVE  /\ status[s] = "running" =>
                             \E o \in Execs : Holds(o, s)' /\ pc'[o] \in {"work", "publish"}
                        /\ status[s] = "queued" /\ owner'[s] # Nobody =>
                             \E o \in Execs : Holds(o, s)' /\ pc'[o] \in Working
                        /\ status[s] = "absent" => owner'[s] = Nobody
                        /\ status[s] # "interrupted"
      BY <2>1 DEF RunningIsHeld
    <3>1. CASE s = r
      <4>1. Holds(e, s)' /\ pc'[e] \in Working /\ status[s] # "absent"
        BY <2>1, <2>4, <3>1 DEF Holds, Working, ClaimStatuses, Advancing
      <4> QED
        BY <2>2, <3>1, <4>1 DEF Jobs, RunningIsHeld
    <3>2. CASE s # r
      <4>1. \A o \in Execs : Holds(o, s) => o # e /\ Holds(o, s)'
        BY <2>1, <2>4, <3>2 DEF Holds
      <4> QED
        BY <2>4, <3>2, <4>1 DEF Jobs, RunningIsHeld
    <3> QED
      BY <3>1, <3>2
  <2>7. JobsSettle'
    <3>1. \A o \in Execs : /\ pc'[o] \in Leasing /\ o # e => run[o] # r /\ run[o] \in Runs
                           /\ pc'[o] \in Leasing \cup {"claim", "record"} =>
                                o = e \/ pc[o] \in Leasing \cup {"claim", "record"}
      BY <2>3, <2>4 DEF TypeOK, Leasing
    <3>2. status[r] # "absent" /\ (e = Resumer => status[r] # "queued")
      BY <2>1 DEF Jobs, JobsSettle, ClaimStatuses, Advancing, Execs
    <3>3. pc'[Resumer] \in Leasing \cup {"claim"} => status[run[Resumer]] # "queued"
      BY <2>4, <3>2 DEF Jobs, JobsSettle, Execs
    <3> QED
      BY <2>1, <2>4, <3>1, <3>2, <3>3 DEF Jobs, JobsSettle, Leasing, Working
  <2> QED
    BY <2>5, <2>6, <2>7 DEF Jobs
<1>12. ASSUME NEW e \in Execs,
              \/ Begin(e) \/ BeginMissed(e) \/ Checkpoint(e) \/ JobRaises(e) \/ Publish(e)
              \/ Finalize(e) \/ FinalizeFails(e) \/ FailAgain(e)
       PROVE  Jobs'
  BY <1>12, JobWorks, WorksKeeps
<1>13. ASSUME NEW e \in Execs, Release(e) \/ ReleaseRaises(e) PROVE Jobs'
  <2>1. pc[e] = "release" /\ run[e] \in Runs
    BY <1>13 DEF Release, ReleaseRaises, At, Fault, TypeOK
  <2>2. pc'[e] \in {"pick", "kick", "record"} /\ \A o \in Execs \ {e} : pc'[o] = pc[o]
    BY <1>13 DEF Release, ReleaseRaises, Returned, Goto, TypeOK
  <2>3. Ends(e)
    BY <1>13, <2>1, <2>2 DEF Release, ReleaseRaises, TypeOK, Ends
  <2> QED
    BY <2>3, EndsKeeps
<1>14. ASSUME NEW e \in Execs, ClaimRaises(e) PROVE Jobs'
  <2>1. Overtakes(e)
    BY <1>14 DEF ClaimRaises, FailRun, Goto, TypeOK, Overtakes
  <2> QED
    BY <2>1, OvertakesKeeps
<1>15. CASE RecordFailure
  <2>1. /\ pc[Dispatcher] = "record" /\ run[Dispatcher] \in Runs /\ Dispatcher \in Execs
        /\ status[run[Dispatcher]] # "interrupted"
    BY <1>15 DEF RecordFailure, At, TypeOK, Execs, Jobs, RunningIsHeld
  <2>2. Overtakes(Dispatcher)
    BY <1>15, <2>1 DEF RecordFailure, Returned, Goto, TypeOK, Overtakes
  <2> QED
    BY <2>1, <2>2, OvertakesKeeps
<1>16. CASE MarkResumeFailure
  <2>1. Resumer \in Execs
    BY DEF Execs
  <2>2. Overtakes(Resumer)
    BY <1>16, <2>1 DEF MarkResumeFailure, Returned, At, Goto, TypeOK, Overtakes
  <2> QED
    BY <2>1, <2>2, OvertakesKeeps
<1>17. ASSUME NEW e \in Execs, Heartbeat(e) PROVE Jobs'
  <2>1. /\ UNCHANGED <<status, owner, pc, run, resuming>> /\ leased \subseteq leased'
        /\ \A o \in Execs : o \in lost' /\ o \notin lost => owner[run[o]] # o
    BY <1>17 DEF Heartbeat
  <2> QED
    BY <2>1 DEF Jobs, WorkerOwns, RunningIsHeld, JobsSettle, Holds
<1>18. CASE Sweep
  <2>1. \A r \in Runs : ~(status[r] = "running" /\ Free(r))
    BY NobodyApart DEF Jobs, RunningIsHeld, Holds, Free
  <2>2. status' = status
    BY <1>18, <2>1 DEF Sweep, Recovered, TypeOK
  <2>3. Passes
    BY <1>18, <2>2 DEF Sweep, Passes
  <2> QED
    BY <2>3, PassesKeeps
<1> QED
  BY <1>1, <1>2, <1>3, <1>4, <1>5, <1>6, <1>7, <1>8, <1>9, <1>10, <1>11, <1>12, <1>13, <1>14,
     <1>15, <1>16, <1>17, <1>18 DEF Next, Job, Drain

\* A kick leaves a woken drain thread.
LEMMA KickedWakes ==
  ASSUME TypeOK, ~closed, NEW f \in [Execs -> Steps], Kicked(f)
  PROVE  wakeup' /\ pc'[Dispatcher] # "off"
<1>1. wakeup'
  BY Zenon DEF Kicked
<1>2. pc'[Dispatcher] # "off"
  BY NobodyApart DEF Kicked, Steps
<1> QED
  BY <1>1, <1>2

\* With nobody but the drain thread about, between two jobs, no run is held.
LEMMA NothingHeld ==
  ASSUME Jobs, pc[Resumer] = "off", pc[Dispatcher] \notin Leasing,
         NEW r \in Runs, status[r] \in {"queued", "running", "interrupted"}
  PROVE  status[r] = "queued" /\ owner[r] = Nobody
<1>1. \A e \in Execs : pc[e] \notin Leasing
  BY DEF Execs, Leasing, Working
<1> QED
  BY <1>1 DEF Jobs, RunningIsHeld, Leasing, Working

\* What the drain thread has picked it can claim, and it ends only when nothing is
\* left or it has been woken.
LEMMA StepDrains == Undisturbed /\ TypeOK /\ FInv /\ [Next]_vars => DrainsAll'
<1> SUFFICES ASSUME Undisturbed, TypeOK, FInv, [Next]_vars, Alone' PROVE DrainsAll'
  BY DEF DrainsAll
<1>1. FirstLife /\ up /\ stops = 0 /\ Jobs /\ ~closed
  BY LifeEnds DEF Alone, FirstLife, FInv
<1>2. pc'[Resumer] = "off" /\ kicks' = {} /\ FirstLife'
  BY DEF Alone
<1>3. (wakeup' /\ pc'[Dispatcher] # "off") \/ pc'[Dispatcher] \notin {"claim", "off", "check"} => DrainsAll'
  BY DEF DrainsAll
<1> USE NobodyApart DEF rowVars, execVars
<1>4. ASSUME NEW r \in Runs, KickQueue(r) PROVE DrainsAll'
  BY <1>1, <1>3, <1>4, KickedWakes DEF KickQueue, TypeOK
<1>5. CASE ResumeEnds
  <2>1. [pc EXCEPT ![Resumer] = "off"] \in [Execs -> Steps]
    BY DEF TypeOK, Steps
  <2> QED
    BY <1>1, <1>3, <1>5, <2>1, KickedWakes DEF ResumeEnds
<1>6. CASE ~Alone /\ ~ResumeEnds /\ ~\E r \in Runs : KickQueue(r)
  <2>1. pc[Resumer] # "off" \/ kicks # {}
    BY <1>1, <1>6 DEF Alone
  <2>2. CASE UNCHANGED vars
    BY <1>2, <2>1, <2>2 DEF vars
  <2>3. ASSUME NEW r \in Runs, Enqueue(r) \/ Cancel(r) \/ Resume(r) \/ LeaseExpires(r) PROVE FALSE
    BY <1>2, <2>1, <2>3 DEF Enqueue, Cancel, Resume, LeaseExpires, At, Goto, TypeOK
  <2>4. ASSUME NEW e \in Execs, ClaimRefused(e) \/ Release(e) \/ ReleaseRaises(e) \/ ClaimRaises(e) \/ Heartbeat(e)
        PROVE  FALSE
    BY <1>2, <2>1, <2>4, MiningAssumption DEF ClaimRefused, AfterRefusal, Release, ReleaseRaises, Returned, ClaimRaises,
       Heartbeat, At, Goto, TypeOK
  <2>5. ASSUME NEW e \in Execs, Claim(e) PROVE FALSE
    BY <1>2, <2>1, <2>5 DEF Claim, Goto, TypeOK
  <2>6. ASSUME NEW e \in Execs,
               \/ Begin(e) \/ BeginMissed(e) \/ Checkpoint(e) \/ JobRaises(e) \/ Publish(e)
               \/ Finalize(e) \/ FinalizeFails(e) \/ FailAgain(e)
        PROVE  FALSE
    <3>1. Works(e)
      BY <1>1, <2>6, JobWorks
    <3>2. kicks' = kicks
      BY <2>6 DEF Begin, BeginMissed, Checkpoint, JobRaises, Publish, Finalize, FinalizeFails, FailAgain
    <3> QED
      BY <1>2, <2>1, <3>1, <3>2 DEF Works, Leasing, Working
  <2>7. ~Drain /\ ~DispatcherRaises /\ ~MarkResumeFailure
    BY <1>2, <2>1, MiningAssumption DEF Drain, Clear, Pick, DrainEnds, Check, RecordFailure,
       DispatcherRaises, MarkResumeFailure, Returned, At, Goto, TypeOK
  <2>8. ~Close /\ ~Stop /\ ~Start
    <3>1. ~Close /\ ~Start
      BY <1>1, <1>2 DEF Close, Start, FirstLife
    <3>2. ~Stop
      BY <1>1, <1>2 DEF Stop, FirstLife
    <3> QED
      BY <3>1, <3>2
  <2>9. CASE Sweep
    <3>1. pc'[Resumer] = pc[Resumer]
      BY <2>9, KickedTyped DEF Sweep, TypeOK
    <3> QED
      BY <1>2, <2>1, <2>9, <3>1 DEF Sweep
  <2> QED
    BY <1>6, <2>2, <2>3, <2>4, <2>5, <2>6, <2>7, <2>8, <2>9 DEF Next, Job
<1>7. ASSUME Alone, UNCHANGED <<status, owner>>, leased' \subseteq leased, wakeup => wakeup',
             pc'[Dispatcher] = pc[Dispatcher], run'[Dispatcher] = run[Dispatcher],
             UNCHANGED resuming, \A r \in Runs : Candidate(r)' => Candidate(r)
      PROVE  DrainsAll'
  <2>1. \A r \in Runs : Free(r) => Free(r)'
    BY <1>7 DEF Free
  <2>2. \A r \in Runs : Claimable(Dispatcher, r) => Claimable(Dispatcher, r)'
    BY <1>7, <2>1 DEF Claimable, ClaimStatuses
  <2>3. pc[Dispatcher] = "claim" => run[Dispatcher] \in Runs
    BY DEF TypeOK
  <2> QED
    BY <1>7, <2>2, <2>3 DEF FInv, DrainsAll
<1>8. CASE Alone
  <2>1. pc[Resumer] = "off" /\ kicks = {}
    BY <1>8 DEF Alone
  <2>2. CASE UNCHANGED vars
    BY <1>7, <1>8, <2>2 DEF vars, Candidate, Free, KbBusy
  <2>3. ASSUME NEW r \in Runs, Enqueue(r) \/ Cancel(r) \/ Resume(r) PROVE FALSE
    BY <1>2, <2>3 DEF Enqueue, Cancel, Resume, Goto, TypeOK, Undisturbed
  <2>4. ASSUME NEW r \in Runs, LeaseExpires(r) PROVE DrainsAll'
    <3>1. ASSUME NEW s \in Runs, Candidate(s)' PROVE Candidate(s)
      <4>1. status[s] = "queued" /\ ~KbBusy(s) /\ Free(s)'
        BY <1>1, <2>4, <3>1 DEF LeaseExpires, Candidate, KbBusy, Jobs, RunningIsHeld
      <4>2. ASSUME ~Free(s) PROVE FALSE
        <5>1. owner[s] # Nobody /\ s = r
          BY <2>4, <4>1, <4>2 DEF LeaseExpires, Free
        <5>2. PICK e \in Execs : Holds(e, s) /\ pc[e] \in Working
          BY <1>1, <4>1, <5>1 DEF Jobs, RunningIsHeld
        <5> QED
          BY <2>4, <5>1, <5>2 DEF LeaseExpires, Renewed, Holds, Undisturbed
      <4> QED
        BY <4>1, <4>2 DEF Candidate
    <3> QED
      BY <1>7, <1>8, <2>4, <3>1 DEF LeaseExpires
  <2>5. CASE Clear \/ RecordFailure
    BY <1>1, <1>3, <2>5 DEF Clear, RecordFailure, Returned, Goto, TypeOK
  <2>6. ASSUME NEW r \in Runs, Pick(r) PROVE DrainsAll'
    <3>1. /\ pc[Dispatcher] = "pick" /\ status[r] = "queued" /\ Free(r) /\ Dispatcher \notin resuming'
          /\ UNCHANGED <<status, owner, leased>> /\ pc'[Dispatcher] = "claim" /\ run'[Dispatcher] = r
      BY <1>1, <2>6 DEF Pick, At, Goto, Candidate, Jobs, RunningIsHeld, TypeOK
    <3>2. \A s \in Runs : status[s] \in Advancing => Free(s)
      BY <1>1, <2>1, <3>1, NothingHeld DEF Advancing, Free, Leasing, Working
    <3>3. Claimable(Dispatcher, r)'
      BY <3>1, <3>2 DEF Claimable, ClaimStatuses, Free, Advancing
    <3> QED
      BY <3>1, <3>3 DEF DrainsAll
  <2>7. CASE DrainEnds
    <3>1. \A r \in Runs : ~Candidate(r)'
      BY <1>1, <2>7 DEF DrainEnds, Candidate, Free, KbBusy
    <3>2. pc'[Dispatcher] = "check"
      BY <2>7 DEF DrainEnds, Goto, TypeOK
    <3> QED
      BY <3>1, <3>2 DEF DrainsAll
  <2>8. CASE Check
    <3>1. pc[Dispatcher] = "check" /\ pc'[Dispatcher] = AfterDrain
      BY <2>8 DEF Check, At, Goto, TypeOK
    <3>2. (\E r \in Runs : Candidate(r)') => wakeup
      BY <1>8, <2>8, <3>1 DEF Check, Candidate, Free, KbBusy, FInv, DrainsAll
    <3>3. pc'[Dispatcher] = IF wakeup THEN "clear" ELSE "off"
      BY <1>1, <3>1 DEF AfterDrain
    <3> QED
      BY <3>2, <3>3 DEF DrainsAll
  <2>9. ASSUME NEW e \in Execs, ClaimRefused(e) PROVE DrainsAll'
    <3>1. e = Dispatcher /\ pc[e] = "claim" /\ pc'[e] = "check"
      BY <2>1, <2>9 DEF ClaimRefused, AfterRefusal, At, Goto, TypeOK, Execs
    <3>2. ~\E o \in Execs \ {e} : pc[o] = "claim"
      BY <2>1, <3>1 DEF Execs
    <3>3. ~Claimable(e, run[e])
      BY <2>9, <3>2 DEF ClaimRefused
    <3>4. wakeup
      BY <1>8, <3>1, <3>3 DEF FInv, DrainsAll
    <3>5. wakeup'
      BY <2>9, <3>4 DEF ClaimRefused
    <3> QED
      BY <3>1, <3>5 DEF DrainsAll
  <2>10. ASSUME NEW e \in Execs,
                \/ Begin(e) \/ BeginMissed(e) \/ Checkpoint(e) \/ JobRaises(e) \/ Publish(e)
                \/ Finalize(e) \/ FinalizeFails(e) \/ FailAgain(e)
         PROVE  DrainsAll'
    <3>1. Works(e)
      BY <1>1, <2>10, JobWorks
    <3>2. e = Dispatcher
      BY <2>1, <3>1 DEF Works, Working, Execs
    <3> QED
      BY <1>3, <3>1, <3>2 DEF Works, Leasing, Working
  <2>11. ASSUME NEW e \in Execs, Claim(e) \/ Release(e) \/ ReleaseRaises(e) \/ ClaimRaises(e) PROVE DrainsAll'
    <3>1. e = Dispatcher
      BY <2>1, <2>11 DEF Claim, Release, ReleaseRaises, ClaimRaises, At, Execs
    <3>2. pc'[Dispatcher] \in {"begin", "pick", "record"}
      BY <2>11, <3>1 DEF Claim, Release, ReleaseRaises, ClaimRaises, Returned, Goto, TypeOK
    <3> QED
      BY <1>3, <3>2
  <2>12. ASSUME NEW e \in Execs, Heartbeat(e) PROVE DrainsAll'
    <3>1. e = Dispatcher /\ pc[e] \in Working /\ pc' = pc
      BY <2>1, <2>12 DEF Heartbeat, Working, Execs
    <3> QED
      BY <1>3, <3>1 DEF Working
  <2>13. ~DispatcherRaises /\ ~MarkResumeFailure
    BY <2>1 DEF DispatcherRaises, Fault, Undisturbed, MarkResumeFailure, At
  <2>14. ~Close /\ ~Stop /\ ~Start
    <3>1. ~Close /\ ~Start
      BY <1>1, <1>2 DEF Close, Start, FirstLife
    <3>2. ~Stop
      BY <1>1, <1>2 DEF Stop, FirstLife
    <3> QED
      BY <3>1, <3>2
  <2>15. CASE Sweep
    <3>1. CASE status' = status
      BY <1>7, <1>8, <2>15, <3>1 DEF Sweep, Candidate, Free, KbBusy
    <3>2. CASE status' # status
      BY <1>1, <1>3, <2>15, <3>2, KickedWakes DEF Sweep, TypeOK
    <3> QED
      BY <3>1, <3>2
  <2> QED
    BY <1>4, <1>5, <2>2, <2>3, <2>4, <2>5, <2>6, <2>7, <2>8, <2>9, <2>10, <2>11, <2>12, <2>13,
       <2>14, <2>15 DEF Next, Job, Drain
<1> QED
  BY <1>4, <1>5, <1>6, <1>8

\* A run that could be drained has somebody to drain it: in the first life of a
\* process no interleaving of inserts, kicks, claims of the queue and of a resume,
\* late failure records and the end of a drain thread strands it.
THEOREM NobodyStranded ==
  ASSUME Undisturbed
  PROVE  Spec => []NoStrandedRun
<1>1. Init => TypeOK /\ FInv
  <2>1. Init => TypeOK
    BY InitTyped
  <2>2. Init => FInv
    BY NobodyApart DEF Init, FInv, DrainsAll, Jobs, WorkerOwns, RunningIsHeld, JobsSettle, Candidate,
                       Leasing, Working, Execs
  <2> QED
    BY <2>1, <2>2
<1>2. (TypeOK /\ FInv) /\ [Next]_vars => (TypeOK /\ FInv)'
  <2> SUFFICES ASSUME TypeOK, FInv, [Next]_vars PROVE FInv'
    BY StepTyped
  <2>1. DrainsAll'
    BY StepDrains
  <2>2. FirstLife' => up' /\ Jobs'
    BY LifeEnds, StepJobs DEF FInv, FirstLife
  <2> QED
    BY <2>1, <2>2 DEF FInv
<1>3. FInv => NoStrandedRun
  BY DEF FInv, DrainsAll, Alone, FirstLife, NoStrandedRun
<1> QED
  BY <1>1, <1>2, <1>3, PTL DEF Spec
=============================================================================
