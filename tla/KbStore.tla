-------------------------------- MODULE KbStore --------------------------------
(***************************************************************************)
(* The knowledge store of knowledge_mining: documents and their snapshots,  *)
(* mining runs that parse, stage and publish them as builds, the deletion   *)
(* of documents and of whole knowledge bases, and the collection of         *)
(* superseded snapshots.                                                    *)
(*                                                                         *)
(* job is the one executor of the domain: MiningRunQueue models how it is   *)
(* claimed, leased and recovered; here a crash interrupts its run and the   *)
(* run is claimed again.  Every action is one transaction or one handler's  *)
(* worth of statements on rows that only the executor writes.  Snapshots    *)
(* are found by their fingerprint, so documents with the same content share *)
(* one, across knowledge bases.  Deleting a row leaves Gone in the columns  *)
(* that hold its id without a foreign key.  The paradigm of a knowledge     *)
(* base does not change and its runs mine all its documents.                *)
(***************************************************************************)
EXTENDS Naturals, Sequences, FiniteSets

CONSTANTS
  Kbs, Docs, Snaps,  \* knowledge bases, documents, snapshot fingerprints
  KbOf,          \* [Docs -> Kbs]
  Content,       \* Content[d][i]: the fingerprint of revision i of document d
  Runs,          \* mining runs: numbers, in the order of started_at
  RunKb,         \* [Runs -> Kbs]
  Forced,        \* runs asked for with force_redo
  Uploads,       \* documents that are uploaded later
  Purgeable,     \* knowledge bases whose owner may delete them
  Removable,     \* documents that may be deleted one by one
  Deletions,     \* the deletions that may be under way at a time
  DelKb,         \* [Deletions -> Kbs]
  Collecting,    \* TRUE: the garbage collection of snapshots runs
  PurgeInterleaves, \* TRUE: mining may come between the test for references to a
                 \* snapshot and its deletion, which are two statements
  StaleResumes,  \* TRUE: a failed run may be resumed after a later one of its KB
  MaxFaults,     \* bound: failures of documents, runs and embeddings
  MaxCrashes,    \* bound: crashes of the process
  MaxResumes,    \* bound: calls of the resume route
  NoSnap, Gone,  \* NULL; the id of a snapshot whose row is deleted
  NoRun          \* the executor is idle

ASSUME KbAssumption ==
  /\ KbOf \in [Docs -> Kbs]
  /\ Runs \subseteq Nat /\ IsFiniteSet(Runs) /\ NoRun \notin Runs
  /\ RunKb \in [Runs -> Kbs]
  /\ Content \in [Docs -> Seq(Snaps)]
  /\ \A d \in Docs : /\ Content[d] # << >>
                     /\ \A i, j \in DOMAIN Content[d] :
                          Content[d][i] = Content[d][j] => i = j
  /\ NoSnap \notin Snaps /\ Gone \notin Snaps /\ NoSnap # Gone
  /\ Forced \subseteq Runs /\ Uploads \subseteq Docs
  /\ Purgeable \subseteq Kbs /\ Removable \subseteq Docs
  /\ DelKb \in [Deletions -> Kbs]
  /\ Collecting \in BOOLEAN /\ PurgeInterleaves \in BOOLEAN /\ StaleResumes \in BOOLEAN
  /\ MaxFaults \in Nat /\ MaxCrashes \in Nat /\ MaxResumes \in Nat

VARIABLES
  kbs, docs,   \* rows of knowledge_bases and asset_documents
  rev,         \* asset_documents.content_revision
  snap,        \* asset_document_snapshots.lifecycle_status; "none": no row
  links,       \* asset_document_snapshot_links
  builds,      \* asset_builds of each KB in order, with their selections
  staging,     \* what the staging tables hold of a snapshot
  final,       \* snapshots with rows in the final tables
  rstat,       \* mining_runs.status
  row,         \* mining_run_documents of each run
  job,         \* the executor
  purge,       \* the control state of each deletion
  task,        \* kb_purge_tasks.status of each deletion of a whole KB
  gc,          \* snapshots the running collection has still to look at
  doomed,      \* the one it has found serving nobody and is about to delete
  faults, crashes, resumes  \* uses of the bounds

assetVars == <<snap, links, builds, staging, final>>
kbVars    == <<kbs, docs, rev>>
runVars   == <<rstat, row>>
purgeVars == <<purge, task>>
gcVars    == <<gc, doomed>>
boundVars == <<faults, crashes, resumes>>
vars == <<kbVars, assetVars, runVars, job, purgeVars, gcVars, boundVars>>

-----------------------------------------------------------------------------
Ids == Snaps \cup {NoSnap, Gone}
NoRow == [st |-> "none", snap |-> NoSnap, retry |-> FALSE, since |-> 0]
IdleJob == [run |-> NoRun, pc |-> "idle", todo |-> {}, retry |-> {}, wrote |-> {},
            parsed |-> [d \in Docs |-> NoSnap], ready |-> {}, skips |-> {},
            built |-> FALSE, bad |-> FALSE]
NoPurge == [pc |-> "idle", docs |-> {}, snaps |-> {}, whole |-> FALSE]
\* The control states of a deletion that nobody works on.
Rests == {"idle", "lost"}

DocsOf(k) == {d \in docs : KbOf[d] = k}
Current(d) == Content[d][rev[d]]
Unsettled(k, statuses) == \E r \in Runs : RunKb[r] = k /\ rstat[r] \in statuses
\* assert_kb_idle
KbIdle(k) == ~Unsettled(k, {"queued", "running"})
Active == {"queued", "running"}   \* the statuses of get_active_task
InUse(x) == purge[x].pc # "idle" \/ task[x] \in Active
\* The deletion of the whole KB k has been confirmed.
Deleting(k) == \E x \in Deletions : DelKb[x] = k /\ task[x] \in Active

\* The builds of KB k that select document d.
Selecting(k, d) == {i \in DOMAIN builds[k] : builds[k][i].sel[d] # NoSnap}
Latest(I) == CHOOSE i \in I : \A j \in I : j <= i

\* get_current_kb_build_snapshots, the serving CTE and the retrieval service: the
\* selection of the latest build that has one.
Serving(d) ==
  LET k == KbOf[d] IN
  IF Selecting(k, d) = {} THEN NoSnap ELSE builds[k][Latest(Selecting(k, d))].sel[d]
Served == {Serving(d) : d \in docs} \ {NoSnap}

\* fetch_snapshot_readiness: staging first, then final.
Complete(s) == IF staging[s] = "none" THEN s \in final ELSE staging[s] = "ready"

\* document_persist_marker: the identity of a row that need not run again.
Marker(x) == IF x.st \in {"committed", "processing", "skipped"} THEN x.snap ELSE NoSnap
\* _is_retry_rejected_row
Rejected(x) == x.st = "failed" \/ (x.st = "processing" /\ x.retry)

\* The snapshots S and all that hangs on them disappear; T of them lose their row.
Erase(S, T) ==
  /\ staging' = [s \in Snaps |-> IF s \in S THEN "none" ELSE staging[s]]
  /\ final' = final \ S
  /\ snap' = [s \in Snaps |-> IF s \in T THEN "none" ELSE snap[s]]
  /\ row' = [r \in Runs |-> [d \in Docs |->
       IF row[r][d].snap \in T THEN [row[r][d] EXCEPT !.snap = Gone] ELSE row[r][d]]]
  /\ job' = [job EXCEPT !.parsed = [d \in Docs |-> IF @[d] \in T THEN Gone ELSE @[d]]]

Init ==
  /\ kbs = Kbs /\ docs = Docs \ Uploads
  /\ rev = [d \in Docs |-> IF d \in Uploads THEN 0 ELSE 1]
  /\ snap = [s \in Snaps |-> "none"] /\ links = {}
  /\ builds = [k \in Kbs |-> << >>]
  /\ staging = [s \in Snaps |-> "none"] /\ final = {}
  /\ rstat = [r \in Runs |-> "absent"]
  /\ row = [r \in Runs |-> [d \in Docs |-> NoRow]]
  /\ job = IdleJob
  /\ purge = [x \in Deletions |-> NoPurge] /\ task = [x \in Deletions |-> "none"]
  /\ gc = {} /\ doomed = NoSnap
  /\ faults = 0 /\ crashes = 0 /\ resumes = 0

-----------------------------------------------------------------------------
\* Users.

\* Upload: the insert of the document holds a foreign key on the KB.
Upload(d) ==
  /\ rev[d] = 0 /\ KbOf[d] \in kbs
  /\ docs' = docs \cup {d}
  /\ rev' = [rev EXCEPT ![d] = 1]
  /\ UNCHANGED <<kbs, assetVars, runVars, job, purgeVars, gcVars, boundVars>>

\* A new file is put in the place of a document.
Edit(d) ==
  /\ d \in docs /\ rev[d] < Len(Content[d])
  /\ rev' = [rev EXCEPT ![d] = @ + 1]
  /\ UNCHANGED <<kbs, docs, assetVars, runVars, job, purgeVars, gcVars, boundVars>>

\* mine_kb and the automatic enqueue after an upload, whose guard is the weaker:
\* no run of the KB is queued.
Enqueue(r) ==
  /\ rstat[r] = "absent" /\ \A q \in Runs : q < r => rstat[q] # "absent"
  /\ RunKb[r] \in kbs /\ DocsOf(RunKb[r]) # {}
  /\ ~Unsettled(RunKb[r], {"queued"})
  /\ rstat' = [rstat EXCEPT ![r] = "queued"]
  /\ UNCHANGED <<kbVars, assetVars, row, job, purgeVars, gcVars, boundVars>>

-----------------------------------------------------------------------------
\* The executor of the domain.

Start(r) ==
  /\ job.run = NoRun
  /\ \A q \in Runs \ {r} : RunKb[q] = RunKb[r] => rstat[q] \notin {"running", "interrupted"}
  /\ rstat' = [rstat EXCEPT ![r] = "running"]
  /\ job' = [IdleJob EXCEPT !.run = r, !.pc = "ingest"]
  /\ UNCHANGED <<kbVars, assetVars, row, purgeVars, gcVars, faults, crashes>>

\* The dispatcher claims interrupted runs first, then the queue.
Claim(r) ==
  /\ rstat[r] \in {"queued", "interrupted"}
  /\ \A q \in Runs : /\ rstat[q] = "interrupted" => rstat[r] = "interrupted"
                     /\ rstat[q] = rstat[r] => r <= q
  /\ Start(r)
  /\ UNCHANGED resumes

\* The resume route takes a failed run up again.
Resume(r) ==
  /\ rstat[r] = "failed" /\ resumes < MaxResumes
  /\ StaleResumes \/ ~\E q \in Runs : q > r /\ RunKb[q] = RunKb[r]
                                     /\ rstat[q] \in {"failed", "completed"}
  /\ Start(r)
  /\ resumes' = resumes + 1

\* fetch_kb_last_attempts: the row of the latest run that has one ended badly, and
\* began after the build that serves d.
FailedSince(d) ==
  LET tries == {q \in Runs : row[q][d].st # "none"}
      last == row[Latest(tries)][d]
  IN /\ tries # {}
     /\ last.st \in {"failed", "processing"}
     /\ last.since >= Latest(Selecting(KbOf[d], d))

\* fetch_kb_committed_signatures: a run has recorded as committed the version of d
\* that its build selects and that serves.
Signed(d) ==
  \E i \in Selecting(KbOf[d], d) :
    LET b == builds[KbOf[d]][i]
    IN /\ b.sel[d] = Serving(d)
       /\ row[b.run][d].st = "committed" /\ row[b.run][d].snap = Serving(d)

\* classify_kb_documents: what serves d is its current content, of a known paradigm
\* and complete, and no newer attempt failed.
Unchanged(d) ==
  /\ Serving(d) = Current(d)
  /\ <<d, Serving(d)>> \in links
  /\ Signed(d)
  /\ ~FailedSince(d)
  /\ Complete(Serving(d))

\* The row of document d after _prepare_document_states.
Prepared(r, d) ==
  LET x == row[r][d]
      now == Len(builds[RunKb[r]])
  IN IF x.st = "none"
     THEN IF r \notin Forced /\ Unchanged(d)
          THEN [st |-> "skipped", snap |-> Serving(d), retry |-> FALSE, since |-> now]
          ELSE [st |-> "processing", snap |-> NoSnap, retry |-> FALSE, since |-> now]
     ELSE IF x.st \in {"committed", "skipped"} THEN x
     ELSE [x EXCEPT !.st = "processing", !.retry = Rejected(x)]

\* _prepare_document_states and, for each document, whether DocumentExecutor runs
\* its chain or takes the identity of its row.
Ingest ==
  /\ job.pc = "ingest" /\ rstat[job.run] = "running"
  /\ LET r == job.run
         D == DocsOf(RunKb[r])
         again == {d \in D : Rejected(row[r][d])}
     IN /\ row' = [row EXCEPT ![r] = [d \in Docs |-> IF d \in D THEN Prepared(r, d) ELSE @[d]]]
        /\ job' = [job EXCEPT !.pc = "pipeline", !.retry = again,
                     !.todo = {d \in D : d \in again \/ Marker(row'[r][d]) = NoSnap}]
  /\ UNCHANGED <<kbVars, assetVars, rstat, purgeVars, gcVars, boundVars>>

\* document_parse to segment_compile: the current content becomes a snapshot, new
\* or found by its fingerprint and revived, linked to the document.
Parse(d) ==
  /\ job.pc = "pipeline" /\ d \in job.todo \cap docs /\ job.parsed[d] = NoSnap
  /\ PurgeInterleaves \/ \A x \in Deletions : purge[x].pc # "reclaim"
  /\ snap' = [snap EXCEPT ![Current(d)] = "READY"]
  /\ links' = links \cup {<<d, Current(d)>>}
  /\ job' = [job EXCEPT !.parsed[d] = Current(d)]
  /\ UNCHANGED <<kbVars, builds, staging, final, runVars, purgeVars, gcVars, boundVars>>

\* asset_persist: a row with an identity is left as it is; otherwise the assets are
\* staged, once per job, and the identity is written.  An outage of the
\* embedding service leaves them incomplete.
Persist(d) ==
  /\ job.pc = "pipeline" /\ d \in job.todo /\ job.parsed[d] \in Snaps
  /\ LET s == job.parsed[d]
         x == row[job.run][d]
     IN IF Marker(x) # NoSnap
        THEN /\ job' = [job EXCEPT !.todo = @ \ {d}]
             /\ UNCHANGED <<staging, row, faults>>
        ELSE /\ row' = [row EXCEPT ![job.run][d].snap = IF x.st = "none" THEN @ ELSE s]
             /\ job' = [job EXCEPT !.todo = @ \ {d}, !.wrote = @ \cup {s}]
             /\ \/ s \in job.wrote /\ UNCHANGED <<staging, faults>>
                \/ /\ s \notin job.wrote
                   /\ staging' = [staging EXCEPT ![s] = "ready"] /\ UNCHANGED faults
                \/ /\ s \notin job.wrote /\ faults < MaxFaults
                   /\ staging' = [staging EXCEPT ![s] = "poor"] /\ faults' = faults + 1
  /\ UNCHANGED <<kbVars, snap, links, builds, final, rstat, purgeVars, gcVars, crashes, resumes>>

\* The chain of d fails or skips it, by a fault or because its document or snapshot
\* is gone: _mark_run_document_terminal.
GiveUp(d) ==
  /\ job.pc = "pipeline" /\ d \in job.todo
  /\ IF d \in docs /\ job.parsed[d] # Gone
     THEN faults < MaxFaults /\ faults' = faults + 1
     ELSE UNCHANGED faults
  /\ row' = [row EXCEPT ![job.run][d].st =
               IF @ = "none" \/ Marker(row[job.run][d]) # NoSnap THEN @ ELSE "failed"]
  /\ job' = [job EXCEPT !.todo = @ \ {d}]
  /\ UNCHANGED <<kbVars, assetVars, rstat, purgeVars, gcVars, crashes, resumes>>

\* Mutant: staging alone decides, also when the run has published.
IndexAnew(r) == {}

\* The build that run r has already committed: get_validated_build_for_run.
BuildOf(r) == {i \in DOMAIN builds[RunKb[r]] : builds[RunKb[r]][i].run = r}

\* _rebuild_from_run_documents and the partition of its candidates: those that the
\* build of this run selects or, before there is one, those whose staged
\* assets are ready.
Index ==
  /\ job.pc = "pipeline" /\ job.todo = {}
  /\ LET r == job.run
         x == row[r]
         done == BuildOf(r)
         rows == {d \in Docs : x[d].st # "none"}
         skips == {d \in rows : x[d].st = "skipped"}
         cand == {d \in rows : x[d].st \in {"committed", "processing"} /\ x[d].snap # NoSnap}
         ready == {d \in cand :
                     IF done # {}
                     THEN \E i \in done : d \in builds[RunKb[r]][i].made
                                          /\ builds[RunKb[r]][i].sel[d] = x[d].snap
                     ELSE x[d].snap \in Snaps /\ staging[x[d].snap] = "ready"}
     IN job' = [IdleJob EXCEPT !.run = r, !.ready = ready, !.skips = skips,
                  !.parsed = [d \in Docs |-> IF d \in ready \cup skips THEN x[d].snap ELSE NoSnap],
                  !.todo = rows \ skips, !.built = (done # {}),
                  !.bad = ((rows \ skips) \ ready # {}),
                  !.pc = IF done = {} /\ ready # {} THEN "guard" ELSE "record"]
  /\ UNCHANGED <<kbVars, assetVars, runVars, purgeVars, gcVars, boundVars>>

\* set_run_phase(publishing): the run must still be running.
EnterPublishing ==
  /\ job.pc = "guard"
  /\ job' = IF rstat[job.run] = "running" THEN [job EXCEPT !.pc = "publish"] ELSE IdleJob
  /\ UNCHANGED <<kbVars, assetVars, runVars, purgeVars, gcVars, boundVars>>

\* Mutant: what the job did not decide takes its newest content along.
CarryNewest ==
  [d \in Docs |->
     IF d \in job.ready \cup job.skips THEN job.parsed[d]
     ELSE IF d \in docs /\ KbOf[d] = RunKb[job.run] THEN Current(d) ELSE NoSnap]

\* The selections of the next build of the job: its decisions, and for the other
\* documents what the KB serves.
NextSel ==
  [d \in Docs |->
     IF d \in job.ready \cup job.skips THEN job.parsed[d]
     ELSE IF d \in docs /\ KbOf[d] = RunKb[job.run] THEN Serving(d) ELSE NoSnap]

\* promote_snapshot_assets: the final rows of the snapshots S are replaced by the
\* staged ones.
Promoted(S) == (final \ S) \cup {s \in S : staging[s] # "none"}

\* The decisions that change the selection of their document: NEW and UPDATE.
Fresh == {d \in job.ready \cup job.skips : NextSel[d] # Serving(d)}

\* Mutant: selections are written without looking for their snapshot.
AnyReference(S) == \A d \in Fresh : NextSel[d] \in Promoted(S) \cup {Gone}

\* upsert_build_document_snapshot finds every document and snapshot, and
\* validate_build the assets of the new selections.
Valid(S) ==
  /\ \A d \in Docs : NextSel[d] # NoSnap => d \in docs /\ NextSel[d] # Gone
  /\ \A d \in job.ready \cup job.skips : d \in docs
  /\ \A d \in Fresh : NextSel[d] \in Promoted(S)

\* The job ends with an exception: fail_run, and the documents still processing fail.
FailRun(r) ==
  /\ rstat' = [rstat EXCEPT ![r] = IF @ = "running" THEN "failed" ELSE @]
  /\ row' = [row EXCEPT ![r] = [d \in Docs |->
               IF @[d].st = "processing" THEN [@[d] EXCEPT !.st = "failed"] ELSE @[d]]]
  /\ job' = IdleJob

\* The transaction of _finalize_run under the publish lock of the domain:
\* classify_documents, promote_snapshot_assets, assemble_build, validate_build.
Publish ==
  /\ job.pc = "publish"
  /\ PurgeInterleaves \/ doomed = NoSnap
  /\ LET S == {job.parsed[d] : d \in job.ready} \cap Snaps
     IN IF Valid(S)
        THEN /\ final' = Promoted(S)
             /\ staging' = [s \in Snaps |-> IF s \in S THEN "none" ELSE staging[s]]
             /\ builds' = [builds EXCEPT ![RunKb[job.run]] = Append(@,
                  [run |-> job.run, sel |-> NextSel, made |-> job.ready])]
             /\ job' = [job EXCEPT !.pc = "record", !.built = TRUE]
             /\ UNCHANGED runVars
        ELSE FailRun(job.run) /\ UNCHANGED <<staging, final, builds>>
  /\ UNCHANGED <<kbVars, snap, links, purgeVars, gcVars, boundVars>>

\* Mutant: every candidate is committed, built or not.
RecordAll(d) ==
  /\ job.pc = "record" /\ d \in job.todo
  /\ row' = [row EXCEPT ![job.run][d].st = IF @ = "none" THEN @ ELSE "committed"]
  /\ job' = [job EXCEPT !.todo = @ \ {d}]
  /\ UNCHANGED <<kbVars, assetVars, rstat, purgeVars, gcVars, boundVars>>

\* The documents of the build are committed, all others fail.
Record(d) ==
  /\ job.pc = "record" /\ d \in job.todo
  /\ row' = [row EXCEPT ![job.run][d].st =
               IF @ = "none" THEN @ ELSE IF d \in job.ready THEN "committed" ELSE "failed"]
  /\ job' = [job EXCEPT !.todo = @ \ {d}]
  /\ UNCHANGED <<kbVars, assetVars, rstat, purgeVars, gcVars, boundVars>>

\* A run fails when nothing came of it, and completes otherwise.
Settle ==
  /\ job.pc = "record" /\ job.todo = {}
  /\ rstat' = [rstat EXCEPT ![job.run] =
       IF @ # "running" THEN @
       ELSE IF job.bad /\ ~job.built /\ job.ready = {} /\ job.skips = {}
            THEN "failed" ELSE "completed"]
  /\ job' = IdleJob
  /\ UNCHANGED <<kbVars, assetVars, row, purgeVars, gcVars, boundVars>>

\* An exception escapes the job: a FAIL_FAST node, the database.
JobFails ==
  /\ job.run # NoRun /\ faults < MaxFaults
  /\ FailRun(job.run)
  /\ faults' = faults + 1
  /\ UNCHANGED <<kbVars, assetVars, purgeVars, gcVars, crashes, resumes>>

\* The heartbeat finds that the row of the run was deleted with its KB.
Abort ==
  /\ job.run # NoRun /\ rstat[job.run] = "gone"
  /\ job' = IdleJob
  /\ UNCHANGED <<kbVars, assetVars, runVars, purgeVars, gcVars, boundVars>>

\* Mutant: only the tasks that had not begun start over.
OnlyQueued(x) == task[x] = "queued"

\* list_recoverable
Recoverable(x) == task[x] \in Active

\* The process dies and starts: its run is interrupted and waits to be claimed,
\* recover_purge_tasks starts the deletions of KBs over, the others are lost.
Crash ==
  /\ crashes < MaxCrashes /\ crashes' = crashes + 1
  /\ rstat' = [r \in Runs |-> IF rstat[r] = "running" THEN "interrupted" ELSE rstat[r]]
  /\ job' = IdleJob
  /\ purge' = [x \in Deletions |->
       IF Recoverable(x) THEN [NoPurge EXCEPT !.pc = "check", !.whole = TRUE]
       ELSE NoPurge]
  /\ gc' = {} /\ doomed' = NoSnap
  /\ UNCHANGED <<kbVars, assetVars, row, task, faults, resumes>>

-----------------------------------------------------------------------------
\* Deletion.

\* delete_kb: the KB has no active task and no unsettled run ...
DeleteKb(x) ==
  /\ ~InUse(x) /\ DelKb[x] \in Purgeable \cap kbs
  /\ ~Deleting(DelKb[x]) /\ KbIdle(DelKb[x])
  /\ purge' = [purge EXCEPT ![x] = [NoPurge EXCEPT !.pc = "asked", !.whole = TRUE]]
  /\ UNCHANGED <<kbVars, assetVars, runVars, job, task, gcVars, boundVars>>

\* ... and start_purge_task inserts the task, in a transaction of its own, which
\* works in the background.
StartTask(x) ==
  /\ purge[x].pc = "asked"
  /\ task' = [task EXCEPT ![x] = "queued"]
  /\ purge' = [purge EXCEPT ![x].pc = "check"]
  /\ UNCHANGED <<kbVars, assetVars, runVars, job, gcVars, boundVars>>

\* delete_document and the deletion of folders and batches: the request itself
\* removes the documents D.
DeleteDocs(x, D) ==
  /\ ~InUse(x)
  /\ D # {} /\ D \subseteq Removable \cap DocsOf(DelKb[x])
  /\ KbIdle(DelKb[x])
  /\ purge' = [purge EXCEPT ![x] = [NoPurge EXCEPT !.pc = "docs", !.docs = D]]
  /\ UNCHANGED <<kbVars, assetVars, runVars, job, task, gcVars, boundVars>>

\* purge_kb looks for the KB and for unsettled runs; a PurgeError ends the task.
PurgeCheck(x) ==
  /\ purge[x].pc = "check"
  /\ LET on == DelKb[x] \in kbs /\ KbIdle(DelKb[x])
     IN /\ task' = [task EXCEPT ![x] = IF on THEN "running" ELSE "failed"]
        /\ purge' = [purge EXCEPT ![x] = IF on THEN [@ EXCEPT !.pc = "wipe"] ELSE NoPurge]
  /\ UNCHANGED <<kbVars, assetVars, runVars, job, gcVars, boundVars>>

\* The builds of the KB go, and its runs with their documents.
PurgeWipe(x) ==
  /\ purge[x].pc = "wipe"
  /\ LET k == DelKb[x]
     IN /\ builds' = [builds EXCEPT ![k] = << >>]
        /\ rstat' = [r \in Runs |->
             IF RunKb[r] = k /\ rstat[r] # "absent" THEN "gone" ELSE rstat[r]]
        /\ row' = [r \in Runs |-> [d \in Docs |-> IF RunKb[r] = k THEN NoRow ELSE row[r][d]]]
        /\ purge' = [purge EXCEPT ![x] = [@ EXCEPT !.pc = "docs", !.docs = DocsOf(k)]]
  /\ UNCHANGED <<kbVars, snap, links, staging, final, job, task, gcVars, boundVars>>

\* purge_documents: the documents that are there go, with their links, selections
\* and run rows.
PurgeDocs(x) ==
  /\ purge[x].pc = "docs"
  /\ purge[x].whole \/ purge[x].docs \subseteq docs
  /\ LET D == purge[x].docs \cap docs
         k == DelKb[x]
     IN /\ docs' = docs \ D
        /\ links' = {l \in links : l[1] \notin D}
        /\ builds' = [builds EXCEPT ![k] = [i \in DOMAIN builds[k] |->
             [builds[k][i] EXCEPT !.sel =
                [d \in Docs |-> IF d \in D THEN NoSnap ELSE builds[k][i].sel[d]]]]]
        /\ row' = [r \in Runs |-> [d \in Docs |-> IF d \in D THEN NoRow ELSE row[r][d]]]
        /\ purge' = [purge EXCEPT ![x] =
             [@ EXCEPT !.pc = "list", !.snaps = {l[2] : l \in {m \in links : m[1] \in D}}]]
  /\ UNCHANGED <<kbs, rev, snap, staging, final, rstat, job, task, gcVars, boundVars>>

\* A document of the request has gone meanwhile: a PurgeError.
DocsMissing(x) ==
  /\ purge[x].pc = "docs" /\ ~purge[x].whole /\ ~(purge[x].docs \subseteq docs)
  /\ purge' = [purge EXCEPT ![x] = NoPurge]
  /\ UNCHANGED <<kbVars, assetVars, runVars, job, task, gcVars, boundVars>>

\* Neither a link nor a selection of any build refers to snapshot s.
Orphan(s) ==
  /\ \A l \in links : l[2] # s
  /\ \A k \in Kbs : \A i \in DOMAIN builds[k] : \A d \in Docs : builds[k][i].sel[d] # s

\* The snapshots of S that nobody refers to.
Orphans(S) == {s \in S : Orphan(s)}

AfterReclaim(x) == IF purge[x].whole THEN [purge[x] EXCEPT !.pc = "kb"] ELSE NoPurge

\* _reclaim_snapshots_if_orphaned lists the orphans in one transaction ...
PurgeList(x) ==
  /\ purge[x].pc = "list"
  /\ purge' = [purge EXCEPT ![x] = [@ EXCEPT !.pc = "reclaim", !.snaps = Orphans(purge[x].snaps)]]
  /\ UNCHANGED <<kbVars, assetVars, runVars, job, task, gcVars, boundVars>>

\* ... and _delete_snapshot_rows deletes in another: the assets of all of them, the
\* rows of those that are still orphans.
PurgeReclaim(x) ==
  /\ purge[x].pc = "reclaim"
  /\ Erase(purge[x].snaps, {s \in purge[x].snaps : Orphan(s)})
  /\ purge' = [purge EXCEPT ![x] = AfterReclaim(x)]
  /\ UNCHANGED <<kbVars, links, builds, rstat, task, gcVars, boundVars>>

\* The row of the KB goes; a document uploaded meanwhile forbids it, and a KB that
\* another deletion has taken is an error.
PurgeKb(x) ==
  /\ purge[x].pc = "kb"
  /\ IF DelKb[x] \in kbs /\ DocsOf(DelKb[x]) = {}
     THEN /\ kbs' = kbs \ {DelKb[x]}
          /\ purge' = [purge EXCEPT ![x].pc = "done"]
          /\ UNCHANGED task
     ELSE /\ task' = [task EXCEPT ![x] = "failed"]
          /\ purge' = [purge EXCEPT ![x] = NoPurge]
          /\ UNCHANGED kbs
  /\ UNCHANGED <<docs, rev, assetVars, runVars, job, gcVars, boundVars>>

PurgeRecord(x) ==
  /\ purge[x].pc = "done"
  /\ task' = [task EXCEPT ![x] = "done"]
  /\ purge' = [purge EXCEPT ![x] = NoPurge]
  /\ UNCHANGED <<kbVars, assetVars, runVars, job, gcVars, boundVars>>

\* A statement of a deletion raises: the request ends, or the task is failed.
PurgeRaises(x) ==
  /\ purge[x].pc \notin Rests /\ faults < MaxFaults
  /\ faults' = faults + 1
  /\ task' = [task EXCEPT ![x] = IF @ \in Active THEN "failed" ELSE @]
  /\ purge' = [purge EXCEPT ![x] = NoPurge]
  /\ UNCHANGED <<kbVars, assetVars, runVars, job, gcVars, crashes, resumes>>

\* The same outage refuses the write of that failure: the task looks active, and nobody
\* works on it until the next start.
PurgeLost(x) ==
  /\ purge[x].pc \notin Rests /\ task[x] \in Active /\ faults < MaxFaults
  /\ faults' = faults + 1
  /\ purge' = [purge EXCEPT ![x] = [NoPurge EXCEPT !.pc = "lost"]]
  /\ UNCHANGED <<kbVars, assetVars, runVars, job, task, gcVars, crashes, resumes>>

PurgeStep(x) ==
  \/ StartTask(x) \/ PurgeCheck(x) \/ PurgeWipe(x) \/ PurgeDocs(x) \/ DocsMissing(x)
  \/ PurgeList(x) \/ PurgeReclaim(x) \/ PurgeKb(x) \/ PurgeRecord(x)

-----------------------------------------------------------------------------
\* Collection of snapshots, once a day.

\* Mutant: only snapshots that a document still links to.
LinkedOnly == {s \in Snaps : snap[s] = "READY" /\ s \notin Served /\ \E l \in links : l[2] = s}

\* Ready snapshots that serve no document; the code also asks for an hour of age.
Superseded == {s \in Snaps : snap[s] = "READY" /\ s \notin Served}

\* deprecate_superseded_snapshots: S are those older than an hour.
GcMark(S) ==
  /\ Collecting /\ gc = {} /\ doomed = NoSnap /\ S # {} /\ S \subseteq Superseded
  /\ snap' = [s \in Snaps |-> IF s \in S THEN "DEPRECATED" ELSE snap[s]]
  /\ UNCHANGED <<kbVars, links, builds, staging, final, runVars, job, purgeVars, gcVars, boundVars>>

\* Seven days pass; no job and no deletion lasts as long.
Week ==
  /\ Collecting /\ gc = {} /\ doomed = NoSnap
  /\ job.run = NoRun /\ \A x \in Deletions : purge[x].pc \in Rests
  /\ \E s \in Snaps : snap[s] = "DEPRECATED"
  /\ snap' = [s \in Snaps |-> IF snap[s] = "DEPRECATED" THEN "EXPIRED" ELSE snap[s]]
  /\ UNCHANGED <<kbVars, links, builds, staging, final, runVars, job, purgeVars, gcVars, boundVars>>

\* reclaim_deprecated_snapshots lists the expired snapshots once ...
GcList ==
  /\ Collecting /\ gc = {} /\ doomed = NoSnap
  /\ gc' = {s \in Snaps : snap[s] = "EXPIRED"} /\ gc' # {}
  /\ UNCHANGED <<kbVars, assetVars, runVars, job, purgeVars, doomed, boundVars>>

\* Mutant: the collection does not look again whom a listed snapshot serves.
NoRecheck(s) == FALSE

\* Listed for collection, snapshot s serves a document after all.
ServesAgain(s) == s \in Served

\* ... and takes them one by one: one that serves is revived, ...
Recheck(s) ==
  /\ s \in gc /\ doomed = NoSnap /\ gc' = gc \ {s}
  /\ IF ServesAgain(s)
     THEN snap' = [snap EXCEPT ![s] = "READY"] /\ UNCHANGED doomed
     ELSE doomed' = s /\ UNCHANGED snap
  /\ UNCHANGED <<kbVars, links, builds, staging, final, runVars, job, purgeVars, boundVars>>

\* ... and the next statements of the transaction delete one that does not, with the
\* references to it, whatever its status has become.
Reclaim(s) ==
  /\ doomed = s /\ s # NoSnap /\ doomed' = NoSnap
  /\ links' = {l \in links : l[2] # s}
  /\ builds' = [k \in Kbs |-> [i \in DOMAIN builds[k] |->
       [builds[k][i] EXCEPT !.sel = [d \in Docs |-> IF @[d] = s THEN NoSnap ELSE @[d]]]]]
  /\ Erase({s}, {s})
  /\ UNCHANGED <<kbVars, rstat, purgeVars, gc, boundVars>>

-----------------------------------------------------------------------------
Executor ==
  \/ \E r \in Runs : Claim(r)
  \/ Ingest
  \/ \E d \in Docs : Parse(d) \/ Persist(d) \/ GiveUp(d) \/ Record(d)
  \/ Index \/ EnterPublishing \/ Publish \/ Settle \/ Abort

Next ==
  \/ \E d \in Docs : Upload(d) \/ Edit(d)
  \/ \E r \in Runs : Enqueue(r) \/ Resume(r)
  \/ Executor
  \/ JobFails
  \/ Crash
  \/ \E x \in Deletions : DeleteKb(x) \/ PurgeStep(x) \/ PurgeRaises(x) \/ PurgeLost(x)
  \/ \E x \in Deletions, D \in SUBSET Docs : DeleteDocs(x, D)
  \/ \E S \in SUBSET Snaps : GcMark(S)
  \/ Week \/ GcList
  \/ \E s \in Snaps : Recheck(s) \/ Reclaim(s)

Spec == Init /\ [][Next]_vars

\* The steps of the daily loop.
Collection ==
  \/ GcMark(Superseded) \/ Week \/ GcList
  \/ \E s \in Snaps : Recheck(s) \/ Reclaim(s)

\* The executor, the deletion tasks and the daily loop keep going as long as one of
\* them has something to do; nobody owes uploads, requests or faults.
Fairness == WF_vars(Executor \/ (\E x \in Deletions : PurgeStep(x)) \/ Collection)

FairSpec == Spec /\ Fairness

-----------------------------------------------------------------------------
\* Every variable keeps to its values.
TypeOK ==
  /\ kbs \subseteq Kbs /\ docs \subseteq Docs
  /\ rev \in [Docs -> Nat] /\ \A d \in Docs : rev[d] <= Len(Content[d])
  /\ snap \in [Snaps -> {"none", "READY", "DEPRECATED", "EXPIRED"}]
  /\ links \subseteq Docs \X Snaps
  /\ \A k \in Kbs : \A i \in DOMAIN builds[k] :
       /\ builds[k][i].run \in Runs
       /\ builds[k][i].sel \in [Docs -> Snaps \cup {NoSnap}]
       /\ builds[k][i].made \subseteq Docs
  /\ staging \in [Snaps -> {"none", "ready", "poor"}]
  /\ final \subseteq Snaps
  /\ rstat \in [Runs -> {"absent", "queued", "running", "interrupted", "failed",
                         "completed", "gone"}]
  /\ row \in [Runs -> [Docs ->
       [st : {"none", "processing", "committed", "skipped", "failed"}, snap : Ids,
        retry : BOOLEAN, since : 0..Cardinality(Runs)]]]
  /\ job.run \in Runs \cup {NoRun}
  /\ job.pc \in {"idle", "ingest", "pipeline", "guard", "publish", "record"}
  /\ purge \in [Deletions ->
       [pc : {"idle", "asked", "check", "wipe", "docs", "list", "reclaim", "kb", "done",
              "lost"},
        docs : SUBSET Docs, snaps : SUBSET Snaps, whole : BOOLEAN]]
  /\ task \in [Deletions -> {"none", "queued", "running", "failed", "done"}]
  /\ gc \subseteq Snaps /\ doomed \in Snaps \cup {NoSnap}

\* What a search finds: every snapshot served has its assets in the final tables,
\* whatever was mined again, deleted next door or collected meanwhile.
ServingHasAssets == Served \subseteq final

\* A build that a run has committed and that is still there shows in the rows of
\* a completed run, also when the process died between the two.
BuildIsRecorded ==
  \A r \in Runs : rstat[r] = "completed" =>
    \A i \in DOMAIN builds[RunKb[r]] : builds[RunKb[r]][i].run = r =>
      \A d \in builds[RunKb[r]][i].made : row[r][d].st \in {"none", "committed"}

\* When a run completes, every document it has committed or skipped is served with
\* the version in its row: the build it made, or the one it found, has that version.
CompletedIsServed ==
  [][\A r \in Runs : rstat[r] = "running" /\ rstat'[r] = "completed" =>
       \A d \in docs : row[r][d].st \in {"committed", "skipped"} /\ row[r][d].snap \in Snaps
         => Serving(d) = row[r][d].snap]_vars

\* A document that was skipped because nothing changed keeps what serves it: a build
\* replaces the version of a document that its run did not mine only if the run has
\* skipped it against an older build, before another run of the knowledge base
\* published, or if the rows of the run went with its knowledge base.
SkipKeepsServing ==
  [][\A k \in Kbs : Len(builds'[k]) = Len(builds[k]) + 1 =>
       \A d \in DocsOf(k) :
         \/ d \in builds'[k][Len(builds'[k])].made
         \/ Serving(d)' = Serving(d)
         \/ /\ d \in job.skips
            /\ rstat[job.run] = "gone" \/ row[job.run][d].since # Len(builds[k])]_vars

\* A rejected document that is mined again is staged again: its chain does not
\* come back with the incomplete persist of the attempt that was rejected.
RetryRestages ==
  job.pc = "pipeline" /\ job.todo = {} =>
    \A d \in job.retry :
      row[job.run][d].st = "processing" /\ row[job.run][d].snap # NoSnap
        => \/ row[job.run][d].snap \in job.wrote
           \/ row[job.run][d].snap = Gone \/ staging[row[job.run][d].snap] = "ready"

\* A deletion task comes to an end, also across a crash and an error, when a document
\* is uploaded meanwhile and when its snapshots are shared or collected.  The one
\* exception is the task whose failure could not be recorded.
PurgeSettles ==
  \A x \in Deletions :
    task[x] \in Active ~> task[x] \in {"done", "failed"} \/ purge[x].pc = "lost"

\* Snapshot s is there, and nothing refers to it.
Unreferenced(s) == snap[s] # "none" /\ Orphan(s)

\* Snapshots that nothing refers to are not kept for ever, whichever step of which
\* deletion was lost: there comes a moment without any.
OrphansReclaimed ==
  (\E s \in Snaps : Unreferenced(s)) ~> (\A s \in Snaps : ~Unreferenced(s))

\* Somebody asked for the deletion of document d, or it is not there.
Asked(d) ==
  \/ d \notin docs
  \/ \E x \in Deletions : DelKb[x] = KbOf[d] /\ (task[x] \in Active \/ d \in purge[x].docs)

Store ==
  INSTANCE KbServing WITH
    Docs <- Docs, Snaps <- Snaps, NoSnap <- NoSnap,
    asked <- {d \in Docs : Asked(d)},
    served <- [d \in Docs |-> IF d \in docs THEN Serving(d) ELSE NoSnap],
    searchable <- final

\* The store implements the promise of KbServing: mining publishes versions with
\* their assets, only deletion withdraws, and only idle assets are dropped.
ImplementsServing == Store!Spec
=============================================================================
