----------------------------- MODULE KbStoreProofs -----------------------------
(***************************************************************************)
(* What holds of KbStore for every number of knowledge bases, documents,   *)
(* revisions, snapshots and runs, of crashes, failures and resumes.        *)
(***************************************************************************)
EXTENDS KbStore, DataLemmas, SequenceTheorems, FiniteSetTheorems, TLAPS

-----------------------------------------------------------------------------
(* Types.                                                                  *)

Rows == [st : {"none", "processing", "committed", "skipped", "failed"}, snap : Ids,
         retry : BOOLEAN, since : Nat]
BuildSet == [run : Runs, sel : [Docs -> Snaps \cup {NoSnap}], made : SUBSET Docs]
Jobs == [run : Runs \cup {NoRun}, pc : {"idle", "ingest", "pipeline", "guard", "publish", "record"},
         todo : SUBSET Docs, retry : SUBSET Docs, wrote : SUBSET Snaps, parsed : [Docs -> Ids],
         ready : SUBSET Docs, skips : SUBSET Docs, built : BOOLEAN, bad : BOOLEAN]
Purges == [pc : {"idle", "asked", "check", "wipe", "docs", "list", "reclaim", "kb", "done", "lost"},
           docs : SUBSET Docs, snaps : SUBSET Snaps, whole : BOOLEAN]
Tasks == {"none", "queued", "running", "failed", "done"}
Statuses == {"absent", "queued", "running", "interrupted", "failed", "completed", "gone"}

\* A document that is there has a revision, and a revision its content.
DocTypes ==
  /\ kbs \subseteq Kbs /\ docs \subseteq Docs /\ rev \in [Docs -> Nat]
  /\ \A d \in Docs : rev[d] <= Len(Content[d]) /\ (d \in docs => rev[d] # 0)
AssetTypes ==
  /\ snap \in [Snaps -> {"none", "READY", "DEPRECATED", "EXPIRED"}]
  /\ links \subseteq Docs \X Snaps /\ final \subseteq Snaps
  /\ staging \in [Snaps -> {"none", "ready", "poor"}]
BuildTypes == builds \in [Kbs -> Seq(BuildSet)]
RunTypes == rstat \in [Runs -> Statuses] /\ row \in [Runs -> [Docs -> Rows]]
JobTypes == job \in Jobs /\ (job.pc = "idle" <=> job.run = NoRun)
PurgeTypes ==
  /\ purge \in [Deletions -> Purges] /\ task \in [Deletions -> Tasks]
  /\ gc \subseteq Snaps /\ doomed \in Snaps \cup {NoSnap}

Typed == DocTypes /\ AssetTypes /\ BuildTypes /\ RunTypes /\ JobTypes /\ PurgeTypes

\* The steps that write each variable.
LEMMA Writers ==
  ASSUME [Next]_vars
  PROVE  /\ \/ UNCHANGED kbVars
            \/ (\E d \in Docs : Upload(d) \/ Edit(d)) \/ \E x \in Deletions : PurgeDocs(x) \/ PurgeKb(x)
         /\ \/ UNCHANGED builds
            \/ Publish \/ (\E x \in Deletions : PurgeWipe(x) \/ PurgeDocs(x)) \/ \E s \in Snaps : Reclaim(s)
         /\ \/ UNCHANGED links
            \/ (\E d \in Docs : Parse(d)) \/ (\E x \in Deletions : PurgeDocs(x)) \/ \E s \in Snaps : Reclaim(s)
         /\ \/ UNCHANGED snap
            \/ (\E d \in Docs : Parse(d)) \/ (\E x \in Deletions : PurgeReclaim(x))
            \/ (\E S \in SUBSET Snaps : GcMark(S)) \/ Week \/ \E s \in Snaps : Recheck(s) \/ Reclaim(s)
         /\ \/ UNCHANGED <<staging, final>>
            \/ (\E d \in Docs : Persist(d)) \/ Publish \/ (\E x \in Deletions : PurgeReclaim(x))
            \/ \E s \in Snaps : Reclaim(s)
         /\ \/ UNCHANGED rstat
            \/ (\E r \in Runs : Enqueue(r) \/ Claim(r) \/ Resume(r)) \/ Publish \/ Settle
            \/ JobFails \/ Crash \/ \E x \in Deletions : PurgeWipe(x)
         /\ \/ UNCHANGED row
            \/ Ingest \/ (\E d \in Docs : Persist(d) \/ GiveUp(d) \/ Record(d)) \/ Publish \/ JobFails
            \/ (\E x \in Deletions : PurgeWipe(x) \/ PurgeDocs(x) \/ PurgeReclaim(x)) \/ \E s \in Snaps : Reclaim(s)
         /\ \/ UNCHANGED job
            \/ (\E r \in Runs : Claim(r) \/ Resume(r)) \/ Ingest
            \/ (\E d \in Docs : Parse(d) \/ Persist(d) \/ GiveUp(d) \/ Record(d))
            \/ Index \/ EnterPublishing \/ Publish \/ Settle \/ JobFails \/ Abort \/ Crash
            \/ (\E x \in Deletions : PurgeReclaim(x)) \/ \E s \in Snaps : Reclaim(s)
         /\ \/ UNCHANGED <<purge, task>>
            \/ Crash \/ (\E x \in Deletions : DeleteKb(x) \/ PurgeStep(x) \/ PurgeRaises(x) \/ PurgeLost(x))
            \/ \E x \in Deletions, D \in SUBSET Docs : DeleteDocs(x, D)
         /\ UNCHANGED gc \/ Crash \/ GcList \/ \E s \in Snaps : Recheck(s)
         /\ UNCHANGED doomed \/ Crash \/ \E s \in Snaps : Recheck(s) \/ Reclaim(s)
<1> USE DEF Next, Executor, PurgeStep, vars, kbVars, assetVars, runVars, purgeVars, gcVars, boundVars,
     Upload, Edit, Enqueue, Claim, Resume, Start, Ingest, Parse, Persist, GiveUp, Index,
     EnterPublishing, Publish, Record, Settle, JobFails, Abort, Crash, DeleteKb, DeleteDocs,
     StartTask, PurgeCheck, PurgeWipe, PurgeDocs, DocsMissing, PurgeList, PurgeReclaim, PurgeKb,
     PurgeRecord, PurgeRaises, PurgeLost, GcMark, Week, GcList, Recheck, Reclaim
<1>1. \/ UNCHANGED kbVars
      \/ (\E d \in Docs : Upload(d) \/ Edit(d)) \/ \E x \in Deletions : PurgeDocs(x) \/ PurgeKb(x)
  OBVIOUS
<1>2. \/ UNCHANGED builds
      \/ Publish \/ (\E x \in Deletions : PurgeWipe(x) \/ PurgeDocs(x)) \/ \E s \in Snaps : Reclaim(s)
  OBVIOUS
<1>3. \/ UNCHANGED links
      \/ (\E d \in Docs : Parse(d)) \/ (\E x \in Deletions : PurgeDocs(x)) \/ \E s \in Snaps : Reclaim(s)
  OBVIOUS
<1>4. \/ UNCHANGED snap
      \/ (\E d \in Docs : Parse(d)) \/ (\E x \in Deletions : PurgeReclaim(x))
      \/ (\E S \in SUBSET Snaps : GcMark(S)) \/ Week \/ \E s \in Snaps : Recheck(s) \/ Reclaim(s)
  OBVIOUS
<1>5. \/ UNCHANGED <<staging, final>>
      \/ (\E d \in Docs : Persist(d)) \/ Publish \/ (\E x \in Deletions : PurgeReclaim(x))
      \/ \E s \in Snaps : Reclaim(s)
  OBVIOUS
<1>6. \/ UNCHANGED rstat
      \/ (\E r \in Runs : Enqueue(r) \/ Claim(r) \/ Resume(r)) \/ Publish \/ Settle
      \/ JobFails \/ Crash \/ \E x \in Deletions : PurgeWipe(x)
  OBVIOUS
<1>7. \/ UNCHANGED row
      \/ Ingest \/ (\E d \in Docs : Persist(d) \/ GiveUp(d) \/ Record(d)) \/ Publish \/ JobFails
      \/ (\E x \in Deletions : PurgeWipe(x) \/ PurgeDocs(x) \/ PurgeReclaim(x)) \/ \E s \in Snaps : Reclaim(s)
  OBVIOUS
<1>8. \/ UNCHANGED job
      \/ (\E r \in Runs : Claim(r) \/ Resume(r)) \/ Ingest
      \/ (\E d \in Docs : Parse(d) \/ Persist(d) \/ GiveUp(d) \/ Record(d))
      \/ Index \/ EnterPublishing \/ Publish \/ Settle \/ JobFails \/ Abort \/ Crash
      \/ (\E x \in Deletions : PurgeReclaim(x)) \/ \E s \in Snaps : Reclaim(s)
  OBVIOUS
<1>9. \/ UNCHANGED <<purge, task>>
      \/ Crash \/ (\E x \in Deletions : DeleteKb(x) \/ PurgeStep(x) \/ PurgeRaises(x) \/ PurgeLost(x))
      \/ \E x \in Deletions, D \in SUBSET Docs : DeleteDocs(x, D)
  OBVIOUS
<1>10. UNCHANGED gc \/ Crash \/ GcList \/ \E s \in Snaps : Recheck(s)
  OBVIOUS
<1>11. UNCHANGED doomed \/ Crash \/ \E s \in Snaps : Recheck(s) \/ Reclaim(s)
  OBVIOUS
<1> HIDE DEF Next, Executor, PurgeStep, vars, kbVars, assetVars, runVars, purgeVars, gcVars, boundVars,
     Upload, Edit, Enqueue, Claim, Resume, Start, Ingest, Parse, Persist, GiveUp, Index,
     EnterPublishing, Publish, Record, Settle, JobFails, Abort, Crash, DeleteKb, DeleteDocs,
     StartTask, PurgeCheck, PurgeWipe, PurgeDocs, DocsMissing, PurgeList, PurgeReclaim, PurgeKb,
     PurgeRecord, PurgeRaises, PurgeLost, GcMark, Week, GcList, Recheck, Reclaim
<1> QED
  BY <1>1, <1>2, <1>3, <1>4, <1>5, <1>6, <1>7, <1>8, <1>9, <1>10, <1>11

\* The types of constants and of the empty records.
LEMMA Empties ==
  /\ NoRow \in Rows /\ IdleJob \in Jobs /\ NoPurge \in Purges
  /\ \A d \in Docs : Len(Content[d]) \in Nat \ {0}
  /\ \A d \in Docs : \A i \in 1 .. Len(Content[d]) : Content[d][i] \in Snaps
<1>1. \A d \in Docs : Content[d] \in Seq(Snaps) /\ Content[d] # << >>
  BY KbAssumption
<1>2. \A d \in Docs : Len(Content[d]) \in Nat \ {0}
  BY <1>1, EmptySeq
<1>3. \A d \in Docs : \A i \in 1 .. Len(Content[d]) : Content[d][i] \in Snaps
  BY <1>1, ElementOfSeq
<1> QED
  BY <1>2, <1>3 DEF NoRow, Rows, IdleJob, Jobs, NoPurge, Purges, Ids

\* The content of a document that is there is a snapshot.
LEMMA CurrentType ==
  ASSUME DocTypes, NEW d \in docs
  PROVE  Current(d) \in Snaps
<1>1. rev[d] \in 1 .. Len(Content[d]) /\ d \in Docs
  BY Empties DEF DocTypes
<1> QED
  BY <1>1, Empties DEF Current

\* The builds of a knowledge base are numbered from one, and the latest of some of
\* them is one of these.
LEMMA LatestIsMember ==
  ASSUME BuildTypes, NEW k \in Kbs, NEW I \in SUBSET (DOMAIN builds[k]), I # {}
  PROVE  Latest(I) \in I /\ \A j \in I : j <= Latest(I)
<1>1. Len(builds[k]) \in Nat /\ DOMAIN builds[k] = 1 .. Len(builds[k])
  BY LenProperties DEF BuildTypes
<1>2. \E i \in I : \A j \in I : i >= j
  BY <1>1, BoundedHasGreatest
<1>3. \E i \in I : \A j \in I : j <= i
  BY <1>1, <1>2
<1> QED
  BY <1>3 DEF Latest

\* A build of a sequence of builds.
LEMMA BuildFacts ==
  ASSUME BuildTypes, NEW k \in Kbs
  PROVE  /\ Len(builds[k]) \in Nat /\ DOMAIN builds[k] = 1 .. Len(builds[k])
         /\ \A i \in DOMAIN builds[k] : builds[k][i] \in BuildSet
<1>1. builds[k] \in Seq(BuildSet)
  BY DEF BuildTypes
<1> QED
  BY <1>1, LenProperties, ElementOfSeq

\* What serves a document is the selection of a build.
LEMMA ServingSelected ==
  ASSUME BuildTypes, NEW d \in Docs
  PROVE  /\ Serving(d) \in Snaps \cup {NoSnap}
         /\ Serving(d) # NoSnap => \E i \in DOMAIN builds[KbOf[d]] : builds[KbOf[d]][i].sel[d] = Serving(d)
         /\ Serving(d) = NoSnap => \A i \in DOMAIN builds[KbOf[d]] : builds[KbOf[d]][i].sel[d] = NoSnap
<1>1. KbOf[d] \in Kbs
  BY KbAssumption
<1>2. CASE Selecting(KbOf[d], d) = {}
  BY <1>2 DEF Serving, Selecting
<1>3. CASE Selecting(KbOf[d], d) # {}
  <2>1. Selecting(KbOf[d], d) \in SUBSET (DOMAIN builds[KbOf[d]])
    BY DEF Selecting
  <2>2. Latest(Selecting(KbOf[d], d)) \in Selecting(KbOf[d], d)
    BY <1>1, <1>3, <2>1, LatestIsMember
  <2>3. PICK i \in DOMAIN builds[KbOf[d]] : i \in Selecting(KbOf[d], d) /\ Serving(d) = builds[KbOf[d]][i].sel[d]
    BY <1>3, <2>1, <2>2 DEF Serving
  <2>4. builds[KbOf[d]][i].sel \in [Docs -> Snaps \cup {NoSnap}]
    BY <1>1, BuildFacts DEF BuildSet
  <2> QED
    BY <2>3, <2>4 DEF Selecting
<1> QED
  BY <1>2, <1>3

-----------------------------------------------------------------------------
(* Every step keeps the types.                                             *)

\* What hangs on the snapshots S disappears, and with it every mention of those of T.
LEMMA Erased ==
  ASSUME Typed, NEW S \in SUBSET Snaps, NEW T \in SUBSET Snaps, Erase(S, T)
  PROVE  /\ staging' \in [Snaps -> {"none", "ready", "poor"}] /\ final' = final \ S
         /\ snap' \in [Snaps -> {"none", "READY", "DEPRECATED", "EXPIRED"}]
         /\ \A s \in Snaps : staging'[s] = IF s \in S THEN "none" ELSE staging[s]
         /\ row' \in [Runs -> [Docs -> Rows]] /\ job' \in Jobs
         /\ \A r \in Runs, d \in Docs :
              /\ row'[r][d].snap = IF row[r][d].snap \in T THEN Gone ELSE row[r][d].snap
              /\ row'[r][d].st = row[r][d].st /\ row'[r][d].since = row[r][d].since
         /\ \A d \in Docs : job'.parsed[d] = IF job.parsed[d] \in T THEN Gone ELSE job.parsed[d]
         /\ job'.run = job.run /\ job'.pc = job.pc /\ job'.ready = job.ready /\ job'.skips = job.skips
<1>1. Gone \in Ids
  BY DEF Ids
<1>2. \A r \in Runs, d \in Docs : row[r][d] \in Rows
  BY DEF Typed, RunTypes
<1>3. \A r \in Runs, d \in Docs :
        row'[r][d] = IF row[r][d].snap \in T THEN [row[r][d] EXCEPT !.snap = Gone] ELSE row[r][d]
  BY DEF Erase
<1>4. \A r \in Runs, d \in Docs :
        /\ row'[r][d] \in Rows
        /\ row'[r][d].snap = IF row[r][d].snap \in T THEN Gone ELSE row[r][d].snap
        /\ row'[r][d].st = row[r][d].st /\ row'[r][d].since = row[r][d].since
  <2> TAKE r \in Runs, d \in Docs
  <2>1. CASE row[r][d].snap \in T
    <3>1. row'[r][d] = [row[r][d] EXCEPT !.snap = Gone]
      BY <1>3, <2>1
    <3> QED
      BY <1>1, <1>2, <2>1, <3>1 DEF Rows
  <2>2. CASE row[r][d].snap \notin T
    <3>1. row'[r][d] = row[r][d]
      BY <1>3, <2>2
    <3> QED
      BY <1>2, <2>2, <3>1
  <2> QED
    BY <2>1, <2>2
<1>5. row' \in [Runs -> [Docs -> Rows]]
  BY <1>4 DEF Erase
<1> DEFINE left == [d \in Docs |-> IF job.parsed[d] \in T THEN Gone ELSE job.parsed[d]]
<1>6. job \in Jobs /\ job' = [job EXCEPT !.parsed = left]
  BY DEF Erase, Typed, JobTypes
<1>7. left \in [Docs -> Ids]
  BY <1>1, <1>6 DEF Jobs
<1>8. /\ job' \in Jobs /\ job'.parsed = left
      /\ job'.run = job.run /\ job'.pc = job.pc /\ job'.ready = job.ready /\ job'.skips = job.skips
  <2> HIDE DEF left
  <2> QED
    BY <1>6, <1>7 DEF Jobs
<1>9. /\ staging' \in [Snaps -> {"none", "ready", "poor"}] /\ final' = final \ S
      /\ snap' \in [Snaps -> {"none", "READY", "DEPRECATED", "EXPIRED"}]
      /\ \A s \in Snaps : staging'[s] = IF s \in S THEN "none" ELSE staging[s]
  BY DEF Erase, Typed, AssetTypes
<1> QED
  BY <1>4, <1>5, <1>8, <1>9

\* What the orphans of a deletion are.
LEMMA ReclaimErases ==
  ASSUME Typed, NEW x \in Deletions, PurgeReclaim(x)
  PROVE  /\ purge[x].snaps \in SUBSET Snaps
         /\ \E T \in SUBSET Snaps : Erase(purge[x].snaps, T) /\ T = {s \in purge[x].snaps : Orphan(s)}
<1>1. purge[x].snaps \in SUBSET Snaps
  BY DEF Typed, PurgeTypes, Purges
<1> QED
  BY <1>1 DEF PurgeReclaim

\* Documents keep a revision of their content.
LEMMA DocTyped == Typed /\ [Next]_vars => DocTypes'
<1> SUFFICES ASSUME Typed, [Next]_vars PROVE DocTypes'
  OBVIOUS
<1> USE DEF Typed, DocTypes
<1>1. CASE UNCHANGED kbVars
  BY <1>1 DEF kbVars
<1>2. ASSUME NEW d \in Docs, Upload(d) \/ Edit(d) PROVE DocTypes'
  <2>1. Len(Content[d]) \in Nat \ {0}
    BY Empties
  <2>2. CASE Upload(d)
    BY <2>1, <2>2 DEF Upload
  <2>3. CASE Edit(d)
    BY <2>1, <2>3 DEF Edit
  <2> QED
    BY <1>2, <2>2, <2>3
<1>3. ASSUME NEW x \in Deletions, PurgeDocs(x) \/ PurgeKb(x) PROVE DocTypes'
  BY <1>3 DEF PurgeDocs, PurgeKb
<1> QED
  BY <1>1, <1>2, <1>3, Writers

\* The snapshots, their links and their assets stay typed.
LEMMA AssetTyped == Typed /\ [Next]_vars => AssetTypes'
<1> SUFFICES ASSUME Typed, [Next]_vars PROVE AssetTypes'
  OBVIOUS
<1>1. AssetTypes /\ docs \subseteq Docs
  BY DEF Typed, DocTypes
<1>2. snap' \in [Snaps -> {"none", "READY", "DEPRECATED", "EXPIRED"}]
  <2>1. ASSUME NEW d \in Docs, Parse(d) PROVE snap' \in [Snaps -> {"none", "READY", "DEPRECATED", "EXPIRED"}]
    BY <1>1, <2>1 DEF Parse, AssetTypes
  <2>2. ASSUME NEW x \in Deletions, PurgeReclaim(x) PROVE snap' \in [Snaps -> {"none", "READY", "DEPRECATED", "EXPIRED"}]
    BY <2>2, ReclaimErases, Erased
  <2>3. ASSUME NEW s \in Snaps, Reclaim(s) PROVE snap' \in [Snaps -> {"none", "READY", "DEPRECATED", "EXPIRED"}]
    BY <1>1, <2>3, Erased DEF Reclaim, AssetTypes
  <2>4. ASSUME (\E S \in SUBSET Snaps : GcMark(S)) \/ Week \/ \E s \in Snaps : Recheck(s) PROVE snap' \in [Snaps -> {"none", "READY", "DEPRECATED", "EXPIRED"}]
    BY <1>1, <2>4 DEF GcMark, Week, Recheck, AssetTypes
  <2> QED
    BY <1>1, <2>1, <2>2, <2>3, <2>4, Writers DEF AssetTypes
<1>3. links' \subseteq Docs \X Snaps
  <2>1. ASSUME NEW d \in Docs, Parse(d) PROVE links' \subseteq Docs \X Snaps
    <3>1. Current(d) \in Snaps
      BY <2>1, CurrentType DEF Parse, Typed
    <3> QED
      BY <1>1, <2>1, <3>1 DEF Parse, AssetTypes
  <2>2. ASSUME \/ \E x \in Deletions : PurgeDocs(x)
               \/ \E s \in Snaps : Reclaim(s)
        PROVE  links' \subseteq links
    BY <2>2 DEF PurgeDocs, Reclaim
  <2> QED
    BY <1>1, <2>1, <2>2, Writers DEF AssetTypes
<1>4. staging' \in [Snaps -> {"none", "ready", "poor"}] /\ final' \subseteq Snaps
  <2>1. ASSUME NEW d \in Docs, Persist(d)
        PROVE  staging' \in [Snaps -> {"none", "ready", "poor"}] /\ final' \subseteq Snaps
    BY <1>1, <2>1 DEF Persist, AssetTypes
  <2>2. CASE Publish
    <3>1. CASE UNCHANGED <<staging, final>>
      BY <1>1, <3>1 DEF AssetTypes
    <3>2. CASE ~UNCHANGED <<staging, final>>
      BY <1>1, <2>2, <3>2 DEF Publish, Promoted, AssetTypes
    <3> QED
      BY <3>1, <3>2
  <2>3. ASSUME NEW x \in Deletions, PurgeReclaim(x)
        PROVE  staging' \in [Snaps -> {"none", "ready", "poor"}] /\ final' \subseteq Snaps
    <3>1. PICK T \in SUBSET Snaps : Erase(purge[x].snaps, T)
      BY <2>3, ReclaimErases
    <3>2. purge[x].snaps \in SUBSET Snaps
      BY <2>3, ReclaimErases
    <3>3. staging' \in [Snaps -> {"none", "ready", "poor"}] /\ final' = final \ purge[x].snaps
      BY <3>1, <3>2, Erased
    <3> QED
      BY <1>1, <3>3 DEF AssetTypes
  <2>4. ASSUME NEW s \in Snaps, Reclaim(s)
        PROVE  staging' \in [Snaps -> {"none", "ready", "poor"}] /\ final' \subseteq Snaps
    <3>1. {s} \in SUBSET Snaps /\ Erase({s}, {s})
      BY <2>4 DEF Reclaim
    <3>2. staging' \in [Snaps -> {"none", "ready", "poor"}] /\ final' = final \ {s}
      BY <3>1, Erased
    <3> QED
      BY <1>1, <3>2 DEF AssetTypes
  <2> QED
    BY <1>1, <2>1, <2>2, <2>3, <2>4, Writers DEF AssetTypes
<1> QED
  BY <1>2, <1>3, <1>4 DEF AssetTypes

\* A new build of the executor's knowledge base, and the assets it brings into force.
LEMMA Published ==
  ASSUME Typed, Publish, builds' # builds
  PROVE  /\ job.run \in Runs /\ RunKb[job.run] \in Kbs
         /\ NextSel \in [Docs -> Snaps \cup {NoSnap}]
         /\ builds' = [builds EXCEPT ![RunKb[job.run]] =
                         Append(@, [run |-> job.run, sel |-> NextSel, made |-> job.ready])]
         /\ Valid({job.parsed[d] : d \in job.ready} \cap Snaps)
         /\ final' = Promoted({job.parsed[d] : d \in job.ready} \cap Snaps)
         /\ rstat' = rstat /\ row' = row /\ job' = [job EXCEPT !.pc = "record", !.built = TRUE]
<1>1. job \in Jobs /\ job.run \in Runs
  BY DEF Publish, Typed, JobTypes, Jobs
<1>2. /\ Valid({job.parsed[d] : d \in job.ready} \cap Snaps)
      /\ builds' = [builds EXCEPT ![RunKb[job.run]] =
                         Append(@, [run |-> job.run, sel |-> NextSel, made |-> job.ready])]
      /\ final' = Promoted({job.parsed[d] : d \in job.ready} \cap Snaps)
      /\ UNCHANGED runVars /\ job' = [job EXCEPT !.pc = "record", !.built = TRUE]
  BY Zenon DEF Publish
<1>3. NextSel \in [Docs -> Snaps \cup {NoSnap}]
  <2>1. \A d \in Docs : Serving(d) \in Snaps \cup {NoSnap}
    BY ServingSelected DEF Typed
  <2>2. \A d \in Docs : job.parsed[d] \in Ids
    BY <1>1 DEF Jobs
  <2>3. \A d \in Docs : NextSel[d] \in Ids
    BY <2>1, <2>2 DEF NextSel, Ids
  <2>4. \A d \in Docs : NextSel[d] # NoSnap => NextSel[d] # Gone
    BY <1>2 DEF Valid
  <2>5. \A d \in Docs : NextSel[d] \in Snaps \cup {NoSnap}
    BY <2>3, <2>4 DEF Ids
  <2> QED
    BY <2>5 DEF NextSel
<1>4. RunKb[job.run] \in Kbs
  BY <1>1, KbAssumption
<1> QED
  BY <1>1, <1>2, <1>3, <1>4 DEF runVars

\* The builds are numbered and typed as they were when each has been replaced by one.
LEMMA Renumbered ==
  ASSUME BuildTypes, NEW new,
         new = [k \in Kbs |-> [i \in DOMAIN builds[k] |-> new[k][i]]],
         \A k \in Kbs : \A i \in DOMAIN builds[k] : new[k][i] \in BuildSet
  PROVE  /\ new \in [Kbs -> Seq(BuildSet)]
         /\ \A k \in Kbs : DOMAIN new[k] = DOMAIN builds[k] /\ Len(new[k]) = Len(builds[k])
<1>1. \A k \in Kbs : new[k] \in Seq(BuildSet) /\ DOMAIN new[k] = DOMAIN builds[k] /\ Len(new[k]) = Len(builds[k])
  <2> TAKE k \in Kbs
  <2>1. Len(builds[k]) \in Nat /\ DOMAIN builds[k] = 1 .. Len(builds[k])
    BY BuildFacts
  <2>2. new[k] \in [1 .. Len(builds[k]) -> BuildSet]
    BY <2>1
  <2> QED
    BY <2>1, <2>2, FunctionIsSeq
<1> QED
  BY <1>1

\* A deletion takes the selections of its documents.
LEMMA DocsCleared ==
  ASSUME Typed, NEW x \in Deletions, PurgeDocs(x)
  PROVE  /\ builds' \in [Kbs -> Seq(BuildSet)]
         /\ \A l \in Kbs : DOMAIN builds'[l] = DOMAIN builds[l] /\ Len(builds'[l]) = Len(builds[l])
         /\ \A l \in Kbs : \A i \in DOMAIN builds[l] :
              /\ builds'[l][i].run = builds[l][i].run /\ builds'[l][i].made = builds[l][i].made
              /\ \A d \in Docs : builds'[l][i].sel[d] =
                   IF l = DelKb[x] /\ d \in purge[x].docs \cap docs THEN NoSnap ELSE builds[l][i].sel[d]
<1>0. PICK k \in Kbs, D \in SUBSET Docs : k = DelKb[x] /\ D = purge[x].docs \cap docs
  BY KbAssumption DEF Typed, DocTypes
<1> DEFINE cut(b) == [d \in Docs |-> IF d \in D THEN NoSnap ELSE b.sel[d]]
<1>1. BuildTypes /\ builds \in [Kbs -> Seq(BuildSet)]
  BY DEF Typed, BuildTypes
<1>2. /\ builds' = [l \in Kbs |-> builds'[l]] /\ \A l \in Kbs : l # k => builds'[l] = builds[l]
      /\ builds'[k] = [i \in DOMAIN builds[k] |-> [builds[k][i] EXCEPT !.sel = cut(builds[k][i])]]
  <2> DEFINE fewer == [i \in DOMAIN builds[k] |-> [builds[k][i] EXCEPT !.sel = cut(builds[k][i])]]
  <2>1. builds' = [builds EXCEPT ![k] = fewer]
    BY <1>0, Zenon DEF PurgeDocs
  <2>2. /\ builds' = [l \in Kbs |-> builds'[l]] /\ \A l \in Kbs : l # k => builds'[l] = builds[l]
        /\ builds'[k] = fewer
    <3> HIDE DEF fewer
    <3> QED
      BY <1>1, <2>1
  <2> QED
    BY <2>2
<1>3. \A i \in DOMAIN builds[k] :
        /\ builds'[k][i] = [builds[k][i] EXCEPT !.sel = cut(builds[k][i])]
        /\ builds[k][i] \in BuildSet /\ cut(builds[k][i]) \in [Docs -> Snaps \cup {NoSnap}]
  BY <1>1, <1>2, BuildFacts DEF BuildSet
<1>4. \A i \in DOMAIN builds[k] :
        /\ builds'[k][i] \in BuildSet /\ builds'[k][i].sel = cut(builds[k][i])
        /\ builds'[k][i].run = builds[k][i].run /\ builds'[k][i].made = builds[k][i].made
  <2> TAKE i \in DOMAIN builds[k]
  <2> HIDE DEF cut
  <2> QED
    BY <1>3 DEF BuildSet
<1>5. \A l \in Kbs : l # k => builds'[l] = builds[l]
  BY <1>1, <1>2
<1>6. \A l \in Kbs : \A i \in DOMAIN builds[l] : builds'[l][i] \in BuildSet
  BY <1>1, <1>4, <1>5, BuildFacts
<1>7. builds' = [l \in Kbs |-> [i \in DOMAIN builds[l] |-> builds'[l][i]]]
  <2>1. \A l \in Kbs : l # k => builds'[l] = [i \in DOMAIN builds[l] |-> builds'[l][i]]
    <3> TAKE l \in Kbs
    <3>1. builds[l] \in [1 .. Len(builds[l]) -> BuildSet] /\ DOMAIN builds[l] = 1 .. Len(builds[l])
      BY <1>1, ElementOfSeq, LenProperties
    <3> QED
      BY <1>5, <3>1
  <2>2. builds'[k] = [i \in DOMAIN builds[k] |-> builds'[k][i]]
    BY <1>1, <1>2
  <2>3. builds' = [l \in Kbs |-> builds'[l]]
    BY <1>1, <1>2
  <2> QED
    BY <2>1, <2>2, <2>3
<1>8. /\ builds' \in [Kbs -> Seq(BuildSet)]
      /\ \A l \in Kbs : DOMAIN builds'[l] = DOMAIN builds[l] /\ Len(builds'[l]) = Len(builds[l])
  BY <1>1, <1>6, <1>7, Renumbered
<1>9. \A l \in Kbs : \A i \in DOMAIN builds[l] :
        /\ builds'[l][i].run = builds[l][i].run /\ builds'[l][i].made = builds[l][i].made
        /\ \A d \in Docs : builds'[l][i].sel[d] =
             IF l = k /\ d \in D THEN NoSnap ELSE builds[l][i].sel[d]
  <2> TAKE l \in Kbs
  <2> TAKE i \in DOMAIN builds[l]
  <2>1. CASE l = k
    BY <1>4, <2>1
  <2>2. CASE l # k
    BY <1>5, <2>2
  <2> QED
    BY <2>1, <2>2
<1> QED
  BY <1>0, <1>8, <1>9

\* The collection of a snapshot takes its selections and its links.
LEMMA SnapCleared ==
  ASSUME Typed, NEW s \in Snaps, Reclaim(s)
  PROVE  /\ builds' \in [Kbs -> Seq(BuildSet)]
         /\ \A l \in Kbs : DOMAIN builds'[l] = DOMAIN builds[l] /\ Len(builds'[l]) = Len(builds[l])
         /\ \A l \in Kbs : \A i \in DOMAIN builds[l] :
              /\ builds'[l][i].run = builds[l][i].run /\ builds'[l][i].made = builds[l][i].made
              /\ \A d \in Docs : builds'[l][i].sel[d] =
                   IF builds[l][i].sel[d] = s THEN NoSnap ELSE builds[l][i].sel[d]
<1> DEFINE cut(b) == [d \in Docs |-> IF b.sel[d] = s THEN NoSnap ELSE b.sel[d]]
<1>1. BuildTypes /\ builds \in [Kbs -> Seq(BuildSet)]
  BY DEF Typed, BuildTypes
<1>2. builds' = [l \in Kbs |-> [i \in DOMAIN builds[l] |-> [builds[l][i] EXCEPT !.sel = cut(builds[l][i])]]]
  BY DEF Reclaim
<1>3. \A l \in Kbs : \A i \in DOMAIN builds[l] :
        /\ builds'[l][i] = [builds[l][i] EXCEPT !.sel = cut(builds[l][i])]
        /\ builds[l][i] \in BuildSet /\ cut(builds[l][i]) \in [Docs -> Snaps \cup {NoSnap}]
  BY <1>1, <1>2, BuildFacts DEF BuildSet
<1>4. \A l \in Kbs : \A i \in DOMAIN builds[l] :
        /\ builds'[l][i] \in BuildSet /\ builds'[l][i].sel = cut(builds[l][i])
        /\ builds'[l][i].run = builds[l][i].run /\ builds'[l][i].made = builds[l][i].made
  <2> TAKE l \in Kbs
  <2> TAKE i \in DOMAIN builds[l]
  <2>1. /\ builds'[l][i] = [builds[l][i] EXCEPT !.sel = cut(builds[l][i])]
        /\ builds[l][i] \in BuildSet /\ cut(builds[l][i]) \in [Docs -> Snaps \cup {NoSnap}]
    BY <1>3
  <2> HIDE DEF cut
  <2> QED
    BY <2>1 DEF BuildSet
<1>5. builds' = [l \in Kbs |-> [i \in DOMAIN builds[l] |-> builds'[l][i]]]
  BY <1>2
<1>6. /\ builds' \in [Kbs -> Seq(BuildSet)]
      /\ \A l \in Kbs : DOMAIN builds'[l] = DOMAIN builds[l] /\ Len(builds'[l]) = Len(builds[l])
  BY <1>1, <1>4, <1>5, Renumbered
<1>7. \A l \in Kbs : \A i \in DOMAIN builds[l] : \A d \in Docs :
        builds'[l][i].sel[d] = IF builds[l][i].sel[d] = s THEN NoSnap ELSE builds[l][i].sel[d]
  <2> TAKE l \in Kbs
  <2> TAKE i \in DOMAIN builds[l]
  <2>1. builds'[l][i].sel = cut(builds[l][i])
    BY <1>4
  <2> QED
    BY <2>1
<1> QED
  BY <1>4, <1>6, <1>7

\* The builds of each knowledge base stay a sequence of builds.
LEMMA BuildTyped == Typed /\ [Next]_vars => BuildTypes'
<1> SUFFICES ASSUME Typed, [Next]_vars PROVE BuildTypes'
  OBVIOUS
<1>1. BuildTypes /\ builds \in [Kbs -> Seq(BuildSet)]
  BY DEF Typed, BuildTypes
<1>2. CASE UNCHANGED builds
  BY <1>1, <1>2 DEF BuildTypes
<1>3. CASE Publish /\ builds' # builds
  <2> DEFINE b == [run |-> job.run, sel |-> NextSel, made |-> job.ready]
  <2>1. b \in BuildSet
    BY <1>3, Published DEF Typed, JobTypes, Jobs, BuildSet
  <2>2. Append(builds[RunKb[job.run]], b) \in Seq(BuildSet)
    <3> HIDE DEF b
    <3> QED
      BY <1>1, <1>3, <2>1, Published, AppendProperties
  <2> QED
    BY <1>1, <1>3, <2>2, Published DEF BuildTypes
<1>4. ASSUME NEW x \in Deletions, PurgeWipe(x) PROVE BuildTypes'
  <2>1. << >> \in Seq(BuildSet)
    BY EmptySeq
  <2> QED
    BY <1>1, <1>4, <2>1 DEF PurgeWipe, BuildTypes
<1>5. ASSUME NEW x \in Deletions, PurgeDocs(x) PROVE BuildTypes'
  BY <1>5, DocsCleared DEF BuildTypes
<1>6. ASSUME NEW s \in Snaps, Reclaim(s) PROVE BuildTypes'
  BY <1>6, SnapCleared DEF BuildTypes
<1> QED
  BY <1>2, <1>3, <1>4, <1>5, <1>6, Writers

\* The job of the executor and the row that it works on.
LEMMA AtWork ==
  ASSUME Typed, job.pc # "idle"
  PROVE  job \in Jobs /\ job.run \in Runs /\ \A d \in Docs : row[job.run][d] \in Rows
  BY DEF Typed, JobTypes, Jobs, RunTypes

\* What _prepare_document_states writes: a row that is new is skipped, with the snapshot
\* that serves its document, or mined; one that is there keeps its snapshot.
LEMMA PreparedRow ==
  ASSUME Typed, NEW r \in Runs, NEW d \in docs
  PROVE  /\ Prepared(r, d) \in Rows
         /\ row[r][d].st = "none" =>
              \/ /\ Prepared(r, d).st = "skipped" /\ Prepared(r, d).snap = Serving(d)
                 /\ Serving(d) \in Snaps /\ <<d, Serving(d)>> \in links
              \/ Prepared(r, d).st = "processing" /\ Prepared(r, d).snap = NoSnap
         /\ row[r][d].st # "none" =>
              /\ Prepared(r, d).snap = row[r][d].snap
              /\ Prepared(r, d).st \in {row[r][d].st, "processing"}
         /\ Prepared(r, d).since \in {row[r][d].since, Len(builds[RunKb[r]])}
<1>1. d \in Docs /\ row[r][d] \in Rows /\ RunKb[r] \in Kbs
  BY KbAssumption DEF Typed, DocTypes, RunTypes
<1>2. Len(builds[RunKb[r]]) \in Nat
  BY <1>1, BuildFacts DEF Typed
<1>3. Serving(d) \in Snaps \cup {NoSnap} /\ Current(d) \in Snaps
  BY <1>1, ServingSelected, CurrentType DEF Typed
<1>4. CASE row[r][d].st = "none" /\ r \notin Forced /\ Unchanged(d)
  <2>1. Serving(d) \in Snaps /\ <<d, Serving(d)>> \in links
    BY <1>3, <1>4 DEF Unchanged
  <2>2. Prepared(r, d) = [st |-> "skipped", snap |-> Serving(d), retry |-> FALSE, since |-> Len(builds[RunKb[r]])]
    BY <1>4 DEF Prepared
  <2> QED
    BY <1>2, <1>4, <2>1, <2>2 DEF Rows, Ids
<1>5. CASE row[r][d].st = "none" /\ ~(r \notin Forced /\ Unchanged(d))
  <2>1. Prepared(r, d) = [st |-> "processing", snap |-> NoSnap, retry |-> FALSE, since |-> Len(builds[RunKb[r]])]
    BY <1>5 DEF Prepared
  <2> QED
    BY <1>2, <1>5, <2>1 DEF Rows, Ids
<1>6. CASE row[r][d].st \in {"committed", "skipped"}
  BY <1>1, <1>6 DEF Prepared
<1>7. CASE row[r][d].st \notin {"none", "committed", "skipped"}
  <2>1. PICK b \in BOOLEAN : b = Rejected(row[r][d])
    BY Zenon DEF Rejected
  <2>2. Prepared(r, d) = [row[r][d] EXCEPT !.st = "processing", !.retry = b]
    BY <1>7, <2>1 DEF Prepared
  <2> QED
    BY <1>1, <1>7, <2>2 DEF Rows
<1> QED
  BY <1>4, <1>5, <1>6, <1>7

\* The rows after _prepare_document_states.
LEMMA IngestedRows ==
  ASSUME Typed, Ingest
  PROVE  /\ job.run \in Runs /\ row' \in [Runs -> [Docs -> Rows]]
         /\ \A d \in Docs : row'[job.run][d] =
              IF d \in DocsOf(RunKb[job.run]) THEN Prepared(job.run, d) ELSE row[job.run][d]
         /\ \A r \in Runs \ {job.run}, d \in Docs : row'[r][d] = row[r][d]
<1>1. job.run \in Runs
  BY AtWork DEF Ingest
<1> DEFINE new == [d \in Docs |-> IF d \in DocsOf(RunKb[job.run]) THEN Prepared(job.run, d) ELSE row[job.run][d]]
<1>2. row' = [row EXCEPT ![job.run] = new]
  BY Zenon DEF Ingest
<1>3. new \in [Docs -> Rows]
  BY <1>1, PreparedRow DEF DocsOf, Typed, RunTypes
<1>4. /\ row' \in [Runs -> [Docs -> Rows]] /\ row'[job.run] = new
      /\ \A r \in Runs \ {job.run}, d \in Docs : row'[r][d] = row[r][d]
  <2> HIDE DEF new
  <2> QED
    BY <1>1, <1>2, <1>3 DEF Typed, RunTypes
<1> QED
  BY <1>1, <1>4

\* The identity of the staged snapshot is written to a row that has none, at most.
LEMMA PersistedRows ==
  ASSUME Typed, NEW d \in Docs, Persist(d)
  PROVE  /\ row' \in [Runs -> [Docs -> Rows]] /\ job.run \in Runs
         /\ \A r \in Runs, e \in Docs : r # job.run \/ e # d => row'[r][e] = row[r][e]
         /\ \/ row'[job.run][d] = row[job.run][d]
            \/ /\ row'[job.run][d] = [row[job.run][d] EXCEPT !.snap = job.parsed[d]]
               /\ row[job.run][d].st # "none" /\ Marker(row[job.run][d]) = NoSnap /\ job.parsed[d] \in Snaps
<1>1. job \in Jobs /\ job.run \in Runs /\ row[job.run][d] \in Rows
  BY AtWork DEF Persist
<1>2. CASE row' = row
  BY <1>1, <1>2 DEF Typed, RunTypes
<1>3. CASE row' # row
  <2> DEFINE x == row[job.run][d]
             y == [x EXCEPT !.snap = IF x.st = "none" THEN x.snap ELSE job.parsed[d]]
  <2>1. row' = [row EXCEPT ![job.run] = [row[job.run] EXCEPT ![d] = y]] /\ Marker(x) = NoSnap
    BY <1>3 DEF Persist
  <2>2. job.parsed[d] \in Snaps
    BY DEF Persist
  <2>3. y \in Rows
    BY <1>1, <2>2 DEF Rows, Ids
  <2>4. /\ row' \in [Runs -> [Docs -> Rows]] /\ row'[job.run][d] = y
        /\ \A r \in Runs, e \in Docs : r # job.run \/ e # d => row'[r][e] = row[r][e]
    <3> HIDE DEF x, y
    <3> QED
      BY <1>1, <2>1, <2>3 DEF Typed, RunTypes
  <2>5. y = x \/ (y = [x EXCEPT !.snap = job.parsed[d]] /\ x.st # "none")
    BY <1>1 DEF Rows
  <2> QED
    BY <1>1, <2>1, <2>2, <2>4, <2>5
<1> QED
  BY <1>2, <1>3

\* A row that is there ends: by the end of its chain, by the record of the run.
LEMMA EndedRows ==
  ASSUME Typed, NEW d \in Docs, GiveUp(d) \/ Record(d)
  PROVE  /\ row' \in [Runs -> [Docs -> Rows]] /\ job.run \in Runs
         /\ \A r \in Runs, e \in Docs : r # job.run \/ e # d => row'[r][e] = row[r][e]
         /\ row'[job.run][d].snap = row[job.run][d].snap /\ row'[job.run][d].since = row[job.run][d].since
         /\ \/ row'[job.run][d].st = row[job.run][d].st
            \/ row[job.run][d].st # "none" /\ row'[job.run][d].st \in {"committed", "failed"}
<1>1. job \in Jobs /\ job.run \in Runs /\ row[job.run][d] \in Rows
  BY AtWork DEF GiveUp, Record
<1> DEFINE x == row[job.run][d]
<1>2. PICK st \in {"none", "processing", "committed", "skipped", "failed"} :
        /\ row' = [row EXCEPT ![job.run] = [row[job.run] EXCEPT ![d] = [x EXCEPT !.st = st]]]
        /\ st = x.st \/ (x.st # "none" /\ st \in {"committed", "failed"})
  <2>1. CASE GiveUp(d)
    <3> DEFINE st == IF x.st = "none" \/ Marker(x) # NoSnap THEN x.st ELSE "failed"
    <3>1. row' = [row EXCEPT ![job.run] = [row[job.run] EXCEPT ![d] = [x EXCEPT !.st = st]]]
      BY <2>1 DEF GiveUp
    <3>2. st \in {"none", "processing", "committed", "skipped", "failed"} /\ (st = x.st \/ (x.st # "none" /\ st = "failed"))
      BY <1>1 DEF Rows
    <3> QED
      BY <3>1, <3>2
  <2>2. CASE Record(d)
    <3> DEFINE st == IF x.st = "none" THEN x.st ELSE IF d \in job.ready THEN "committed" ELSE "failed"
    <3>1. row' = [row EXCEPT ![job.run] = [row[job.run] EXCEPT ![d] = [x EXCEPT !.st = st]]]
      BY <2>2 DEF Record
    <3>2. /\ st \in {"none", "processing", "committed", "skipped", "failed"}
          /\ st = x.st \/ (x.st # "none" /\ st \in {"committed", "failed"})
      BY <1>1 DEF Rows
    <3> QED
      BY <3>1, <3>2
  <2> QED
    BY <2>1, <2>2
<1> DEFINE y == [x EXCEPT !.st = st]
<1>3. y \in Rows /\ y.snap = x.snap /\ y.since = x.since /\ y.st = st
  BY <1>1 DEF Rows
<1>4. /\ row' \in [Runs -> [Docs -> Rows]] /\ row'[job.run][d] = y
      /\ \A r \in Runs, e \in Docs : r # job.run \/ e # d => row'[r][e] = row[r][e]
  <2>1. row' = [row EXCEPT ![job.run] = [row[job.run] EXCEPT ![d] = y]]
    BY <1>2
  <2> HIDE DEF x, y
  <2> QED
    BY <1>1, <2>1, <1>3 DEF Typed, RunTypes
<1> QED
  BY <1>1, <1>2, <1>3, <1>4

\* The rows of run r that were being processed fail.
LEMMA FailedRows ==
  ASSUME Typed, NEW r \in Runs, FailRun(r)
  PROVE  /\ row' \in [Runs -> [Docs -> Rows]] /\ job' = IdleJob
         /\ rstat' = [rstat EXCEPT ![r] = IF rstat[r] = "running" THEN "failed" ELSE rstat[r]]
         /\ \A q \in Runs, d \in Docs : q # r => row'[q][d] = row[q][d]
         /\ \A d \in Docs : /\ row'[r][d].snap = row[r][d].snap /\ row'[r][d].since = row[r][d].since
                            /\ row'[r][d].st = IF row[r][d].st = "processing" THEN "failed" ELSE row[r][d].st
<1> DEFINE new == [d \in Docs |-> IF row[r][d].st = "processing" THEN [row[r][d] EXCEPT !.st = "failed"] ELSE row[r][d]]
<1>1. row' = [row EXCEPT ![r] = new]
  BY Zenon DEF FailRun
<1>2. \A d \in Docs : row[r][d] \in Rows
  BY DEF Typed, RunTypes
<1>3. \A d \in Docs : /\ new[d] \in Rows /\ new[d].snap = row[r][d].snap /\ new[d].since = row[r][d].since
                      /\ new[d].st = IF row[r][d].st = "processing" THEN "failed" ELSE row[r][d].st
  <2> TAKE d \in Docs
  <2>1. CASE row[r][d].st = "processing"
    BY <1>2, <2>1 DEF Rows
  <2>2. CASE row[r][d].st # "processing"
    BY <1>2, <2>2
  <2> QED
    BY <2>1, <2>2
<1>4. new \in [Docs -> Rows]
  BY <1>3
<1>5. /\ row' \in [Runs -> [Docs -> Rows]] /\ row'[r] = new
      /\ \A q \in Runs, d \in Docs : q # r => row'[q][d] = row[q][d]
  <2> HIDE DEF new
  <2> QED
    BY <1>1, <1>4 DEF Typed, RunTypes
<1>6. job' = IdleJob /\ rstat' = [rstat EXCEPT ![r] = IF rstat[r] = "running" THEN "failed" ELSE rstat[r]]
  BY DEF FailRun
<1> QED
  BY <1>3, <1>5, <1>6

\* A publication that fails, and a job that does.
LEMMA Failures ==
  ASSUME Typed, JobFails \/ (Publish /\ UNCHANGED builds)
  PROVE  job.run \in Runs /\ FailRun(job.run)
<1>1. job.run \in Runs
  BY DEF JobFails, Publish, Typed, JobTypes, Jobs
<1>2. CASE Publish /\ builds' = builds
  <2> DEFINE S == {job.parsed[d] : d \in job.ready} \cap Snaps
             b == [run |-> job.run, sel |-> NextSel, made |-> job.ready]
  <2>1. RunKb[job.run] \in Kbs
    BY <1>1, KbAssumption
  <2>2. \/ builds' = [builds EXCEPT ![RunKb[job.run]] = Append(@, b)]
        \/ FailRun(job.run)
    BY <1>2, Zenon DEF Publish
  <2>3. ASSUME builds' = [builds EXCEPT ![RunKb[job.run]] = Append(@, b)] PROVE FALSE
    <3> HIDE DEF b
    <3>1. builds' = [builds EXCEPT ![RunKb[job.run]] = Append(builds[RunKb[job.run]], b)]
      BY <2>3
    <3>2. builds[RunKb[job.run]] = Append(builds[RunKb[job.run]], b)
      BY <1>2, <2>1, <3>1 DEF Typed, BuildTypes
    <3>3. Len(builds[RunKb[job.run]]) \in Nat
      BY <2>1, BuildFacts DEF Typed
    <3>4. Len(Append(builds[RunKb[job.run]], b)) = Len(builds[RunKb[job.run]]) + 1
      <4>1. b \in {b} \cup BuildSet /\ builds[RunKb[job.run]] \in Seq({b} \cup BuildSet)
        BY <2>1, SeqMonotonic DEF Typed, BuildTypes
      <4> QED
        BY <4>1, AppendProperties
    <3> QED
      BY <3>2, <3>3, <3>4
  <2> QED
    BY <1>1, <2>2, <2>3
<1> QED
  BY <1>1, <1>2 DEF JobFails

\* The runs and their rows stay typed.
LEMMA RunTyped == Typed /\ [Next]_vars => RunTypes'
<1> SUFFICES ASSUME Typed, [Next]_vars PROVE RunTypes'
  OBVIOUS
<1>1. rstat \in [Runs -> Statuses] /\ row \in [Runs -> [Docs -> Rows]]
  BY DEF Typed, RunTypes
<1>2. ASSUME JobFails \/ (Publish /\ UNCHANGED builds)
      PROVE  rstat' \in [Runs -> Statuses] /\ row' \in [Runs -> [Docs -> Rows]]
  <2>1. job.run \in Runs /\ FailRun(job.run)
    BY <1>2, Failures
  <2>2. /\ row' \in [Runs -> [Docs -> Rows]]
        /\ rstat' = [rstat EXCEPT ![job.run] = IF rstat[job.run] = "running" THEN "failed" ELSE rstat[job.run]]
    BY <2>1, FailedRows
  <2> QED
    BY <1>1, <2>1, <2>2 DEF Statuses
<1>3. ASSUME Publish, builds' # builds
      PROVE  rstat' \in [Runs -> Statuses] /\ row' \in [Runs -> [Docs -> Rows]]
  BY <1>1, <1>3, Published
<1>4. rstat' \in [Runs -> Statuses]
  <2>1. ASSUME NEW r \in Runs, Enqueue(r) \/ Claim(r) \/ Resume(r) PROVE rstat' \in [Runs -> Statuses]
    BY <1>1, <2>1 DEF Enqueue, Claim, Resume, Start, Statuses
  <2>2. CASE Settle
    BY <1>1, <2>2 DEF Settle, Statuses
  <2>3. CASE Crash
    BY <1>1, <2>3 DEF Crash, Statuses
  <2>4. ASSUME NEW x \in Deletions, PurgeWipe(x) PROVE rstat' \in [Runs -> Statuses]
    BY <1>1, <2>4 DEF PurgeWipe, Statuses
  <2> QED
    BY <1>1, <1>2, <1>3, <2>1, <2>2, <2>3, <2>4, Writers
<1>5. row' \in [Runs -> [Docs -> Rows]]
  <2>1. ASSUME NEW d \in Docs, Persist(d) PROVE row' \in [Runs -> [Docs -> Rows]]
    BY <2>1, PersistedRows
  <2>2. ASSUME NEW d \in Docs, GiveUp(d) \/ Record(d) PROVE row' \in [Runs -> [Docs -> Rows]]
    BY <2>2, EndedRows
  <2>3. ASSUME NEW x \in Deletions, PurgeWipe(x) \/ PurgeDocs(x) PROVE row' \in [Runs -> [Docs -> Rows]]
    BY <1>1, <2>3, Empties, SMTT(60) DEF PurgeWipe, PurgeDocs
  <2>4. ASSUME NEW x \in Deletions, PurgeReclaim(x) PROVE row' \in [Runs -> [Docs -> Rows]]
    BY <2>4, ReclaimErases, Erased
  <2>5. ASSUME NEW s \in Snaps, Reclaim(s) PROVE row' \in [Runs -> [Docs -> Rows]]
    <3>1. {s} \in SUBSET Snaps
      OBVIOUS
    <3> QED
      BY <1>1, <2>5, <3>1, Erased DEF Reclaim
  <2> QED
    BY <1>1, <1>2, <1>3, <2>1, <2>2, <2>3, <2>4, <2>5, IngestedRows, Writers
<1> QED
  BY <1>4, <1>5 DEF RunTypes

\* What the indexing of a run decides: the rows with a snapshot that is staged, or built
\* already, are ready.
LEMMA Indexed ==
  ASSUME Typed, Index
  PROVE  /\ job' \in Jobs /\ job.run \in Runs /\ job'.run = job.run
         /\ job'.pc \in {"guard", "record"} /\ job'.wrote = {} /\ job'.retry = {}
         /\ job'.pc = "guard" => BuildOf(job.run) = {}
         /\ \A d \in job'.ready : /\ row[job.run][d].st \in {"committed", "processing"}
                                  /\ row[job.run][d].snap # NoSnap
                                  /\ job'.parsed[d] = row[job.run][d].snap
                                  /\ job'.pc = "guard" => /\ job'.parsed[d] \in Snaps
                                                          /\ staging[job'.parsed[d]] = "ready"
         /\ \A d \in job'.skips : row[job.run][d].st = "skipped" /\ job'.parsed[d] = row[job.run][d].snap
         /\ \A d \in Docs : job'.parsed[d] \in {NoSnap, row[job.run][d].snap}
<1>1. job \in Jobs /\ job.run \in Runs /\ \A d \in Docs : row[job.run][d] \in Rows
  BY AtWork DEF Index
<1> DEFINE r == job.run
           x == row[r]
           done == BuildOf(r)
           rows == {d \in Docs : x[d].st # "none"}
           skips == {d \in rows : x[d].st = "skipped"}
           cand == {d \in rows : x[d].st \in {"committed", "processing"} /\ x[d].snap # NoSnap}
           ready == {d \in cand :
                       IF done # {}
                       THEN \E i \in done : d \in builds[RunKb[r]][i].made
                                            /\ builds[RunKb[r]][i].sel[d] = x[d].snap
                       ELSE x[d].snap \in Snaps /\ staging[x[d].snap] = "ready"}
           parsed == [d \in Docs |-> IF d \in ready \cup skips THEN x[d].snap ELSE NoSnap]
           pc == IF done = {} /\ ready # {} THEN "guard" ELSE "record"
<1>2. PICK built \in BOOLEAN, bad \in BOOLEAN : built = (done # {}) /\ bad = ((rows \ skips) \ ready # {})
  OBVIOUS
<1>3. job' = [IdleJob EXCEPT !.run = r, !.ready = ready, !.skips = skips, !.parsed = parsed,
                !.todo = rows \ skips, !.built = built, !.bad = bad, !.pc = pc]
  BY <1>2, Zenon DEF Index
<1>4. /\ ready \subseteq Docs /\ skips \subseteq Docs /\ rows \subseteq Docs /\ parsed \in [Docs -> Ids]
      /\ pc \in {"guard", "record"} /\ (pc = "guard" => done = {})
  BY <1>1 DEF Rows, Ids
<1>5. /\ job' \in Jobs /\ job'.run = r /\ job'.ready = ready /\ job'.skips = skips /\ job'.parsed = parsed
      /\ job'.pc = pc /\ job'.wrote = {} /\ job'.retry = {}
  <2> HIDE DEF r, x, done, rows, skips, cand, ready, parsed, pc
  <2>1. r \in Runs
    BY <1>1 DEF r
  <2> QED
    BY <1>2, <1>3, <1>4, <2>1 DEF Jobs, IdleJob
<1>6. /\ \A d \in ready : /\ x[d].st \in {"committed", "processing"} /\ x[d].snap # NoSnap
                          /\ parsed[d] = x[d].snap
                          /\ done = {} => parsed[d] \in Snaps /\ staging[parsed[d]] = "ready"
      /\ \A d \in skips : x[d].st = "skipped" /\ parsed[d] = x[d].snap
      /\ \A d \in Docs : parsed[d] \in {NoSnap, x[d].snap}
  <2> HIDE DEF done
  <2> QED
    OBVIOUS
<1> QED
  <2> HIDE DEF rows, skips, cand, ready, parsed, pc
  <2> QED
    BY <1>1, <1>4, <1>5, <1>6

\* The job stays typed, and is idle exactly when it has no run.
LEMMA JobTyped == Typed /\ [Next]_vars => JobTypes'
<1> SUFFICES ASSUME Typed, [Next]_vars PROVE JobTypes'
  OBVIOUS
<1>1. job \in Jobs /\ (job.pc = "idle" <=> job.run = NoRun)
  BY DEF Typed, JobTypes
<1>2. IdleJob \in Jobs /\ IdleJob.pc = "idle" /\ IdleJob.run = NoRun
  BY Empties DEF IdleJob
<1>3. CASE job' = job \/ job' = IdleJob
  BY <1>1, <1>2, <1>3 DEF JobTypes
<1>4. NoRun \notin Runs
  BY KbAssumption
<1>5. ASSUME NEW r \in Runs, Claim(r) \/ Resume(r) PROVE JobTypes'
  BY <1>2, <1>4, <1>5 DEF Claim, Resume, Start, JobTypes, Jobs
<1>6. CASE Ingest
  <2> DEFINE again == {d \in DocsOf(RunKb[job.run]) : Rejected(row[job.run][d])}
             todo == {d \in DocsOf(RunKb[job.run]) : d \in again \/ Marker(row'[job.run][d]) = NoSnap}
  <2>1. job' = [job EXCEPT !.pc = "pipeline", !.retry = again, !.todo = todo] /\ job.pc = "ingest"
    BY <1>6, Zenon DEF Ingest
  <2>2. again \subseteq Docs /\ todo \subseteq Docs
    BY DEF DocsOf, Typed, DocTypes
  <2> HIDE DEF again, todo
  <2> QED
    BY <1>1, <2>1, <2>2 DEF JobTypes, Jobs
<1>7. ASSUME NEW d \in Docs, Parse(d) PROVE JobTypes'
  <2>1. Current(d) \in Ids
    BY <1>7, CurrentType DEF Parse, Typed, Ids
  <2>2. job' = [job EXCEPT !.parsed = [job.parsed EXCEPT ![d] = Current(d)]] /\ job.pc = "pipeline"
    BY <1>7 DEF Parse
  <2>3. [job.parsed EXCEPT ![d] = Current(d)] \in [Docs -> Ids]
    BY <1>1, <2>1 DEF Jobs
  <2> QED
    BY <1>1, <2>2, <2>3 DEF JobTypes, Jobs
<1>8. ASSUME NEW d \in Docs, Persist(d) \/ GiveUp(d) \/ Record(d) PROVE JobTypes'
  <2>1. job.pc # "idle"
    BY <1>8 DEF Persist, GiveUp, Record
  <2>2. \/ job' = [job EXCEPT !.todo = job.todo \ {d}]
        \/ /\ job' = [job EXCEPT !.todo = job.todo \ {d}, !.wrote = job.wrote \cup {job.parsed[d]}]
           /\ job.parsed[d] \in Snaps
    BY <1>8 DEF Persist, GiveUp, Record
  <2>3. CASE job' = [job EXCEPT !.todo = job.todo \ {d}]
    BY <1>1, <2>1, <2>3 DEF JobTypes, Jobs
  <2>4. CASE /\ job' = [job EXCEPT !.todo = job.todo \ {d}, !.wrote = job.wrote \cup {job.parsed[d]}]
             /\ job.parsed[d] \in Snaps
    BY <1>1, <2>1, <2>4 DEF JobTypes, Jobs
  <2> QED
    BY <2>2, <2>3, <2>4
<1>9. CASE Index
  <2>1. job' \in Jobs /\ job'.run \in Runs /\ job'.pc \in {"guard", "record"}
    BY <1>9, Indexed
  <2> QED
    BY <1>4, <2>1 DEF JobTypes
<1>10. CASE EnterPublishing
  BY <1>1, <1>2, <1>10 DEF EnterPublishing, JobTypes, Jobs
<1>11. CASE Publish /\ builds' # builds
  <2>1. job.pc = "publish" /\ job' = [job EXCEPT !.pc = "record", !.built = TRUE]
    BY <1>11, Published DEF Publish
  <2> QED
    BY <1>1, <1>3, <2>1 DEF JobTypes, Jobs
<1>12. CASE JobFails \/ (Publish /\ UNCHANGED builds)
  BY <1>3, <1>12, Failures DEF FailRun
<1>13. CASE Settle \/ Abort \/ Crash
  BY <1>3, <1>13 DEF Settle, Abort, Crash
<1>14. ASSUME NEW x \in Deletions, PurgeReclaim(x) PROVE JobTypes'
  BY <1>1, <1>14, ReclaimErases, Erased DEF JobTypes
<1>15. ASSUME NEW s \in Snaps, Reclaim(s) PROVE JobTypes'
  <2>1. {s} \in SUBSET Snaps
    OBVIOUS
  <2> QED
    BY <1>1, <1>3, <1>15, <2>1, Erased DEF Reclaim, JobTypes
<1> QED
  BY <1>3, <1>5, <1>6, <1>7, <1>8, <1>9, <1>10, <1>11, <1>12, <1>13, <1>14, <1>15, Writers

\* What each step of a deletion makes of it.
LEMMA PurgeMoves ==
  ASSUME Typed, NEW x \in Deletions, PurgeStep(x)
  PROVE  /\ \A y \in Deletions : y # x => purge'[y] = purge[y] /\ task'[y] = task[y]
         /\ purge'[x] \in Purges
         /\ \/ /\ StartTask(x) /\ task'[x] = "queued" /\ purge'[x].pc = "check"
               /\ purge'[x].whole = purge[x].whole /\ purge'[x].docs = purge[x].docs
            \/ /\ PurgeCheck(x) /\ task'[x] = "running" /\ purge'[x].pc = "wipe"
               /\ purge'[x].whole = purge[x].whole /\ purge'[x].docs = purge[x].docs
            \/ /\ PurgeWipe(x) /\ task'[x] = task[x] /\ purge'[x].pc = "docs"
               /\ purge'[x].whole = purge[x].whole /\ purge'[x].docs = DocsOf(DelKb[x])
            \/ /\ PurgeDocs(x) /\ task'[x] = task[x] /\ purge'[x].pc = "list"
               /\ purge'[x].whole = purge[x].whole /\ purge'[x].docs = purge[x].docs
            \/ /\ PurgeList(x) /\ task'[x] = task[x] /\ purge'[x].pc = "reclaim"
               /\ purge'[x].whole = purge[x].whole /\ purge'[x].docs = purge[x].docs
               /\ purge'[x].snaps = Orphans(purge[x].snaps)
            \/ /\ PurgeReclaim(x) /\ task'[x] = task[x] /\ purge[x].whole /\ purge'[x].pc = "kb"
               /\ purge'[x].whole /\ purge'[x].docs = purge[x].docs
            \/ /\ PurgeKb(x) /\ task'[x] = task[x] /\ purge'[x].pc = "done"
               /\ purge'[x].whole = purge[x].whole /\ purge'[x].docs = purge[x].docs
            \/ /\ \/ PurgeCheck(x) \/ DocsMissing(x) \/ PurgeReclaim(x) \/ PurgeKb(x)
                  \/ PurgeRecord(x)
               /\ purge'[x] = NoPurge /\ task'[x] \in {"failed", "done", task[x]}
         /\ task' \in [Deletions -> Tasks] /\ purge' \in [Deletions -> Purges]
<1>1. /\ purge \in [Deletions -> Purges] /\ task \in [Deletions -> Tasks]
      /\ purge[x] \in Purges /\ docs \subseteq Docs /\ links \subseteq Docs \X Snaps
  BY DEF Typed, PurgeTypes, DocTypes, AssetTypes
<1>2. NoPurge \in Purges
  BY Empties
<1>3. CASE StartTask(x)
  BY <1>1, <1>3 DEF StartTask, Purges, Tasks
<1>4. CASE PurgeCheck(x)
  BY <1>1, <1>2, <1>4 DEF PurgeCheck, Purges, Tasks
<1>5. CASE PurgeWipe(x)
  <2>1. DocsOf(DelKb[x]) \subseteq Docs
    BY <1>1 DEF DocsOf
  <2>2. /\ purge' = [purge EXCEPT ![x] = [purge[x] EXCEPT !.pc = "docs", !.docs = DocsOf(DelKb[x])]]
        /\ task' = task
    BY <1>5 DEF PurgeWipe
  <2> QED
    BY <1>1, <1>5, <2>1, <2>2 DEF Purges
<1>6. CASE PurgeDocs(x)
  <2> DEFINE S == {l[2] : l \in {m \in links : m[1] \in purge[x].docs \cap docs}}
  <2>1. S \subseteq Snaps
    BY <1>1
  <2>2. purge' = [purge EXCEPT ![x] = [purge[x] EXCEPT !.pc = "list", !.snaps = S]] /\ task' = task
    BY <1>6, Zenon DEF PurgeDocs
  <2> HIDE DEF S
  <2> QED
    BY <1>1, <1>6, <2>1, <2>2 DEF Purges
<1>7. CASE DocsMissing(x)
  BY <1>1, <1>2, <1>7 DEF DocsMissing
<1>8. CASE PurgeList(x)
  <2>1. Orphans(purge[x].snaps) \subseteq Snaps
    BY <1>1 DEF Orphans, Purges
  <2>2. /\ purge' = [purge EXCEPT ![x] = [purge[x] EXCEPT !.pc = "reclaim", !.snaps = Orphans(purge[x].snaps)]]
        /\ task' = task
    BY <1>8 DEF PurgeList, purgeVars
  <2> QED
    BY <1>1, <1>8, <2>1, <2>2 DEF Purges
<1>9. CASE PurgeReclaim(x)
  BY <1>1, <1>2, <1>9 DEF PurgeReclaim, AfterReclaim, Purges
<1>10. CASE PurgeKb(x)
  BY <1>1, <1>2, <1>10 DEF PurgeKb, Purges, Tasks
<1>11. CASE PurgeRecord(x)
  BY <1>1, <1>2, <1>11 DEF PurgeRecord, Tasks
<1> QED
  BY <1>3, <1>4, <1>5, <1>6, <1>7, <1>8, <1>9, <1>10, <1>11 DEF PurgeStep

\* A deletion that raises comes to nothing, and its task fails or is forgotten.
LEMMA PurgeStops ==
  ASSUME Typed, NEW x \in Deletions, PurgeRaises(x) \/ PurgeLost(x)
  PROVE  /\ \A y \in Deletions : y # x => purge'[y] = purge[y] /\ task'[y] = task[y]
         /\ purge'[x].pc \in Rests /\ ~purge'[x].whole /\ purge'[x].docs = {} /\ purge'[x].snaps = {}
         /\ task'[x] \in {"failed", task[x]}
         /\ task[x] \in Active \/ task'[x] = task[x]
         /\ task' \in [Deletions -> Tasks] /\ purge' \in [Deletions -> Purges]
<1>1. purge \in [Deletions -> Purges] /\ task \in [Deletions -> Tasks] /\ NoPurge \in Purges
  BY Empties DEF Typed, PurgeTypes
<1> DEFINE lost == [NoPurge EXCEPT !.pc = "lost"]
<1>4. \A rest \in {NoPurge, lost} :
        rest \in Purges /\ rest.pc \in Rests /\ ~rest.whole /\ rest.docs = {} /\ rest.snaps = {}
  <2>1. /\ NoPurge.pc = "idle" /\ ~NoPurge.whole
        /\ NoPurge.docs = {} /\ NoPurge.snaps = {}
    BY DEF NoPurge
  <2>2. lost \in Purges
    BY <1>1 DEF Purges
  <2>3. lost.pc = "lost" /\ lost.whole = NoPurge.whole
    BY <1>1 DEF Purges
  <2>4. lost.docs = NoPurge.docs /\ lost.snaps = NoPurge.snaps
    BY <1>1 DEF Purges
  <2> QED
    BY <1>1, <2>1, <2>2, <2>3, <2>4 DEF Rests
<1> HIDE DEF lost
<1>2. CASE PurgeRaises(x)
  <2>1. purge' = [purge EXCEPT ![x] = NoPurge]
    BY <1>2 DEF PurgeRaises
  <2> QED
    BY <1>1, <1>2, <1>4, <2>1 DEF PurgeRaises, Tasks
<1>3. CASE PurgeLost(x)
  <2>1. purge' = [purge EXCEPT ![x] = lost] /\ task' = task
    BY <1>3 DEF PurgeLost, lost
  <2> QED
    BY <1>1, <1>4, <2>1
<1> QED
  BY <1>2, <1>3

\* What a request for a deletion makes.
LEMMA PurgeStarts ==
  ASSUME Typed, NEW x \in Deletions, NEW D \in SUBSET Docs, DeleteKb(x) \/ DeleteDocs(x, D)
  PROVE  /\ \A y \in Deletions : y # x => purge'[y] = purge[y]
         /\ task' = task /\ ~InUse(x)
         /\ \/ purge'[x].pc = "asked" /\ purge'[x].whole /\ purge'[x].docs = {}
            \/ /\ purge'[x].pc = "docs" /\ purge'[x].whole = FALSE
               /\ purge'[x].docs = D /\ D \subseteq DocsOf(DelKb[x])
         /\ purge' \in [Deletions -> Purges]
<1>1. purge \in [Deletions -> Purges]
  BY DEF Typed, PurgeTypes
<1>2. NoPurge \in Purges /\ NoPurge.docs = {} /\ NoPurge.whole = FALSE
  BY Empties DEF NoPurge
<1>3. CASE DeleteKb(x)
  BY <1>1, <1>2, <1>3 DEF DeleteKb, Purges
<1>4. CASE DeleteDocs(x, D)
  BY <1>1, <1>2, <1>4 DEF DeleteDocs, Purges
<1> QED
  BY <1>3, <1>4

\* A crash leaves the deletions of knowledge bases to do again, and the others undone.
LEMMA PurgeRestarts ==
  ASSUME Typed, Crash
  PROVE  /\ task' = task /\ purge' \in [Deletions -> Purges] /\ gc' = {} /\ doomed' = NoSnap
         /\ \A x \in Deletions :
              /\ purge'[x].docs = {} /\ purge'[x].snaps = {}
              /\ \/ task[x] \in Active /\ purge'[x].pc = "check" /\ purge'[x].whole
                 \/ purge'[x].pc = "idle" /\ ~purge'[x].whole
<1>1. NoPurge \in Purges /\ NoPurge.docs = {} /\ NoPurge.snaps = {} /\ ~NoPurge.whole /\ NoPurge.pc = "idle"
  BY Empties DEF NoPurge
<1> DEFINE again == [NoPurge EXCEPT !.pc = "check", !.whole = TRUE]
<1>2. again \in Purges /\ again.docs = {} /\ again.snaps = {} /\ again.whole /\ again.pc = "check"
  BY <1>1 DEF Purges
<1>3. /\ purge' = [x \in Deletions |-> IF Recoverable(x) THEN again ELSE NoPurge]
      /\ task' = task /\ gc' = {} /\ doomed' = NoSnap
  BY DEF Crash
<1> HIDE DEF again
<1> QED
  BY <1>1, <1>2, <1>3 DEF Recoverable

\* The deletions, their tasks and the collection stay typed.
LEMMA PurgeTyped == Typed /\ [Next]_vars => PurgeTypes'
<1> SUFFICES ASSUME Typed, [Next]_vars PROVE PurgeTypes'
  OBVIOUS
<1>1. PurgeTypes
  BY DEF Typed
<1>2. gc' \subseteq Snaps
  BY <1>1, Writers DEF Crash, GcList, Recheck, PurgeTypes
<1>3. doomed' \in Snaps \cup {NoSnap}
  BY <1>1, Writers DEF Crash, Recheck, Reclaim, PurgeTypes
<1>4. purge' \in [Deletions -> Purges] /\ task' \in [Deletions -> Tasks]
  BY <1>1, Writers, PurgeMoves, PurgeStops, PurgeStarts, PurgeRestarts DEF PurgeTypes
<1> QED
  BY <1>2, <1>3, <1>4 DEF PurgeTypes

\* The store starts well typed.
LEMMA InitTyped == Init => Typed
<1> SUFFICES ASSUME Init PROVE Typed
  OBVIOUS
<1>1. DocTypes
  BY Empties DEF Init, DocTypes
<1>2. AssetTypes
  BY DEF Init, AssetTypes
<1>3. BuildTypes
  BY EmptySeq DEF Init, BuildTypes
<1>4. RunTypes
  BY Empties DEF Init, RunTypes, Statuses
<1>5. JobTypes
  BY Empties DEF Init, JobTypes, IdleJob
<1>6. PurgeTypes
  BY Empties DEF Init, PurgeTypes, Tasks
<1> QED
  BY <1>1, <1>2, <1>3, <1>4, <1>5, <1>6 DEF Typed

\* Every step keeps every type.
LEMMA StepTyped == Typed /\ [Next]_vars => Typed'
  BY DocTyped, AssetTyped, BuildTyped, RunTyped, JobTyped, PurgeTyped DEF Typed

\* The types hold in every state.
LEMMA TypedAlways == Spec => []Typed
  BY InitTyped, StepTyped, PTL DEF Spec

-----------------------------------------------------------------------------
(* What a step makes of the row of a document in a run.                     *)

\* The row keeps its snapshot, loses it, gets the staged one, or is prepared; and it is taken
\* up no earlier than its state allows.
LEMMA RowSteps ==
  ASSUME Typed, [Next]_vars, NEW r \in Runs, NEW d \in Docs
  PROVE  /\ row'[r][d].since \in {row[r][d].since, 0, Len(builds[RunKb[r]])}
         /\ \/ /\ row'[r][d].snap = row[r][d].snap
               /\ row[r][d].st = "none" => row'[r][d].st = "none"
               /\ row'[r][d].st = "skipped" => row[r][d].st = "skipped"
            \/ row'[r][d] = NoRow
            \/ row'[r][d].snap = Gone /\ row'[r][d].st = row[r][d].st
            \/ /\ Persist(d) /\ r = job.run /\ row'[r][d].snap = job.parsed[d] /\ job.parsed[d] \in Snaps
               /\ row'[r][d].st = row[r][d].st /\ row[r][d].st # "none"
            \/ /\ Ingest /\ d \in docs /\ KbOf[d] = RunKb[r]
               /\ \/ /\ row'[r][d].st = "skipped" /\ row'[r][d].snap = Serving(d)
                     /\ Serving(d) \in Snaps /\ <<d, Serving(d)>> \in links
                  \/ row'[r][d].st = "processing" /\ row'[r][d].snap = NoSnap
<1>1. row[r][d] \in Rows
  BY DEF Typed, RunTypes
<1>2. CASE row'[r][d] = row[r][d]
  BY <1>2
<1>3. CASE Ingest
  <2>1. CASE r = job.run /\ d \in DocsOf(RunKb[r])
    <3>1. row'[r][d] = Prepared(r, d) /\ d \in docs /\ KbOf[d] = RunKb[r]
      BY <1>3, <2>1, IngestedRows DEF DocsOf
    <3>2. CASE row[r][d].st = "none"
      BY <1>3, <3>1, <3>2, PreparedRow
    <3>3. CASE row[r][d].st # "none"
      BY <3>1, <3>3, PreparedRow
    <3> QED
      BY <3>2, <3>3
  <2>2. CASE ~(r = job.run /\ d \in DocsOf(RunKb[r]))
    BY <1>2, <1>3, <2>2, IngestedRows
  <2> QED
    BY <2>1, <2>2
<1>4. ASSUME NEW e \in Docs, Persist(e), row'[r][d] # row[r][d]
      PROVE  /\ row'[r][d].since = row[r][d].since /\ row'[r][d].st = row[r][d].st /\ row[r][d].st # "none"
             /\ Persist(d) /\ r = job.run /\ row'[r][d].snap = job.parsed[d] /\ job.parsed[d] \in Snaps
  <2>1. /\ r = job.run /\ d = e /\ row'[r][d] = [row[r][d] EXCEPT !.snap = job.parsed[d]]
        /\ row[r][d].st # "none" /\ job.parsed[d] \in Snaps
    BY <1>4, PersistedRows
  <2> QED
    BY <1>1, <1>4, <2>1 DEF Rows
<1>5. ASSUME NEW e \in Docs, GiveUp(e) \/ Record(e), row'[r][d] # row[r][d]
      PROVE  /\ row'[r][d].since = row[r][d].since /\ row'[r][d].snap = row[r][d].snap
             /\ row[r][d].st = "none" => row'[r][d].st = "none"
             /\ row'[r][d].st = "skipped" => row[r][d].st = "skipped"
  <2>1. r = job.run /\ d = e
    BY <1>5, EndedRows
  <2> QED
    BY <1>5, <2>1, EndedRows
<1>6. ASSUME JobFails \/ (Publish /\ UNCHANGED builds)
      PROVE  /\ row'[r][d].since = row[r][d].since /\ row'[r][d].snap = row[r][d].snap
             /\ row[r][d].st = "none" => row'[r][d].st = "none"
             /\ row'[r][d].st = "skipped" => row[r][d].st = "skipped"
  <2>1. job.run \in Runs /\ FailRun(job.run)
    BY <1>6, Failures
  <2>2. CASE r = job.run
    BY <2>1, <2>2, FailedRows
  <2>3. CASE r # job.run
    BY <2>1, <2>3, FailedRows
  <2> QED
    BY <2>2, <2>3
<1>7. CASE Publish /\ builds' # builds
  BY <1>2, <1>7, Published
<1>8. ASSUME NEW x \in Deletions, PurgeWipe(x) \/ PurgeDocs(x)
      PROVE  row'[r][d] = NoRow \/ row'[r][d] = row[r][d]
  BY <1>8 DEF PurgeWipe, PurgeDocs
<1>9. ASSUME (\E x \in Deletions : PurgeReclaim(x)) \/ \E s \in Snaps : Reclaim(s)
      PROVE  /\ row'[r][d].since = row[r][d].since /\ row'[r][d].st = row[r][d].st
             /\ row'[r][d].snap \in {row[r][d].snap, Gone}
  <2>1. ASSUME NEW S \in SUBSET Snaps, NEW T \in SUBSET Snaps, Erase(S, T)
        PROVE  /\ row'[r][d].since = row[r][d].since /\ row'[r][d].st = row[r][d].st
               /\ row'[r][d].snap \in {row[r][d].snap, Gone}
    <3>1. \A q \in Runs, e \in Docs :
            /\ row'[q][e].snap = IF row[q][e].snap \in T THEN Gone ELSE row[q][e].snap
            /\ row'[q][e].st = row[q][e].st /\ row'[q][e].since = row[q][e].since
      BY <2>1, Erased
    <3> QED
      BY <3>1
  <2>2. ASSUME NEW x \in Deletions, PurgeReclaim(x) PROVE \E S \in SUBSET Snaps, T \in SUBSET Snaps : Erase(S, T)
    BY <2>2, ReclaimErases
  <2>3. ASSUME NEW s \in Snaps, Reclaim(s) PROVE \E S \in SUBSET Snaps, T \in SUBSET Snaps : Erase(S, T)
    <3>1. {s} \in SUBSET Snaps
      OBVIOUS
    <3> QED
      BY <2>3, <3>1 DEF Reclaim
  <2> QED
    BY <1>9, <2>1, <2>2, <2>3
<1>10. NoRow.since = 0
  BY DEF NoRow
<1> QED
  BY <1>2, <1>3, <1>4, <1>5, <1>6, <1>7, <1>8, <1>9, <1>10, Writers

-----------------------------------------------------------------------------
(* A run makes one build of its knowledge base at most.                     *)

\* The builds of a knowledge base are of different runs, a run that is about to publish
\* has none yet, and no row is older than a build of each run.
OneBuildEach ==
  /\ \A k \in Kbs : \A i, j \in DOMAIN builds[k] : builds[k][i].run = builds[k][j].run => i = j
  /\ job.pc \in {"guard", "publish"} => BuildOf(job.run) = {}
  /\ \A r \in Runs, d \in Docs : row[r][d].since <= Cardinality(Runs)

\* There are no more builds of a knowledge base than runs.
LEMMA BuildsAreFew ==
  ASSUME Typed, OneBuildEach, NEW k \in Kbs
  PROVE  Len(builds[k]) <= Cardinality(Runs) /\ Cardinality(Runs) \in Nat
<1>1. /\ Len(builds[k]) \in Nat /\ DOMAIN builds[k] = 1 .. Len(builds[k])
      /\ \A i \in 1 .. Len(builds[k]) : builds[k][i].run \in Runs
  BY BuildFacts DEF Typed, BuildSet
<1> DEFINE f == [i \in 1 .. Len(builds[k]) |-> builds[k][i].run]
<1>2. f \in Injection(1 .. Len(builds[k]), Runs)
  BY <1>1 DEF Injection, IsInjective, OneBuildEach
<1>3. Cardinality(1 .. Len(builds[k])) <= Cardinality(Runs)
  <2> HIDE DEF f
  <2> QED
    BY <1>2, FS_Injection, KbAssumption
<1>4. Cardinality(1 .. Len(builds[k])) = Len(builds[k])
  BY <1>1, FS_Interval
<1> QED
  BY <1>3, <1>4, FS_CardinalityType, KbAssumption

\* The job changes its run and its place only by a step of the executor.
LEMMA JobMoves ==
  ASSUME Typed, [Next]_vars, job'.pc \in {"guard", "publish"}
  PROVE  /\ job'.run = job.run
         /\ \/ Index /\ job'.pc = "guard"
            \/ /\ EnterPublishing /\ job.pc = "guard" /\ job' = [job EXCEPT !.pc = "publish"]
            \/ job'.pc = job.pc /\ job'.ready = job.ready /\ job'.skips = job.skips /\ job'.parsed = job.parsed
            \/ /\ job'.pc = job.pc /\ job'.ready = job.ready /\ job'.skips = job.skips
               /\ (\E x \in Deletions : PurgeReclaim(x)) \/ \E s \in Snaps : Reclaim(s)
<1>1. job \in Jobs /\ IdleJob.pc = "idle"
  BY DEF Typed, JobTypes, IdleJob
<1>2. CASE job' = job
  BY <1>2
<1>3. CASE job' = IdleJob
  BY <1>1, <1>3
<1>4. ASSUME \/ \E r \in Runs : Claim(r) \/ Resume(r)
             \/ Ingest \/ \E d \in Docs : Parse(d) \/ Persist(d) \/ GiveUp(d)
      PROVE  FALSE
  <2>1. ASSUME \E r \in Runs : Claim(r) \/ Resume(r) PROVE job'.pc = "ingest"
    BY <2>1, Empties DEF Claim, Resume, Start, Jobs
  <2>2. ASSUME Ingest PROVE job'.pc = "pipeline"
    <3>1. PICK S, T : job' = [job EXCEPT !.pc = "pipeline", !.retry = S, !.todo = T]
      BY <2>2, Zenon DEF Ingest
    <3> QED
      BY <1>1, <3>1 DEF Jobs
  <2>3. ASSUME \E d \in Docs : Parse(d) \/ Persist(d) \/ GiveUp(d) PROVE job'.pc = "pipeline"
    BY <1>1, <2>3 DEF Parse, Persist, GiveUp, Jobs
  <2> QED
    BY <1>4, <2>1, <2>2, <2>3
<1>5. ASSUME NEW d \in Docs, Record(d) PROVE FALSE
  BY <1>1, <1>5 DEF Record, Jobs
<1>6. CASE Index
  BY <1>6, Indexed
<1>7. CASE EnterPublishing
  BY <1>1, <1>3, <1>7 DEF EnterPublishing, Jobs
<1>8. CASE Publish /\ builds' # builds
  <2>1. job' = [job EXCEPT !.pc = "record", !.built = TRUE]
    BY <1>8, Published
  <2> QED
    BY <1>1, <2>1 DEF Jobs
<1>9. CASE JobFails \/ (Publish /\ UNCHANGED builds)
  BY <1>3, <1>9, Failures DEF FailRun
<1>10. CASE Settle \/ Abort \/ Crash
  BY <1>3, <1>10 DEF Settle, Abort, Crash
<1>11. ASSUME NEW x \in Deletions, PurgeReclaim(x)
       PROVE  job'.run = job.run /\ job'.pc = job.pc /\ job'.ready = job.ready /\ job'.skips = job.skips
  BY <1>11, ReclaimErases, Erased
<1>12. ASSUME NEW s \in Snaps, Reclaim(s)
       PROVE  job'.run = job.run /\ job'.pc = job.pc /\ job'.ready = job.ready /\ job'.skips = job.skips
  <2>1. {s} \in SUBSET Snaps /\ Erase({s}, {s})
    BY <1>12 DEF Reclaim
  <2> QED
    BY <2>1, Erased
<1> QED
  BY <1>2, <1>3, <1>4, <1>5, <1>6, <1>7, <1>8, <1>9, <1>10, <1>11, <1>12, Writers

\* Every step keeps it so.
LEMMA OneBuildStep == Typed /\ OneBuildEach /\ [Next]_vars => OneBuildEach'
<1> SUFFICES ASSUME Typed, OneBuildEach, [Next]_vars PROVE OneBuildEach'
  OBVIOUS
<1> DEFINE Uniq == \A k \in Kbs : \A i, j \in DOMAIN builds[k] : builds[k][i].run = builds[k][j].run => i = j
<1>1. BuildTypes /\ builds \in [Kbs -> Seq(BuildSet)] /\ job \in Jobs
  BY DEF Typed, BuildTypes, JobTypes
<1>2. \A r \in Runs, d \in Docs : row'[r][d].since <= Cardinality(Runs)
  <2> TAKE r \in Runs, d \in Docs
  <2>1. RunKb[r] \in Kbs
    BY KbAssumption
  <2>2. Len(builds[RunKb[r]]) <= Cardinality(Runs) /\ Cardinality(Runs) \in Nat
    BY <2>1, BuildsAreFew
  <2>3. row[r][d].since <= Cardinality(Runs)
    BY DEF OneBuildEach
  <2>4. row'[r][d].since \in {row[r][d].since, 0, Len(builds[RunKb[r]])}
    BY RowSteps
  <2> QED
    BY <2>2, <2>3, <2>4
<1>3. \/ \E k \in Kbs : /\ builds' = [builds EXCEPT ![k] = << >>]
      \/ /\ \A k \in Kbs : DOMAIN builds'[k] = DOMAIN builds[k]
         /\ \A k \in Kbs : \A i \in DOMAIN builds[k] : builds'[k][i].run = builds[k][i].run
      \/ Publish /\ builds' # builds
  <2>1. ASSUME NEW x \in Deletions, PurgeDocs(x)
        PROVE  /\ \A l \in Kbs : DOMAIN builds'[l] = DOMAIN builds[l]
               /\ \A l \in Kbs : \A i \in DOMAIN builds[l] : builds'[l][i].run = builds[l][i].run
    BY <2>1, DocsCleared
  <2>2. ASSUME NEW s \in Snaps, Reclaim(s)
        PROVE  /\ \A l \in Kbs : DOMAIN builds'[l] = DOMAIN builds[l]
               /\ \A l \in Kbs : \A i \in DOMAIN builds[l] : builds'[l][i].run = builds[l][i].run
    BY <2>2, SnapCleared
  <2>3. ASSUME NEW x \in Deletions, PurgeWipe(x)
        PROVE  DelKb[x] \in Kbs /\ builds' = [builds EXCEPT ![DelKb[x]] = << >>]
    BY <2>3, KbAssumption DEF PurgeWipe
  <2> QED
    BY <2>1, <2>2, <2>3, Writers
<1>4. CASE Publish /\ builds' # builds
  <2> DEFINE k == RunKb[job.run]
             b == [run |-> job.run, sel |-> NextSel, made |-> job.ready]
  <2>1. k \in Kbs /\ job.run \in Runs /\ builds' = [builds EXCEPT ![k] = Append(builds[k], b)] /\ b \in BuildSet
    BY <1>1, <1>4, Published DEF BuildSet, Jobs
  <2>2. BuildOf(job.run) = {}
    BY <1>4 DEF OneBuildEach, Publish
  <2>3. \A i \in DOMAIN builds[k] : builds[k][i].run # job.run
    BY <2>2 DEF BuildOf
  <2>4. \A l \in Kbs : l # k => builds'[l] = builds[l]
    BY <1>1, <2>1
  <2>5. /\ builds'[k] = Append(builds[k], b) /\ builds[k] \in Seq(BuildSet)
        /\ Len(builds[k]) \in Nat /\ DOMAIN builds[k] = 1 .. Len(builds[k])
    BY <1>1, <2>1, BuildFacts
  <2>6. /\ DOMAIN builds'[k] = 1 .. Len(builds[k]) + 1
        /\ \A i \in 1 .. Len(builds[k]) : builds'[k][i] = builds[k][i]
        /\ builds'[k][Len(builds[k]) + 1] = b
    <3> HIDE DEF k, b
    <3> QED
      BY <2>1, <2>5, AppendProperties, LenProperties
  <2>7. b.run = job.run
    OBVIOUS
  <2>8. \A i, j \in DOMAIN builds'[k] : builds'[k][i].run = builds'[k][j].run => i = j
    <3> HIDE DEF k, b
    <3> QED
      BY <2>1, <2>3, <2>5, <2>6, <2>7 DEF OneBuildEach
  <2>9. Uniq'
    <3> HIDE DEF k, b
    <3> QED
      BY <2>4, <2>8 DEF OneBuildEach
  <2>10. job'.pc = "record"
    BY <1>1, <1>4, Published DEF Jobs
  <2> QED
    BY <1>2, <2>9, <2>10 DEF OneBuildEach
<1>5. CASE ~(Publish /\ builds' # builds)
  <2>1. Uniq' /\ \A k \in Kbs : \A i \in DOMAIN builds'[k] : i \in DOMAIN builds[k] /\ builds'[k][i].run = builds[k][i].run
    <3>1. CASE \E k \in Kbs : builds' = [builds EXCEPT ![k] = << >>]
      BY <1>1, <3>1 DEF OneBuildEach
    <3>2. CASE /\ \A k \in Kbs : DOMAIN builds'[k] = DOMAIN builds[k]
               /\ \A k \in Kbs : \A i \in DOMAIN builds[k] : builds'[k][i].run = builds[k][i].run
      BY <3>2 DEF OneBuildEach
    <3> QED
      BY <1>3, <1>5, <3>1, <3>2
  <2>2. job'.pc \in {"guard", "publish"} => BuildOf(job.run) = {} /\ job'.run = job.run
    BY JobMoves, Indexed DEF OneBuildEach
  <2>3. job'.pc \in {"guard", "publish"} => RunKb[job.run] \in Kbs
    BY <2>2, StepTyped, KbAssumption DEF Typed, JobTypes, Jobs
  <2>4. job'.pc \in {"guard", "publish"} => (BuildOf(job.run) = {})'
    BY <2>1, <2>2, <2>3 DEF BuildOf
  <2> QED
    BY <1>2, <2>1, <2>4 DEF OneBuildEach
<1> QED
  BY <1>4, <1>5

\* Rows, builds and the deletions keep their types, and there is one build a run at most.
THEOREM TypeCorrect == Spec => []TypeOK
<1>1. Init => Typed /\ OneBuildEach
  <2> SUFFICES ASSUME Init PROVE OneBuildEach
    BY InitTyped
  <2>1. Cardinality(Runs) \in Nat
    BY FS_CardinalityType, KbAssumption
  <2> QED
    BY <2>1 DEF Init, OneBuildEach, IdleJob, NoRow
<1>2. Typed /\ OneBuildEach /\ [Next]_vars => (Typed /\ OneBuildEach)'
  BY StepTyped, OneBuildStep
<1>3. Typed /\ OneBuildEach => TypeOK
  <2> SUFFICES ASSUME Typed, OneBuildEach PROVE TypeOK
    OBVIOUS
  <2>1. \A k \in Kbs : \A i \in DOMAIN builds[k] : builds[k][i] \in BuildSet
    BY BuildFacts DEF Typed
  <2>2. Cardinality(Runs) \in Nat
    BY FS_CardinalityType, KbAssumption
  <2>3. \A r \in Runs, d \in Docs :
          row[r][d] \in [st : {"none", "processing", "committed", "skipped", "failed"}, snap : Ids,
                        retry : BOOLEAN, since : 0 .. Cardinality(Runs)]
    <3> TAKE r \in Runs, d \in Docs
    <3>1. row[r][d] \in Rows /\ row[r][d].since <= Cardinality(Runs)
      BY DEF Typed, RunTypes, OneBuildEach
    <3> QED
      BY <2>2, <3>1 DEF Rows
  <2>4. row \in [Runs -> [Docs -> [st : {"none", "processing", "committed", "skipped", "failed"},
                                 snap : Ids, retry : BOOLEAN, since : 0 .. Cardinality(Runs)]]]
    BY <2>3 DEF Typed, RunTypes
  <2>5. rev \in [Docs -> Nat] /\ \A d \in Docs : rev[d] <= Len(Content[d])
    BY DEF Typed, DocTypes
  <2>6. \A k \in Kbs : \A i \in DOMAIN builds[k] :
          /\ builds[k][i].run \in Runs /\ builds[k][i].made \subseteq Docs
          /\ builds[k][i].sel \in [Docs -> Snaps \cup {NoSnap}]
    BY <2>1 DEF BuildSet
  <2>7. job.run \in Runs \cup {NoRun} /\ job.pc \in {"idle", "ingest", "pipeline", "guard", "publish", "record"}
    BY DEF Typed, JobTypes, Jobs
  <2>8. /\ kbs \subseteq Kbs /\ docs \subseteq Docs /\ AssetTypes /\ rstat \in [Runs -> Statuses]
        /\ PurgeTypes
    BY DEF Typed, DocTypes, RunTypes
  <2> QED
    BY <2>4, <2>5, <2>6, <2>7, <2>8 DEF TypeOK, AssetTypes, Statuses, PurgeTypes, Purges, Tasks
<1> QED
  BY <1>1, <1>2, <1>3, PTL DEF Spec

=============================================================================
