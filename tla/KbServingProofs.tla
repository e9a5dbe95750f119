---------------------------- MODULE KbServingProofs ----------------------------
(***************************************************************************)
(* What KbStore serves: every selection of every build has its document,    *)
(* its link and its assets, and the store keeps the promise of KbServing.   *)
(* A document parsed or published between the test of a snapshot for        *)
(* references and its deletion refutes both: the theorems assume that none  *)
(* is (~PurgeInterleaves).                                                  *)
(*                                                                         *)
(* What a run records: a completed run tells of what it has built, and what  *)
(* it has committed or skipped is served.  A run resumed after a later one  *)
(* of its knowledge base refutes these: they assume ~StaleResumes as well.  *)
(*                                                                         *)
(* What a build changes that its run has not mined: only documents skipped  *)
(* against an older build.  This assumes nothing but KbAssumption.          *)
(***************************************************************************)
EXTENDS KbStoreProofs

-----------------------------------------------------------------------------
(* What is served has its assets.                                          *)

\* Document d has not been deleted.
Kept(d) == d \in docs \/ rev[d] = 0

\* Every build selects for the documents of its knowledge base, linked versions whose
\* assets are in force.
Selected ==
  \A k \in Kbs : \A i \in DOMAIN builds[k] : \A d \in Docs :
    builds[k][i].sel[d] # NoSnap =>
      /\ d \in docs /\ KbOf[d] = k
      /\ <<d, builds[k][i].sel[d]>> \in links /\ builds[k][i].sel[d] \in final

\* A version that a run or the executor knows of is linked to its document.
Linked ==
  \A d \in Docs : Kept(d) =>
    /\ job.parsed[d] \in Snaps => <<d, job.parsed[d]>> \in links
    /\ \A r \in Runs : row[r][d].snap \in Snaps => <<d, row[r][d].snap>> \in links

\* A run works on the documents of its knowledge base, and skips what has a version.
InKb ==
  \A r \in Runs, d \in Docs :
    /\ row[r][d].st # "none" => KbOf[d] = RunKb[r]
    /\ row[r][d].st = "skipped" => row[r][d].snap # NoSnap

\* What is about to be published belongs to the knowledge base, and is staged if it is new.
Decided ==
  job.pc \in {"guard", "publish"} =>
    /\ \A d \in job.ready \cup job.skips : KbOf[d] = RunKb[job.run] /\ job.parsed[d] # NoSnap
    /\ \A d \in job.ready : job.parsed[d] \in Snaps => staging[job.parsed[d]] # "none"

\* What a deletion has listed is an orphan still, and its documents have had a revision.
Listed ==
  \A x \in Deletions :
    /\ purge[x].pc = "reclaim" => \A s \in purge[x].snaps : Orphan(s)
    /\ \A d \in purge[x].docs : rev[d] # 0 /\ KbOf[d] = DelKb[x]

StoreInv == Selected /\ Linked /\ InKb /\ Decided /\ Listed

\* A deletion wipes knowledge base k, or removes document d from it.
Wipes(k) == \E x \in Deletions : DelKb[x] = k /\ PurgeWipe(x)
Removes(k, d) == \E x \in Deletions : DelKb[x] = k /\ PurgeDocs(x) /\ d \in purge[x].docs \cap docs

\* A deleted document does not come back.
LEMMA KeptStep ==
  ASSUME Typed, [Next]_vars, NEW d \in Docs
  PROVE  /\ Kept(d)' => Kept(d)
         /\ rev[d] # 0 => rev'[d] # 0
         /\ (d \in docs /\ ~\E x \in Deletions : PurgeDocs(x) /\ d \in purge[x].docs) => d \in docs'
<1>1. docs \subseteq Docs /\ rev \in [Docs -> Nat]
  BY DEF Typed, DocTypes
<1>2. CASE UNCHANGED kbVars
  BY <1>1, <1>2 DEF kbVars, Kept
<1>3. ASSUME NEW e \in Docs, Upload(e) \/ Edit(e) 
      PROVE  (Kept(d)' => Kept(d)) /\ (rev[d] # 0 => rev'[d] # 0) /\ (d \in docs => d \in docs')
  BY <1>1, <1>3 DEF Upload, Edit, Kept
<1>4. ASSUME NEW x \in Deletions, PurgeDocs(x) \/ PurgeKb(x)
      PROVE  /\ Kept(d)' => Kept(d)
             /\ rev[d] # 0 => rev'[d] # 0
             /\ (d \in docs /\ ~(PurgeDocs(x) /\ d \in purge[x].docs)) => d \in docs'
  BY <1>1, <1>4 DEF PurgeDocs, PurgeKb, Kept
<1> QED
  BY <1>2, <1>3, <1>4, Writers DEF Kept

\* With a listing and a deletion of snapshots that no document is parsed between, a
\* deletion reclaims what it has listed.
LEMMA ReclaimsListed ==
  ASSUME Typed, StoreInv, NEW x \in Deletions, PurgeReclaim(x)
  PROVE  /\ purge[x].snaps \in SUBSET Snaps /\ Erase(purge[x].snaps, purge[x].snaps)
         /\ \A s \in purge[x].snaps : Orphan(s)
<1>1. \A s \in purge[x].snaps : Orphan(s)
  BY DEF PurgeReclaim, StoreInv, Listed
<1>2. PICK T \in SUBSET Snaps : Erase(purge[x].snaps, T) /\ T = {s \in purge[x].snaps : Orphan(s)}
  BY ReclaimErases
<1>3. T = purge[x].snaps
  BY <1>1, <1>2
<1> QED
  BY <1>1, <1>2, <1>3

\* The versions that a step takes away: those that a deletion has listed, or the one
\* that is collected.  They leave the staged and the final assets, and the rows.
LEMMA Takes ==
  ASSUME Typed, StoreInv, NEW S \in SUBSET Snaps,
         \/ \E x \in Deletions : PurgeReclaim(x) /\ S = purge[x].snaps
         \/ \E s \in Snaps : Reclaim(s) /\ S = {s}
  PROVE  /\ Erase(S, S)
         /\ final' = final \ S /\ \A s \in Snaps \ S : staging'[s] = staging[s]
         /\ \A d \in Docs :
              /\ job'.parsed[d] \in Snaps => job'.parsed[d] = job.parsed[d] /\ job.parsed[d] \notin S
              /\ job'.parsed[d] = NoSnap => job.parsed[d] = NoSnap
         /\ \A r \in Runs, d \in Docs :
              row'[r][d].snap \in Snaps => row'[r][d].snap = row[r][d].snap /\ row[r][d].snap \notin S
<1>1. Erase(S, S)
  BY ReclaimsListed DEF Reclaim
<1>2. Gone \notin Snaps /\ Gone # NoSnap
  BY KbAssumption
<1>3. /\ final' = final \ S
      /\ \A s \in Snaps : staging'[s] = IF s \in S THEN "none" ELSE staging[s]
      /\ \A r \in Runs, d \in Docs :
           /\ row'[r][d].snap = IF row[r][d].snap \in S THEN Gone ELSE row[r][d].snap
           /\ row'[r][d].st = row[r][d].st /\ row'[r][d].since = row[r][d].since
      /\ \A d \in Docs : job'.parsed[d] = IF job.parsed[d] \in S THEN Gone ELSE job.parsed[d]
  BY <1>1, Erased, Zenon
<1> QED
  BY <1>1, <1>2, <1>3

\* The rows of a run stay in its knowledge base.
LEMMA InKbStep == Typed /\ InKb /\ [Next]_vars => InKb'
<1> SUFFICES ASSUME Typed, InKb, [Next]_vars, NEW r \in Runs, NEW d \in Docs
             PROVE  /\ row'[r][d].st # "none" => KbOf[d] = RunKb[r]
                    /\ row'[r][d].st = "skipped" => row'[r][d].snap # NoSnap
  BY DEF InKb
<1>1. /\ row[r][d].st # "none" => KbOf[d] = RunKb[r]
      /\ row[r][d].st = "skipped" => row[r][d].snap # NoSnap
  BY DEF InKb
<1>2. NoSnap \notin Snaps /\ Gone # NoSnap /\ NoRow.st = "none"
  BY KbAssumption DEF NoRow
<1>3. \/ /\ row'[r][d].snap = row[r][d].snap
         /\ row[r][d].st = "none" => row'[r][d].st = "none"
         /\ row'[r][d].st = "skipped" => row[r][d].st = "skipped"
      \/ row'[r][d] = NoRow
      \/ row'[r][d].snap = Gone /\ row'[r][d].st = row[r][d].st
      \/ row'[r][d].snap \in Snaps /\ row'[r][d].st = row[r][d].st /\ row[r][d].st # "none"
      \/ KbOf[d] = RunKb[r] /\ (row'[r][d].snap \in Snaps \/ row'[r][d].st = "processing")
  BY RowSteps, Zenon
<1> QED
  BY <1>1, <1>2, <1>3

\* The decisions of a publication stand while it waits.
LEMMA DecidedStep == Typed /\ StoreInv /\ [Next]_vars => Decided'
<1> SUFFICES ASSUME Typed, StoreInv, [Next]_vars, job'.pc \in {"guard", "publish"} PROVE Decided'
  BY DEF Decided
<1>1. NoSnap \notin Snaps /\ Gone # NoSnap
  BY KbAssumption
<1>2. job \in Jobs /\ job' \in Jobs /\ job'.run = job.run
  BY StepTyped, JobMoves DEF Typed, JobTypes
<1>3. CASE Index
  <2>1. staging' = staging
    BY <1>3 DEF Index, assetVars
  <2>2. \A d \in job'.ready : /\ d \in Docs /\ row[job.run][d].st # "none" /\ job'.parsed[d] # NoSnap
                              /\ job'.pc = "guard" => staging[job'.parsed[d]] # "none"
    BY <1>2, <1>3, Indexed DEF Jobs
  <2>3. \A d \in job'.skips : /\ d \in Docs /\ row[job.run][d].st = "skipped"
                              /\ job'.parsed[d] = row[job.run][d].snap
    BY <1>2, <1>3, Indexed DEF Jobs
  <2>4. job'.pc = "guard" /\ job.run \in Runs
    BY <1>3, Indexed
  <2> QED
    BY <1>2, <2>1, <2>2, <2>3, <2>4 DEF Decided, StoreInv, InKb
<1>4. ASSUME job.pc \in {"guard", "publish"}, job'.ready = job.ready, job'.skips = job.skips,
             \A d \in job.ready \cup job.skips : /\ job'.parsed[d] # NoSnap
                                                 /\ job'.parsed[d] \in Snaps => job'.parsed[d] = job.parsed[d]
                                                      /\ (staging[job.parsed[d]] # "none" => staging'[job.parsed[d]] # "none")
      PROVE  Decided'
  BY <1>2, <1>4 DEF Decided, StoreInv
<1>5. ASSUME job.pc \in {"guard", "publish"}, job'.ready = job.ready, job'.skips = job.skips,
             job'.parsed = job.parsed, UNCHANGED staging
      PROVE  Decided'
  <2>1. \A d \in job.ready \cup job.skips : job.parsed[d] # NoSnap
    BY <1>5 DEF StoreInv, Decided
  <2> QED
    BY <1>4, <1>5, <2>1
<1>6. ASSUME job.pc \in {"guard", "publish"}, job'.ready = job.ready, job'.skips = job.skips,
             NEW S \in SUBSET Snaps,
             \/ \E x \in Deletions : PurgeReclaim(x) /\ S = purge[x].snaps
             \/ \E s \in Snaps : Reclaim(s) /\ S = {s}
      PROVE  Decided'
  <2>1. /\ \A s \in Snaps \ S : staging'[s] = staging[s]
        /\ \A d \in Docs : /\ job'.parsed[d] \in Snaps => job'.parsed[d] = job.parsed[d] /\ job.parsed[d] \notin S
                           /\ job'.parsed[d] = NoSnap => job.parsed[d] = NoSnap
    BY <1>6, Takes
  <2>2. \A d \in job.ready \cup job.skips : d \in Docs /\ job.parsed[d] # NoSnap
    BY <1>2, <1>6 DEF StoreInv, Decided, Jobs
  <2> QED
    BY <1>4, <1>6, <2>1, <2>2
<1>7. CASE EnterPublishing
  <2>1. job' = [job EXCEPT !.pc = "publish"] /\ job.pc = "guard" /\ staging' = staging
    BY <1>2, <1>7, JobMoves, Indexed DEF EnterPublishing, assetVars, Jobs, IdleJob
  <2> QED
    BY <1>2, <1>5, <2>1 DEF Jobs
<1>8. ASSUME ~Index, ~EnterPublishing,
             ~((\E x \in Deletions : PurgeReclaim(x)) \/ \E s \in Snaps : Reclaim(s))
      PROVE  Decided'
  <2>1. job'.pc = job.pc /\ job'.ready = job.ready /\ job'.skips = job.skips /\ job'.parsed = job.parsed
    BY <1>8, JobMoves
  <2>2. ASSUME NEW d \in Docs, Persist(d) PROVE FALSE
    BY <2>1, <2>2 DEF Persist
  <2>3. ASSUME Publish, builds' # builds PROVE FALSE
    <3>1. job' = [job EXCEPT !.pc = "record", !.built = TRUE]
      BY <2>3, Published
    <3> QED
      BY <1>2, <3>1 DEF Jobs
  <2>4. ASSUME Publish, UNCHANGED builds PROVE FALSE
    BY <2>4, Failures DEF FailRun, IdleJob
  <2>5. staging' = staging
    BY <1>8, <2>2, <2>3, <2>4, Writers
  <2> QED
    BY <1>5, <2>1, <2>5
<1>9. \A x \in Deletions : purge[x].snaps \in SUBSET Snaps
  BY DEF Typed, PurgeTypes, Purges
<1>10. CASE \E x \in Deletions : PurgeReclaim(x)
  <2>1. job.pc = job'.pc /\ job'.ready = job.ready /\ job'.skips = job.skips
    BY <1>10, JobMoves, ReclaimErases, Erased
  <2> QED
    BY <1>6, <1>9, <1>10, <2>1
<1>11. ASSUME NEW s \in Snaps, Reclaim(s) PROVE Decided'
  <2>1. {s} \in SUBSET Snaps
    OBVIOUS
  <2>2. job.pc = job'.pc /\ job'.ready = job.ready /\ job'.skips = job.skips
    BY <1>11, <2>1, Erased DEF Reclaim
  <2> QED
    BY <1>6, <1>11, <2>1, <2>2
<1> QED
  BY <1>3, <1>7, <1>8, <1>10, <1>11

\* A link of a document that has not been deleted stays, but for the snapshot that is
\* collected.
LEMMA LinksStay ==
  ASSUME Typed, StoreInv, [Next]_vars, NEW d \in Docs, NEW s \in Snaps,
         Kept(d)', <<d, s>> \in links, ~Reclaim(s)
  PROVE  <<d, s>> \in links'
<1>1. ASSUME NEW e \in Docs, Parse(e) PROVE links \subseteq links'
  BY <1>1 DEF Parse
<1>2. ASSUME NEW x \in Deletions, PurgeDocs(x) PROVE <<d, s>> \in links'
  <2>1. d \in purge[x].docs => rev[d] # 0
    BY DEF StoreInv, Listed
  <2>2. d \notin purge[x].docs \cap docs
    BY <1>2, <2>1 DEF PurgeDocs, Kept
  <2> QED
    BY <1>2, <2>2 DEF PurgeDocs
<1>3. ASSUME NEW t \in Snaps, Reclaim(t) PROVE <<d, s>> \in links'
  BY <1>3 DEF Reclaim
<1> QED
  BY <1>1, <1>2, <1>3, Writers

\* What the executor has of a document is its current content, or what the row of its run
\* has; or it is lost.
LEMMA ParsedSteps ==
  ASSUME Typed, [Next]_vars, NEW d \in Docs
  PROVE  \/ job'.parsed[d] \in {job.parsed[d], NoSnap, Gone}
         \/ Parse(d) /\ job'.parsed[d] = Current(d) /\ <<d, Current(d)>> \in links'
         \/ Index /\ job'.parsed[d] = row[job.run][d].snap /\ job.run \in Runs
<1>1. job \in Jobs /\ IdleJob.parsed[d] = NoSnap
  BY DEF Typed, JobTypes, IdleJob
<1>2. CASE job' = job \/ job' = IdleJob
  BY <1>1, <1>2
<1>3. ASSUME NEW r \in Runs, Claim(r) \/ Resume(r) PROVE job'.parsed[d] = NoSnap
  <2>1. job' = [IdleJob EXCEPT !.run = r, !.pc = "ingest"]
    BY <1>3 DEF Claim, Resume, Start
  <2> QED
    BY <1>1, <2>1, Empties DEF Jobs
<1>4. ASSUME Ingest PROVE job'.parsed = job.parsed
  <2>1. PICK S, T : job' = [job EXCEPT !.pc = "pipeline", !.retry = S, !.todo = T]
    BY <1>4, Zenon DEF Ingest
  <2> QED
    BY <1>1, <2>1 DEF Jobs
<1>5. ASSUME NEW e \in Docs, Parse(e)
      PROVE  job'.parsed[d] = IF d = e THEN Current(d) ELSE job.parsed[d]
  <2> DEFINE new == [job.parsed EXCEPT ![e] = Current(e)]
  <2>1. job' = [job EXCEPT !.parsed = new]
    BY <1>5 DEF Parse
  <2>2. job'.parsed = new
    <3> HIDE DEF new
    <3> QED
      BY <1>1, <2>1 DEF Jobs
  <2> QED
    BY <1>1, <2>2 DEF Jobs
<1>6. ASSUME Parse(d) PROVE <<d, Current(d)>> \in links'
  BY <1>6 DEF Parse
<1>7. ASSUME NEW e \in Docs, Persist(e) \/ GiveUp(e) \/ Record(e) PROVE job'.parsed = job.parsed
  BY <1>1, <1>7 DEF Persist, GiveUp, Record, Jobs
<1>8. ASSUME EnterPublishing PROVE job'.parsed[d] \in {job.parsed[d], NoSnap}
  BY <1>1, <1>8 DEF EnterPublishing, Jobs
<1>9. ASSUME Publish, builds' # builds PROVE job'.parsed = job.parsed
  <2>1. job' = [job EXCEPT !.pc = "record", !.built = TRUE]
    BY <1>9, Published
  <2> QED
    BY <1>1, <2>1 DEF Jobs
<1>10. ASSUME JobFails \/ (Publish /\ UNCHANGED builds) PROVE job' = IdleJob
  BY <1>10, Failures DEF FailRun
<1>11. ASSUME Settle \/ Abort \/ Crash PROVE job' = IdleJob
  BY <1>11 DEF Settle, Abort, Crash
<1>12. ASSUME NEW S \in SUBSET Snaps, NEW T \in SUBSET Snaps, Erase(S, T)
       PROVE  job'.parsed[d] \in {job.parsed[d], Gone}
  <2>1. \A e \in Docs : job'.parsed[e] = IF job.parsed[e] \in T THEN Gone ELSE job.parsed[e]
    BY <1>12, Erased
  <2> QED
    BY <2>1
<1>13. ASSUME NEW x \in Deletions, PurgeReclaim(x) PROVE job'.parsed[d] \in {job.parsed[d], Gone}
  BY <1>12, <1>13, ReclaimErases
<1>14. ASSUME NEW s \in Snaps, Reclaim(s) PROVE job'.parsed[d] \in {job.parsed[d], Gone}
  <2>1. {s} \in SUBSET Snaps
    OBVIOUS
  <2> QED
    BY <1>12, <1>14, <2>1 DEF Reclaim
<1>15. ASSUME Index PROVE job.run \in Runs /\ job'.parsed[d] \in {NoSnap, row[job.run][d].snap}
  BY <1>15, Indexed
<1> QED
  BY <1>2, <1>3, <1>4, <1>5, <1>6, <1>7, <1>8, <1>9, <1>10, <1>11, <1>13, <1>14, <1>15, Writers

\* The links outlive the versions that runs and the executor know of.
LEMMA LinkedStep == Typed /\ StoreInv /\ [Next]_vars => Linked'
<1> SUFFICES ASSUME Typed, StoreInv, [Next]_vars, NEW d \in Docs, Kept(d)'
             PROVE  /\ job'.parsed[d] \in Snaps => <<d, job'.parsed[d]>> \in links'
                    /\ \A r \in Runs : row'[r][d].snap \in Snaps => <<d, row'[r][d].snap>> \in links'
  BY DEF Linked
<1>1. NoSnap \notin Snaps /\ Gone \notin Snaps /\ NoRow.snap = NoSnap
  BY KbAssumption DEF NoRow
<1>2. /\ job.parsed[d] \in Snaps => <<d, job.parsed[d]>> \in links
      /\ \A r \in Runs : row[r][d].snap \in Snaps => <<d, row[r][d].snap>> \in links
  BY KeptStep DEF StoreInv, Linked
<1>3. ASSUME NEW s \in Snaps, Reclaim(s)
      PROVE  job'.parsed[d] # s /\ \A r \in Runs : row'[r][d].snap # s
  <2>1. {s} \in SUBSET Snaps
    OBVIOUS
  <2>2. /\ job'.parsed[d] \in Snaps => job'.parsed[d] = job.parsed[d] /\ job.parsed[d] \notin {s}
        /\ \A r \in Runs : row'[r][d].snap \in Snaps => row'[r][d].snap = row[r][d].snap /\ row[r][d].snap \notin {s}
    BY <1>3, <2>1, Takes
  <2> QED
    BY <2>2
<1>4. ASSUME job'.parsed[d] \in Snaps PROVE <<d, job'.parsed[d]>> \in links'
  <2>1. <<d, job'.parsed[d]>> \in links \/ <<d, job'.parsed[d]>> \in links'
    BY <1>1, <1>2, <1>4, ParsedSteps
  <2> QED
    BY <1>3, <1>4, <2>1, LinksStay
<1>5. ASSUME NEW r \in Runs, row'[r][d].snap \in Snaps PROVE <<d, row'[r][d].snap>> \in links'
  <2>1. <<d, row'[r][d].snap>> \in links
    BY <1>1, <1>2, <1>5, RowSteps
  <2> QED
    BY <1>3, <1>5, <2>1, LinksStay
<1> QED
  BY <1>4, <1>5

\* The assets in force stay, but for orphans and for the snapshot that is collected.
LEMMA FinalStays ==
  ASSUME Typed, StoreInv, [Next]_vars, NEW s \in final, ~Orphan(s), ~Reclaim(s)
  PROVE  s \in final'
<1>1. final \subseteq Snaps
  BY DEF Typed, AssetTypes
<1>2. ASSUME NEW d \in Docs, Persist(d) PROVE final' = final
  BY <1>2 DEF Persist
<1>3. ASSUME Publish, builds' # builds PROVE s \in final'
  <2>1. \A d \in job.ready : job.parsed[d] \in Snaps => staging[job.parsed[d]] # "none"
    BY <1>3 DEF StoreInv, Decided, Publish
  <2>2. \A t \in {job.parsed[d] : d \in job.ready} \cap Snaps : staging[t] # "none"
    BY <2>1
  <2>3. final' = Promoted({job.parsed[d] : d \in job.ready} \cap Snaps)
    BY <1>3, Published
  <2> QED
    BY <2>2, <2>3 DEF Promoted
<1>4. ASSUME Publish, UNCHANGED builds PROVE final' = final
  <2>1. job.run \in Runs /\ FailRun(job.run)
    BY <1>4, Failures
  <2>2. job \in Jobs /\ job.pc = "publish"
    BY <1>4 DEF Publish, Typed, JobTypes
  <2>3. job' # [job EXCEPT !.pc = "record", !.built = TRUE]
    BY <2>1, <2>2 DEF FailRun, IdleJob, Jobs
  <2> QED
    BY <1>4, <2>3 DEF Publish
<1>5. ASSUME NEW x \in Deletions, PurgeReclaim(x) PROVE s \in final'
  <2>1. purge[x].snaps \in SUBSET Snaps /\ \A t \in purge[x].snaps : Orphan(t)
    BY <1>5, ReclaimsListed
  <2>2. final' = final \ purge[x].snaps
    BY <1>5, <2>1, Takes
  <2> QED
    BY <2>1, <2>2
<1>6. ASSUME NEW t \in Snaps, Reclaim(t) PROVE s \in final'
  <2>1. {t} \in SUBSET Snaps
    OBVIOUS
  <2>2. final' = final \ {t}
    BY <1>6, <2>1, Takes
  <2> QED
    BY <1>6, <2>2
<1> QED
  BY <1>2, <1>3, <1>4, <1>5, <1>6, Writers

\* A selection is carried on from before or made by the build that is being published.
LEMMA SelectionSteps ==
  ASSUME Typed, [Next]_vars, NEW k \in Kbs, NEW i \in DOMAIN builds'[k], NEW d \in Docs,
         builds'[k][i].sel[d] # NoSnap
  PROVE  \/ /\ i \in DOMAIN builds[k] /\ builds'[k][i].sel[d] = builds[k][i].sel[d]
            /\ ~Removes(k, d)
            /\ \A s \in Snaps : Reclaim(s) => builds[k][i].sel[d] # s
         \/ Publish /\ builds' # builds /\ k = RunKb[job.run] /\ builds'[k][i].sel[d] = NextSel[d]
<1>1. BuildTypes /\ builds \in [Kbs -> Seq(BuildSet)] /\ job \in Jobs
  BY DEF Typed, BuildTypes, JobTypes
<1>2. ASSUME Removes(k, d) PROVE i \notin DOMAIN builds[k] \/ builds'[k][i].sel[d] = NoSnap
  <2>1. PICK x \in Deletions : DelKb[x] = k /\ PurgeDocs(x) /\ d \in purge[x].docs \cap docs
    BY <1>2 DEF Removes
  <2> QED
    BY <2>1, DocsCleared
<1>3. ASSUME NEW s \in Snaps, Reclaim(s), i \in DOMAIN builds[k], builds[k][i].sel[d] = s
      PROVE  builds'[k][i].sel[d] = NoSnap
  BY <1>3, SnapCleared
<1>4. CASE Publish /\ builds' # builds
  <2> DEFINE b == [run |-> job.run, sel |-> NextSel, made |-> job.ready]
  <2>1. RunKb[job.run] \in Kbs /\ b \in BuildSet
    BY <1>1, <1>4, Published DEF BuildSet, Jobs
  <2>2. builds' = [builds EXCEPT ![RunKb[job.run]] = Append(builds[RunKb[job.run]], b)]
    BY <1>4, Published
  <2>3. CASE k # RunKb[job.run]
    <3>1. builds'[k] = builds[k]
      BY <1>1, <2>2, <2>3
    <3> QED
      BY <1>2, <1>3, <3>1
  <2>4. CASE k = RunKb[job.run]
    <3>1. /\ Len(builds[k]) \in Nat /\ DOMAIN builds[k] = 1 .. Len(builds[k]) /\ builds[k] \in Seq(BuildSet)
          /\ builds'[k] = Append(builds[k], b)
      BY <1>1, <2>2, <2>4, BuildFacts
    <3>2. /\ DOMAIN builds'[k] = 1 .. Len(builds[k]) + 1
          /\ \A j \in 1 .. Len(builds[k]) : builds'[k][j] = builds[k][j]
          /\ builds'[k][Len(builds[k]) + 1] = b
      <4> HIDE DEF b
      <4> QED
        BY <2>1, <3>1, AppendProperties, LenProperties
    <3>3. b.sel = NextSel
      OBVIOUS
    <3> HIDE DEF b
    <3>4. CASE i \in DOMAIN builds[k]
      BY <1>2, <1>3, <3>1, <3>2, <3>4
    <3>5. CASE i \notin DOMAIN builds[k]
      <4>1. i = Len(builds[k]) + 1
        BY <3>1, <3>2, <3>5
      <4> QED
        BY <1>4, <2>4, <3>2, <3>3, <4>1
    <3> QED
      BY <3>4, <3>5
  <2> QED
    BY <2>3, <2>4
<1>5. ASSUME i \in DOMAIN builds[k], builds'[k][i].sel[d] \in {builds[k][i].sel[d], NoSnap}
      PROVE  /\ i \in DOMAIN builds[k] /\ builds'[k][i].sel[d] = builds[k][i].sel[d]
             /\ ~Removes(k, d)
             /\ \A s \in Snaps : Reclaim(s) => builds[k][i].sel[d] # s
  BY <1>2, <1>3, <1>5
<1>6. ASSUME NEW x \in Deletions, PurgeWipe(x)
      PROVE  i \in DOMAIN builds[k] /\ builds'[k][i].sel[d] = builds[k][i].sel[d]
  <2>1. PICK l \in Kbs : l = DelKb[x] /\ builds' = [builds EXCEPT ![l] = << >>]
    BY <1>6, KbAssumption DEF PurgeWipe
  <2> QED
    BY <1>1, <2>1
<1>7. ASSUME NEW x \in Deletions, PurgeDocs(x)
      PROVE  i \in DOMAIN builds[k] /\ builds'[k][i].sel[d] \in {builds[k][i].sel[d], NoSnap}
  BY <1>7, DocsCleared
<1>8. ASSUME NEW s \in Snaps, Reclaim(s)
      PROVE  i \in DOMAIN builds[k] /\ builds'[k][i].sel[d] \in {builds[k][i].sel[d], NoSnap}
  BY <1>8, SnapCleared
<1>9. CASE UNCHANGED builds
  BY <1>5, <1>9
<1> QED
  BY <1>4, <1>5, <1>6, <1>7, <1>8, <1>9, Writers

\* A build selects linked versions with assets: what it decides is linked and staged, what
\* it carries on has them already.
LEMMA SelectedStep == Typed /\ StoreInv /\ [Next]_vars => Selected'
<1> SUFFICES ASSUME Typed, StoreInv, [Next]_vars,
                    NEW k \in Kbs, NEW i \in DOMAIN builds'[k], NEW d \in Docs,
                    builds'[k][i].sel[d] # NoSnap
             PROVE  /\ d \in docs' /\ KbOf[d] = k
                    /\ <<d, builds'[k][i].sel[d]>> \in links' /\ builds'[k][i].sel[d] \in final'
  BY DEF Selected
<1>1. BuildTypes /\ job \in Jobs /\ NoSnap \notin Snaps
  BY KbAssumption DEF Typed, JobTypes
<1>2. \A l \in Kbs : \A j \in DOMAIN builds[l] : \A e \in Docs :
        builds[l][j].sel[e] # NoSnap =>
          /\ builds[l][j].sel[e] \in Snaps
          /\ e \in docs /\ KbOf[e] = l /\ <<e, builds[l][j].sel[e]>> \in links
          /\ builds[l][j].sel[e] \in final /\ ~Orphan(builds[l][j].sel[e])
  <2> TAKE l \in Kbs
  <2> TAKE j \in DOMAIN builds[l]
  <2> TAKE e \in Docs
  <2>1. builds[l][j].sel[e] \in Snaps \cup {NoSnap}
    BY <1>1, BuildFacts DEF BuildSet
  <2>2. ~Orphan(builds[l][j].sel[e])
    BY DEF Orphan
  <2> QED
    BY <2>1, <2>2 DEF StoreInv, Selected
<1>3. CASE /\ i \in DOMAIN builds[k] /\ builds'[k][i].sel[d] = builds[k][i].sel[d]
           /\ ~Removes(k, d)
           /\ \A s \in Snaps : Reclaim(s) => builds[k][i].sel[d] # s
  <2> DEFINE s == builds[k][i].sel[d]
  <2>1. /\ s \in Snaps /\ d \in docs /\ KbOf[d] = k /\ <<d, s>> \in links /\ s \in final /\ ~Orphan(s)
        /\ ~Reclaim(s) /\ s # NoSnap /\ builds'[k][i].sel[d] = s
    BY <1>2, <1>3
  <2> HIDE DEF s
  <2>2. \A x \in Deletions : d \in purge[x].docs => DelKb[x] = k
    BY <2>1 DEF StoreInv, Listed
  <2>3. d \in docs'
    BY <1>3, <2>1, <2>2, KeptStep DEF Removes
  <2>4. <<d, s>> \in links'
    BY <2>1, <2>3, LinksStay DEF Kept
  <2>5. s \in final'
    BY <2>1, FinalStays
  <2> QED
    BY <2>1, <2>3, <2>4, <2>5
<1>4. CASE Publish /\ builds' # builds /\ k = RunKb[job.run] /\ builds'[k][i].sel[d] = NextSel[d]
  <2> DEFINE S == {job.parsed[e] : e \in job.ready} \cap Snaps
  <2>1. /\ NextSel \in [Docs -> Snaps \cup {NoSnap}] /\ Valid(S) /\ final' = Promoted(S)
        /\ NextSel[d] \in Snaps
    BY <1>4, Published
  <2>2. d \in docs /\ docs' = docs /\ links' = links /\ Kept(d)
    BY <1>4, <2>1 DEF Valid, Publish, kbVars, Kept
  <2>3. Serving(d) # NoSnap =>
          Serving(d) \in final /\ <<d, Serving(d)>> \in links /\ ~Orphan(Serving(d))
    <3>1. KbOf[d] \in Kbs
      BY KbAssumption
    <3> QED
      BY <1>1, <1>2, <3>1, ServingSelected
  <2>4. NextSel[d] = Serving(d) => NextSel[d] \in final' /\ <<d, NextSel[d]>> \in links'
    <3>1. ~Reclaim(NextSel[d])
      BY <1>4, <2>1, SnapCleared, Published DEF Reclaim, Publish, Erase, Jobs, Typed, PurgeTypes
    <3> QED
      BY <1>1, <2>1, <2>2, <2>3, <3>1, FinalStays
  <2>5. CASE d \in job.ready \cup job.skips
    <3>1. NextSel[d] = job.parsed[d] /\ KbOf[d] = k
      BY <1>4, <2>5 DEF NextSel, StoreInv, Decided, Publish
    <3>2. <<d, NextSel[d]>> \in links'
      BY <2>1, <2>2, <3>1 DEF StoreInv, Linked
    <3>3. NextSel[d] # Serving(d) => NextSel[d] \in final'
      BY <2>1, <2>5 DEF Valid, Fresh
    <3> QED
      BY <1>4, <2>2, <2>4, <3>1, <3>2, <3>3
  <2>6. CASE d \notin job.ready \cup job.skips
    <3>1. KbOf[d] = RunKb[job.run] /\ NextSel[d] = Serving(d)
      BY <1>1, <2>1, <2>6 DEF NextSel
    <3> QED
      BY <1>4, <2>2, <2>4, <3>1
  <2> QED
    BY <2>5, <2>6
<1> QED
  BY <1>3, <1>4, SelectionSteps

\* What is orphaned stays so while no document is parsed: a build selects linked versions.
LEMMA OrphansStay ==
  ASSUME Typed, StoreInv, [Next]_vars, NEW s \in Snaps, Orphan(s), \A d \in Docs : ~Parse(d)
  PROVE  Orphan(s)'
<1>1. Selected'
  BY SelectedStep
<1>2. links' \subseteq links
  BY Writers DEF PurgeDocs, Reclaim
<1>3. \A l \in links' : l[2] # s
  BY <1>2 DEF Orphan
<1>4. ASSUME NEW k \in Kbs, NEW i \in DOMAIN builds'[k], NEW d \in Docs, builds'[k][i].sel[d] = s
      PROVE  FALSE
  <2>1. <<d, s>> \in links'
    BY <1>1, <1>4, KbAssumption DEF Selected
  <2> QED
    BY <1>3, <2>1
<1> QED
  BY <1>3, <1>4 DEF Orphan

\* A list of orphans stands until it is reclaimed.
LEMMA ListedStep == ~PurgeInterleaves /\ Typed /\ StoreInv /\ [Next]_vars => Listed'
<1> SUFFICES ASSUME ~PurgeInterleaves, Typed, StoreInv, [Next]_vars, NEW x \in Deletions
             PROVE  /\ purge'[x].pc = "reclaim" => \A s \in purge'[x].snaps : Orphan(s)'
                    /\ \A d \in purge'[x].docs : rev'[d] # 0 /\ KbOf[d] = DelKb[x]
  BY DEF Listed
<1>1. /\ purge[x] \in Purges /\ docs \subseteq Docs /\ \A d \in docs : rev[d] # 0
      /\ NoPurge.docs = {} /\ NoPurge.pc = "idle"
  BY DEF Typed, PurgeTypes, DocTypes, NoPurge
<1>2. /\ purge[x].pc = "reclaim" => \A s \in purge[x].snaps : Orphan(s)
      /\ \A d \in purge[x].docs : d \in Docs /\ rev[d] # 0 /\ KbOf[d] = DelKb[x]
  BY <1>1 DEF StoreInv, Listed, Purges
<1>3. \A d \in Docs : rev[d] # 0 => rev'[d] # 0
  BY KeptStep
<1>4. \A d \in DocsOf(DelKb[x]) : d \in Docs /\ rev[d] # 0 /\ KbOf[d] = DelKb[x]
  BY <1>1 DEF DocsOf
<1>5. CASE purge'[x] = purge[x]
  <2>1. ASSUME purge[x].pc = "reclaim", NEW s \in purge[x].snaps PROVE Orphan(s)'
    <3>1. s \in Snaps /\ Orphan(s)
      BY <1>1, <1>2, <2>1 DEF Purges
    <3>2. \A d \in Docs : ~Parse(d)
      BY <2>1 DEF Parse
    <3> QED
      BY <3>1, <3>2, OrphansStay
  <2> QED
    BY <1>2, <1>3, <1>5, <2>1
<1>6. ASSUME PurgeStep(x), purge'[x] # purge[x]
      PROVE  /\ \/ purge'[x].pc # "reclaim"
                \/ PurgeList(x) /\ purge'[x].snaps = Orphans(purge[x].snaps)
             /\ purge'[x].docs \subseteq purge[x].docs \cup DocsOf(DelKb[x])
  BY <1>1, <1>6, PurgeMoves
<1>7. ASSUME PurgeList(x), purge'[x].snaps = Orphans(purge[x].snaps) PROVE \A s \in purge'[x].snaps : Orphan(s)'
  BY <1>7 DEF PurgeList, Orphans, Orphan, assetVars
<1>8. ASSUME NEW D \in SUBSET Docs, DeleteKb(x) \/ DeleteDocs(x, D)
      PROVE  purge'[x].pc # "reclaim" /\ purge'[x].docs \subseteq DocsOf(DelKb[x])
  <2>1. \/ purge'[x].pc = "asked" /\ purge'[x].whole /\ purge'[x].docs = {}
        \/ /\ purge'[x].pc = "docs" /\ purge'[x].whole = FALSE
           /\ purge'[x].docs = D /\ D \subseteq DocsOf(DelKb[x])
    BY <1>8, PurgeStarts, Zenon
  <2> QED
    BY <2>1
<1>9. ASSUME Crash PROVE purge'[x].pc # "reclaim" /\ purge'[x].docs = {}
  BY <1>9, PurgeRestarts
<1>10. ASSUME PurgeRaises(x) \/ PurgeLost(x) PROVE purge'[x].pc # "reclaim" /\ purge'[x].docs = {}
  BY <1>10, PurgeStops DEF Rests
<1>11. ASSUME purge'[x] # purge[x]
       PROVE  \/ PurgeStep(x) \/ PurgeRaises(x) \/ PurgeLost(x) \/ Crash
              \/ \E D \in SUBSET Docs : DeleteKb(x) \/ DeleteDocs(x, D)
  <2>1. ASSUME NEW y \in Deletions, y # x, PurgeStep(y) \/ PurgeRaises(y) \/ PurgeLost(y) PROVE FALSE
    BY <1>11, <2>1, PurgeMoves, PurgeStops
  <2>2. ASSUME NEW y \in Deletions, NEW D \in SUBSET Docs, y # x, DeleteKb(y) \/ DeleteDocs(y, D) PROVE FALSE
    <3>1. \A z \in Deletions : z # y => purge'[z] = purge[z]
      BY <2>2, PurgeStarts, Zenon
    <3> QED
      BY <1>11, <2>2, <3>1
  <2>3. {} \in SUBSET Docs
    OBVIOUS
  <2>4. ASSUME NEW y \in Deletions, y # x, DeleteKb(y) PROVE FALSE
    BY <2>2, <2>3, <2>4
  <2> QED
    BY <1>11, <2>1, <2>2, <2>3, <2>4, Writers
<1> QED
  BY <1>2, <1>3, <1>4, <1>5, <1>6, <1>7, <1>8, <1>9, <1>10, <1>11

\* The invariant of the store.
LEMMA StoreInvAlways == ASSUME ~PurgeInterleaves PROVE Spec => [](Typed /\ StoreInv)
<1>1. Init => Typed /\ StoreInv
  <2> SUFFICES ASSUME Init PROVE StoreInv
    BY InitTyped
  <2>1. \A k \in Kbs : builds[k] = << >> /\ DOMAIN builds[k] = {}
    BY DEF Init
  <2>2. \A d \in Docs : job.parsed[d] = NoSnap /\ \A r \in Runs : row[r][d].snap = NoSnap /\ row[r][d].st = "none"
    BY DEF Init, IdleJob, NoRow
  <2>3. job.pc = "idle" /\ \A x \in Deletions : purge[x].pc = "idle" /\ purge[x].docs = {}
    BY DEF Init, IdleJob, NoPurge
  <2> QED
    BY <2>1, <2>2, <2>3, KbAssumption DEF StoreInv, Selected, Linked, InKb, Decided, Listed
<1>2. Typed /\ StoreInv /\ [Next]_vars => (Typed /\ StoreInv)'
  BY StepTyped, SelectedStep, LinkedStep, InKbStep, DecidedStep, ListedStep DEF StoreInv
<1> QED
  BY <1>1, <1>2, PTL DEF Spec

\* What serves a document has its search assets, whatever is mined again, deleted or
\* collected at the same time.
THEOREM ServedHasAssets == ASSUME ~PurgeInterleaves PROVE Spec => []ServingHasAssets
<1>1. Typed /\ StoreInv => ServingHasAssets
  <2> SUFFICES ASSUME Typed, StoreInv, NEW d \in docs, Serving(d) # NoSnap PROVE Serving(d) \in final
    BY DEF ServingHasAssets, Served
  <2>1. d \in Docs /\ KbOf[d] \in Kbs
    BY KbAssumption DEF Typed, DocTypes
  <2>2. PICK i \in DOMAIN builds[KbOf[d]] : builds[KbOf[d]][i].sel[d] = Serving(d)
    BY <2>1, ServingSelected DEF Typed
  <2> QED
    BY <2>1, <2>2 DEF StoreInv, Selected
<1> QED
  BY <1>1, StoreInvAlways, PTL

-----------------------------------------------------------------------------
(* The promise of KbServing.                                               *)

\* Only the task of a knowledge base wipes it.
Tasked ==
  \A x \in Deletions :
    /\ purge[x].pc \in {"asked", "check", "wipe", "kb", "done"} => purge[x].whole
    /\ purge[x].whole /\ purge[x].pc # "asked" => task[x] \in Active

\* A deletion of a knowledge base is always that of its task.
LEMMA TaskedStep == Typed /\ Tasked /\ [Next]_vars => Tasked'
<1> SUFFICES ASSUME Typed, Tasked, [Next]_vars, NEW x \in Deletions
             PROVE  /\ purge'[x].pc \in {"asked", "check", "wipe", "kb", "done"} => purge'[x].whole
                    /\ purge'[x].whole /\ purge'[x].pc # "asked" => task'[x] \in Active
  BY DEF Tasked
<1>1. /\ purge[x].pc \in {"asked", "check", "wipe", "kb", "done"} => purge[x].whole
      /\ purge[x].whole /\ purge[x].pc # "asked" => task[x] \in Active
      /\ ~NoPurge.whole /\ NoPurge.pc = "idle"
      /\ "queued" \in Active /\ "running" \in Active
  BY DEF Tasked, NoPurge, Active
<1>2. CASE purge'[x] = purge[x] /\ task'[x] = task[x]
  BY <1>1, <1>2
<1>3. ASSUME NEW y \in Deletions, PurgeStep(y) \/ PurgeRaises(y) \/ PurgeLost(y), y # x
      PROVE  purge'[x] = purge[x] /\ task'[x] = task[x]
  BY <1>3, PurgeMoves, PurgeStops
<1>4. CASE PurgeStep(x)
  <2>1. \/ StartTask(x) /\ task'[x] = "queued" /\ purge'[x].whole = purge[x].whole
        \/ PurgeCheck(x) /\ task'[x] = "running" /\ purge'[x].whole = purge[x].whole
        \/ /\ PurgeWipe(x) \/ PurgeDocs(x) \/ PurgeList(x)
           /\ task'[x] = task[x] /\ purge'[x].pc \in {"docs", "list", "reclaim"} /\ purge'[x].whole = purge[x].whole
        \/ PurgeReclaim(x) /\ task'[x] = task[x] /\ purge[x].whole /\ purge'[x].whole
        \/ PurgeKb(x) /\ task'[x] = task[x] /\ purge'[x].whole = purge[x].whole
        \/ purge'[x] = NoPurge
    BY <1>4, PurgeMoves
  <2>2. /\ StartTask(x) => purge[x].pc = "asked"
        /\ PurgeCheck(x) => purge[x].pc = "check"
        /\ PurgeWipe(x) \/ PurgeDocs(x) \/ PurgeList(x) => purge[x].pc # "asked"
        /\ PurgeReclaim(x) => purge[x].pc # "asked"
        /\ PurgeKb(x) => purge[x].pc = "kb"
    BY DEF StartTask, PurgeCheck, PurgeWipe, PurgeDocs, PurgeList, PurgeReclaim, PurgeKb
  <2> QED
    BY <1>1, <2>1, <2>2
<1>5. ASSUME NEW y \in Deletions, NEW D \in SUBSET Docs, DeleteKb(y) \/ DeleteDocs(y, D)
      PROVE  /\ task' = task
             /\ \/ purge'[x] = purge[x]
                \/ purge'[x].pc = "asked" /\ purge'[x].whole
                \/ purge'[x].pc = "docs" /\ purge'[x].whole = FALSE
  <2>1. CASE y = x
    BY <1>5, <2>1, PurgeStarts, Zenon
  <2>2. CASE y # x
    BY <1>5, <2>2, PurgeStarts, Zenon
  <2> QED
    BY <2>1, <2>2
<1>6. ASSUME Crash
      PROVE  \/ task'[x] \in Active /\ purge'[x].whole
             \/ purge'[x].pc = "idle" /\ ~purge'[x].whole
  BY <1>6, PurgeRestarts
<1>7. ASSUME PurgeRaises(x) \/ PurgeLost(x) PROVE purge'[x].pc \in Rests /\ ~purge'[x].whole
  BY <1>7, PurgeStops
<1>8. {} \in SUBSET Docs
  OBVIOUS
<1>9. \/ UNCHANGED <<purge, task>> \/ Crash
      \/ \E y \in Deletions : PurgeStep(y) \/ PurgeRaises(y) \/ PurgeLost(y)
      \/ \E y \in Deletions, D \in SUBSET Docs : DeleteKb(y) \/ DeleteDocs(y, D)
  BY <1>8, Writers
<1> QED
  BY <1>1, <1>2, <1>3, <1>4, <1>5, <1>6, <1>7, <1>9 DEF Rests

\* The latest of some numbers is the greatest of them.
LEMMA LatestIs ==
  ASSUME NEW I \in SUBSET Nat, NEW i \in I, \A j \in I : j <= i
  PROVE  Latest(I) = i
<1>1. Latest(I) \in I /\ \A j \in I : j <= Latest(I)
  BY DEF Latest
<1>2. Latest(I) <= i /\ i <= Latest(I) /\ Latest(I) \in Nat /\ i \in Nat
  BY <1>1
<1> QED
  BY <1>2

\* No later build selects the document that a build serves.
LEMMA ServingIsLatest ==
  ASSUME Typed, NEW d \in Docs, Serving(d) # NoSnap
  PROVE  \E i \in DOMAIN builds[KbOf[d]] :
           /\ builds[KbOf[d]][i].sel[d] = Serving(d)
           /\ \A j \in DOMAIN builds[KbOf[d]] : builds[KbOf[d]][j].sel[d] # NoSnap => j <= i
<1> DEFINE I == Selecting(KbOf[d], d)
<1>1. KbOf[d] \in Kbs /\ I \in SUBSET (DOMAIN builds[KbOf[d]]) /\ BuildTypes
  BY KbAssumption DEF Selecting, Typed
<1>2. I # {}
  BY DEF Serving
<1>3. Latest(I) \in I /\ \A j \in I : j <= Latest(I)
  <2> HIDE DEF I
  <2> QED
    BY <1>1, <1>2, LatestIsMember
<1> QED
  BY <1>1, <1>2, <1>3 DEF Serving, Selecting

\* What serves a document after a step.
LEMMA NextServing ==
  ASSUME BuildTypes', NEW d \in Docs
  PROVE  /\ (\A i \in DOMAIN builds'[KbOf[d]] : builds'[KbOf[d]][i].sel[d] = NoSnap) => Serving(d)' = NoSnap
         /\ \A i \in DOMAIN builds'[KbOf[d]] :
              (/\ builds'[KbOf[d]][i].sel[d] # NoSnap
               /\ \A j \in DOMAIN builds'[KbOf[d]] : builds'[KbOf[d]][j].sel[d] # NoSnap => j <= i)
              => Serving(d)' = builds'[KbOf[d]][i].sel[d]
<1> DEFINE I == {i \in DOMAIN builds'[KbOf[d]] : builds'[KbOf[d]][i].sel[d] # NoSnap}
<1>1. KbOf[d] \in Kbs
  BY KbAssumption
<1>2. builds'[KbOf[d]] \in Seq(BuildSet)
  BY <1>1 DEF BuildTypes
<1>3. I \in SUBSET Nat
  BY <1>2, LenProperties
<1>4. Serving(d)' = IF I = {} THEN NoSnap ELSE builds'[KbOf[d]][Latest(I)].sel[d]
  BY DEF Serving, Selecting
<1>5. ASSUME \A i \in DOMAIN builds'[KbOf[d]] : builds'[KbOf[d]][i].sel[d] = NoSnap PROVE I = {}
  BY <1>5
<1>6. ASSUME NEW i \in DOMAIN builds'[KbOf[d]], builds'[KbOf[d]][i].sel[d] # NoSnap,
             \A j \in DOMAIN builds'[KbOf[d]] : builds'[KbOf[d]][j].sel[d] # NoSnap => j <= i
      PROVE  I # {} /\ Latest(I) = i
  <2>1. i \in I /\ \A j \in I : j <= i
    BY <1>6
  <2> HIDE DEF I
  <2> QED
    BY <1>3, <2>1, LatestIs
<1> QED
  BY <1>4, <1>5, <1>6

\* A document is served with the same version when its selections stay, or others than
\* the one that serves it go.
LEMMA ServingStays ==
  ASSUME Typed, BuildTypes', NEW d \in Docs,
         DOMAIN builds'[KbOf[d]] = DOMAIN builds[KbOf[d]],
         \A i \in DOMAIN builds[KbOf[d]] :
           /\ builds'[KbOf[d]][i].sel[d] \in {builds[KbOf[d]][i].sel[d], NoSnap}
           /\ builds[KbOf[d]][i].sel[d] = Serving(d) => builds'[KbOf[d]][i].sel[d] = Serving(d)
  PROVE  Serving(d)' = Serving(d)
<1>1. CASE Serving(d) = NoSnap
  <2>1. \A i \in DOMAIN builds[KbOf[d]] : builds[KbOf[d]][i].sel[d] = NoSnap
    BY <1>1, ServingSelected DEF Typed
  <2>2. \A i \in DOMAIN builds'[KbOf[d]] : builds'[KbOf[d]][i].sel[d] = NoSnap
    BY <2>1
  <2> QED
    BY <1>1, <2>2, NextServing
<1>2. CASE Serving(d) # NoSnap
  <2>1. PICK i \in DOMAIN builds[KbOf[d]] :
               /\ builds[KbOf[d]][i].sel[d] = Serving(d)
               /\ \A j \in DOMAIN builds[KbOf[d]] : builds[KbOf[d]][j].sel[d] # NoSnap => j <= i
    BY <1>2, ServingIsLatest
  <2>2. /\ i \in DOMAIN builds'[KbOf[d]] /\ builds'[KbOf[d]][i].sel[d] = Serving(d)
        /\ \A j \in DOMAIN builds'[KbOf[d]] : builds'[KbOf[d]][j].sel[d] # NoSnap => j <= i
    BY <2>1
  <2> QED
    BY <1>2, <2>2, NextServing
<1> QED
  BY <1>1, <1>2

\* What KbServing sees of a document is what serves it, and that has its assets.
ServesPresent ==
  \A d \in Docs : /\ d \notin docs => Serving(d) = NoSnap
                  /\ Serving(d) # NoSnap => Serving(d) \in final /\ Serving(d) \in Served

\* A document that is not there is not selected.
LEMMA AbsentUnserved == Typed /\ Selected => ServesPresent
<1> SUFFICES ASSUME Typed, Selected, NEW d \in Docs
             PROVE  /\ d \notin docs => Serving(d) = NoSnap
                    /\ Serving(d) # NoSnap => Serving(d) \in final /\ Serving(d) \in Served
  BY DEF ServesPresent
<1>1. KbOf[d] \in Kbs
  BY KbAssumption
<1>2. ASSUME Serving(d) # NoSnap PROVE d \in docs /\ Serving(d) \in final
  <2>1. PICK i \in DOMAIN builds[KbOf[d]] : builds[KbOf[d]][i].sel[d] = Serving(d)
    BY <1>2, ServingSelected DEF Typed
  <2> QED
    BY <1>1, <1>2, <2>1 DEF Selected
<1> QED
  BY <1>2 DEF Served

\* A step that keeps what serves each document and brings no new assets tidies.
LEMMA KeepingTidies ==
  ASSUME Typed, Selected, Typed', Selected', final' \subseteq final,
         \A d \in Docs : Serving(d)' = Serving(d)
  PROVE  Store!Tidy
<1>1. ServesPresent /\ ServesPresent'
  BY AbsentUnserved, PTL
<1>2. \A d \in Docs : /\ d \notin docs => Serving(d) = NoSnap
                      /\ d \notin docs' => Serving(d)' = NoSnap
                      /\ Serving(d)' # NoSnap => Serving(d)' \in final'
  BY <1>1 DEF ServesPresent
<1>3. [d \in Docs |-> IF d \in docs THEN Serving(d) ELSE NoSnap]'
        = [d \in Docs |-> IF d \in docs THEN Serving(d) ELSE NoSnap]
  BY <1>2
<1>4. \A d \in Docs : (IF d \in docs THEN Serving(d) ELSE NoSnap) # NoSnap
                        => (IF d \in docs THEN Serving(d) ELSE NoSnap) \in final'
  BY <1>2
<1>5. {d \in Docs : Asked(d)}' \in SUBSET Docs
  OBVIOUS
<1> QED
  BY <1>3, <1>4, <1>5 DEF Store!Tidy

\* A deletion that empties the selections of documents whose deletion was asked for
\* withdraws them.
LEMMA DeletionWithdraws ==
  ASSUME Typed, StoreInv, Typed', StoreInv', NEW D \in SUBSET Docs, \A d \in D : Asked(d),
         final' = final, \A d \in Docs : Serving(d)' = IF d \in D THEN NoSnap ELSE Serving(d)
  PROVE  Store!Withdraw(D)
<1>1. ServesPresent /\ ServesPresent'
  BY AbsentUnserved, PTL DEF StoreInv
<1>2. \A d \in Docs : /\ d \notin docs => Serving(d) = NoSnap
                      /\ d \notin docs' => Serving(d)' = NoSnap
  BY <1>1 DEF ServesPresent
<1>3. [d \in Docs |-> IF d \in docs THEN Serving(d) ELSE NoSnap]'
        = [d \in Docs |-> IF d \in D THEN NoSnap
                          ELSE [e \in Docs |-> IF e \in docs THEN Serving(e) ELSE NoSnap][d]]
  BY <1>2
<1>4. D \subseteq {d \in Docs : Asked(d)}
  OBVIOUS
<1>5. {d \in Docs : Asked(d)}' \in SUBSET Docs
  OBVIOUS
<1> QED
  BY <1>3, <1>4, <1>5 DEF Store!Withdraw

\* A wipe takes the documents of its knowledge base out of service, and no other.
LEMMA WipedServing ==
  ASSUME Typed, Typed', NEW x \in Deletions, PurgeWipe(x)
  PROVE  \A d \in Docs : Serving(d)' = IF KbOf[d] = DelKb[x] THEN NoSnap ELSE Serving(d)
<1>1. PICK k \in Kbs : k = DelKb[x]
  BY KbAssumption
<1>2. builds' = [builds EXCEPT ![k] = << >>] /\ builds \in [Kbs -> Seq(BuildSet)] /\ BuildTypes'
  BY <1>1 DEF PurgeWipe, Typed, BuildTypes
<1>3. ASSUME NEW d \in Docs, KbOf[d] = k PROVE Serving(d)' = NoSnap
  <2>1. builds'[KbOf[d]] = << >> /\ DOMAIN builds'[KbOf[d]] = {}
    BY <1>2, <1>3
  <2> QED
    BY <1>2, <2>1, NextServing
<1>4. ASSUME NEW d \in Docs, KbOf[d] # k PROVE Serving(d)' = Serving(d)
  <2>1. KbOf[d] \in Kbs
    BY KbAssumption
  <2>2. builds'[KbOf[d]] = builds[KbOf[d]]
    BY <1>2, <1>4, <2>1
  <2> QED
    BY <2>2 DEF Serving, Selecting
<1> QED
  BY <1>1, <1>3, <1>4

\* The deletion of documents takes them out of service, and no others.
LEMMA DeletedServing ==
  ASSUME Typed, StoreInv, Typed', NEW x \in Deletions, PurgeDocs(x)
  PROVE  \A d \in Docs : Serving(d)' = IF d \in purge[x].docs \cap docs THEN NoSnap ELSE Serving(d)
<1>1. PICK k \in Kbs, D \in SUBSET Docs : k = DelKb[x] /\ D = purge[x].docs \cap docs
  BY KbAssumption DEF Typed, DocTypes
<1>2. BuildTypes' /\ \A d \in D : KbOf[d] = k
  BY <1>1 DEF Typed, StoreInv, Listed
<1>3. \A l \in Kbs : /\ DOMAIN builds'[l] = DOMAIN builds[l]
                     /\ \A i \in DOMAIN builds[l] : \A d \in Docs : builds'[l][i].sel[d] =
                          IF l = k /\ d \in D THEN NoSnap ELSE builds[l][i].sel[d]
  BY <1>1, DocsCleared
<1>4. ASSUME NEW d \in D PROVE Serving(d)' = NoSnap
  <2>1. \A i \in DOMAIN builds'[KbOf[d]] : builds'[KbOf[d]][i].sel[d] = NoSnap
    BY <1>2, <1>3
  <2> QED
    BY <1>2, <2>1, NextServing
<1>5. ASSUME NEW d \in Docs \ D PROVE Serving(d)' = Serving(d)
  <2>1. KbOf[d] \in Kbs
    BY KbAssumption
  <2>2. /\ DOMAIN builds'[KbOf[d]] = DOMAIN builds[KbOf[d]]
        /\ \A i \in DOMAIN builds[KbOf[d]] : builds'[KbOf[d]][i].sel[d] = builds[KbOf[d]][i].sel[d]
    BY <1>3, <2>1
  <2> QED
    BY <1>2, <2>2, ServingStays
<1> QED
  BY <1>1, <1>4, <1>5

\* A wipe withdraws the documents of its knowledge base.
LEMMA WipeWithdraws ==
  ASSUME Typed, StoreInv, Tasked, Typed', StoreInv', NEW x \in Deletions, PurgeWipe(x)
  PROVE  \E D \in SUBSET Docs : Store!Withdraw(D)
<1>1. PICK D \in SUBSET Docs : D = {d \in Docs : KbOf[d] = DelKb[x]}
  OBVIOUS
<1>2. task[x] \in Active
  BY DEF PurgeWipe, Tasked
<1>3. \A d \in D : Asked(d)
  BY <1>1, <1>2 DEF Asked
<1>4. final' = final
  BY DEF PurgeWipe
<1>5. \A d \in Docs : Serving(d)' = IF d \in D THEN NoSnap ELSE Serving(d)
  BY <1>1, WipedServing
<1> QED
  BY <1>3, <1>4, <1>5, DeletionWithdraws

\* The deletion of documents withdraws them.
LEMMA DeletedWithdrawn ==
  ASSUME Typed, StoreInv, Typed', StoreInv', NEW x \in Deletions, PurgeDocs(x)
  PROVE  \E D \in SUBSET Docs : Store!Withdraw(D)
<1>1. PICK D \in SUBSET Docs : D = purge[x].docs \cap docs
  BY DEF Typed, DocTypes
<1>2. \A d \in D : Asked(d)
  BY <1>1 DEF Asked, StoreInv, Listed
<1>3. final' = final
  BY DEF PurgeDocs
<1>4. \A d \in Docs : Serving(d)' = IF d \in D THEN NoSnap ELSE Serving(d)
  BY <1>1, DeletedServing
<1> QED
  BY <1>2, <1>3, <1>4, DeletionWithdraws

\* The snapshot that the collection is about to delete serves nobody.
Doomed == doomed # NoSnap => doomed \notin Served

\* A collection takes snapshots that serve nobody.
LEMMA DoomedUnserved ==
  ASSUME Typed, Doomed, NEW d \in docs
  PROVE  ~Reclaim(Serving(d))
BY DEF Reclaim, Doomed, Served

\* With no publication between the test of a snapshot and its deletion, it goes on to
\* serve nobody.
LEMMA DoomedStep ==
  ASSUME ~PurgeInterleaves, Typed, StoreInv, Doomed, [Next]_vars
  PROVE  Doomed'
<1>1. Typed' /\ ServesPresent /\ docs \subseteq Docs
  BY StepTyped, AbsentUnserved DEF StoreInv, Typed, DocTypes
<1>2. ASSUME NEW s \in Snaps, Recheck(s) PROVE Doomed'
  <2>1. Served' = Served
    BY <1>2 DEF Recheck, Served, Serving, Selecting, kbVars
  <2>2. (doomed' = s /\ s \notin Served) \/ doomed' = NoSnap
    BY <1>2 DEF Recheck, ServesAgain
  <2> QED
    BY <2>1, <2>2 DEF Doomed
<1>3. ASSUME NEW s \in Snaps, Reclaim(s) PROVE Doomed'
  BY <1>3 DEF Reclaim, Doomed
<1>4. CASE Crash
  BY <1>4 DEF Crash, Doomed
<1>5. ASSUME doomed' = doomed, \A d \in docs' : Serving(d)' \in {Serving(d), NoSnap}
      PROVE  Doomed'
  <2>1. \A d \in docs' : d \notin docs => Serving(d) = NoSnap
    BY <1>1 DEF ServesPresent, Typed, DocTypes
  <2> QED
    BY <1>5, <2>1 DEF Doomed, Served
<1>6. CASE builds' = builds /\ doomed' = doomed
  <2>1. \A d \in docs' : Serving(d)' = Serving(d)
    BY <1>6 DEF Serving, Selecting
  <2> QED
    BY <1>5, <1>6, <2>1
<1>7. ASSUME Publish PROVE Doomed'
  <2>1. doomed = NoSnap /\ doomed' = doomed
    BY <1>7 DEF Publish, gcVars
  <2> QED
    BY <2>1 DEF Doomed
<1>8. ASSUME NEW x \in Deletions, PurgeWipe(x) PROVE Doomed'
  <2>1. doomed' = doomed /\ docs' \subseteq Docs
    BY <1>1, <1>8 DEF PurgeWipe, gcVars, Typed, DocTypes
  <2> QED
    BY <1>1, <1>5, <1>8, <2>1, WipedServing
<1>9. ASSUME NEW x \in Deletions, PurgeDocs(x) PROVE Doomed'
  <2>1. doomed' = doomed /\ docs' \subseteq Docs
    BY <1>1, <1>9 DEF PurgeDocs, gcVars, Typed, DocTypes
  <2> QED
    BY <1>1, <1>5, <1>9, <2>1, DeletedServing
<1> QED
  BY <1>2, <1>3, <1>4, <1>6, <1>7, <1>8, <1>9, Writers

\* The invariant of the store and of its collection.
LEMMA DoomedAlways == ASSUME ~PurgeInterleaves PROVE Spec => [](Typed /\ StoreInv /\ Doomed)
<1>1. Init => Doomed
  BY DEF Init, Doomed
<1> QED
  BY <1>1, DoomedStep, StoreInvAlways, PTL DEF Spec

\* The collection of a snapshot that serves nobody tidies.
LEMMA CollectionTidies ==
  ASSUME Typed, StoreInv, Doomed, Typed', StoreInv', NEW s \in Snaps, Reclaim(s)
  PROVE  Store!Tidy
<1>1. final' \subseteq final
  <2>1. {s} \in SUBSET Snaps
    OBVIOUS
  <2>2. final' = final \ {s}
    BY <2>1, Takes
  <2> QED
    BY <2>2
<1>2. ASSUME NEW d \in Docs PROVE Serving(d)' = Serving(d)
  <2>1. KbOf[d] \in Kbs /\ BuildTypes' /\ NoSnap \notin Snaps
    BY KbAssumption DEF Typed
  <2>2. Serving(d) # s
    BY <2>1, AbsentUnserved, DoomedUnserved DEF ServesPresent, StoreInv
  <2>3. /\ DOMAIN builds'[KbOf[d]] = DOMAIN builds[KbOf[d]]
        /\ \A i \in DOMAIN builds[KbOf[d]] : builds'[KbOf[d]][i].sel[d] =
             IF builds[KbOf[d]][i].sel[d] = s THEN NoSnap ELSE builds[KbOf[d]][i].sel[d]
    BY <2>1, SnapCleared
  <2> QED
    BY <2>1, <2>2, <2>3, ServingStays
<1>3. \A d \in Docs : Serving(d)' = Serving(d)
  BY <1>2
<1> QED
  BY <1>1, <1>3, KeepingTidies DEF StoreInv

\* A step that leaves the builds brings no assets into force.
LEMMA OthersTidy ==
  ASSUME Typed, StoreInv, Typed', StoreInv', [Next]_vars, UNCHANGED builds
  PROVE  Store!Tidy
<1>1. ASSUME NEW d \in Docs, Persist(d) PROVE final' = final
  BY <1>1 DEF Persist
<1>2. ASSUME Publish PROVE final' = final
  <2>1. job.run \in Runs /\ FailRun(job.run)
    BY <1>2, Failures
  <2>2. job \in Jobs /\ job.pc = "publish"
    BY <1>2 DEF Publish, Typed, JobTypes
  <2>3. job' # [job EXCEPT !.pc = "record", !.built = TRUE]
    BY <2>1, <2>2 DEF FailRun, IdleJob, Jobs
  <2> QED
    BY <1>2, <2>3 DEF Publish
<1>3. ASSUME NEW x \in Deletions, PurgeReclaim(x) PROVE final' \subseteq final
  <2>1. purge[x].snaps \in SUBSET Snaps
    BY <1>3, ReclaimErases
  <2>2. final' = final \ purge[x].snaps
    BY <1>3, <2>1, Takes
  <2> QED
    BY <2>2
<1>4. ASSUME NEW s \in Snaps, Reclaim(s) PROVE final' \subseteq final
  <2>1. {s} \in SUBSET Snaps
    OBVIOUS
  <2>2. final' = final \ {s}
    BY <1>4, <2>1, Takes
  <2> QED
    BY <2>2
<1>5. final' \subseteq final
  BY <1>1, <1>2, <1>3, <1>4, Writers
<1>6. \A d \in Docs : Serving(d)' = Serving(d)
  BY DEF Serving, Selecting
<1> QED
  BY <1>5, <1>6, KeepingTidies DEF StoreInv

\* A new build publishes its decisions.
LEMMA BuildPublishes ==
  ASSUME Typed, StoreInv, Typed', StoreInv', Publish, builds' # builds
  PROVE  \E D \in SUBSET Docs : Store!Publish(D)
<1>0. PICK k \in Kbs, D \in SUBSET Docs :
             k = RunKb[job.run] /\ D = job.ready \cup job.skips
  BY Published DEF Typed, JobTypes, Jobs
<1> DEFINE b == [run |-> job.run, sel |-> NextSel, made |-> job.ready]
           S == {job.parsed[d] : d \in job.ready} \cap Snaps
<1>1. /\ NextSel \in [Docs -> Snaps \cup {NoSnap}] /\ Valid(S) /\ final' = Promoted(S)
      /\ job \in Jobs /\ BuildTypes' /\ builds \in [Kbs -> Seq(BuildSet)] /\ NoSnap \notin Snaps /\ b \in BuildSet
  BY Published, KbAssumption DEF Typed, JobTypes, Jobs, BuildTypes, BuildSet
<1>2. /\ \A l \in Kbs : l # k => builds'[l] = builds[l]
      /\ builds'[k] = Append(builds[k], b) /\ builds[k] \in Seq(BuildSet)
  <2>1. builds' = [builds EXCEPT ![k] = Append(builds[k], b)]
    BY <1>0, Published
  <2> HIDE DEF b
  <2> QED
    BY <1>1, <2>1
<1>3. /\ Len(builds[k]) \in Nat /\ DOMAIN builds[k] = 1 .. Len(builds[k])
      /\ DOMAIN builds'[k] = 1 .. Len(builds[k]) + 1
      /\ \A i \in 1 .. Len(builds[k]) : builds'[k][i] = builds[k][i]
      /\ builds'[k][Len(builds[k]) + 1].sel = NextSel
  <2>1. b.sel = NextSel
    OBVIOUS
  <2> HIDE DEF b
  <2> QED
    BY <1>1, <1>2, <2>1, AppendProperties, LenProperties
<1> HIDE DEF b
<1>4. /\ \A d \in D : KbOf[d] = k /\ NextSel[d] = job.parsed[d] /\ job.parsed[d] \in Snaps
      /\ \A d \in Docs \ D : KbOf[d] = k => NextSel[d] = IF d \in docs THEN Serving(d) ELSE NoSnap
  BY <1>0, <1>1 DEF StoreInv, Decided, Publish, NextSel
<1>5. ServesPresent /\ ServesPresent'
  BY AbsentUnserved, PTL DEF StoreInv
<1>6. ASSUME NEW d \in Docs, KbOf[d] # k PROVE Serving(d)' = Serving(d)
  <2>1. builds'[KbOf[d]] = builds[KbOf[d]]
    BY <1>2, <1>6, KbAssumption
  <2> QED
    BY <2>1 DEF Serving, Selecting
<1>7. ASSUME NEW d \in Docs, KbOf[d] = k, NextSel[d] # NoSnap PROVE Serving(d)' = NextSel[d]
  <2>1. \A j \in DOMAIN builds'[k] : j <= Len(builds[k]) + 1
    BY <1>3
  <2>2. PICK i \in DOMAIN builds'[k] : builds'[k][i].sel[d] = NextSel[d] /\ \A j \in DOMAIN builds'[k] : j <= i
    BY <1>3, <2>1
  <2>3. i \in DOMAIN builds'[KbOf[d]] /\ builds'[KbOf[d]][i].sel[d] # NoSnap
    BY <1>7, <2>2
  <2>4. \A j \in DOMAIN builds'[KbOf[d]] : builds'[KbOf[d]][j].sel[d] # NoSnap => j <= i
    BY <1>7, <2>2
  <2>5. Serving(d)' = builds'[KbOf[d]][i].sel[d]
    BY <1>1, <2>3, <2>4, NextServing
  <2> QED
    BY <1>7, <2>2, <2>5
<1>8. ASSUME NEW d \in Docs, KbOf[d] = k, NextSel[d] = NoSnap PROVE Serving(d)' = Serving(d)
  <2>1. Serving(d) = NoSnap
    BY <1>1, <1>4, <1>5, <1>8 DEF ServesPresent
  <2>2. \A i \in DOMAIN builds[k] : builds[k][i].sel[d] = NoSnap
    BY <1>8, <2>1, ServingSelected DEF Typed
  <2>3. \A i \in DOMAIN builds'[k] : builds'[k][i].sel[d] = NoSnap
    BY <1>3, <1>8, <2>2
  <2> QED
    BY <1>1, <1>8, <2>1, <2>3, NextServing
<1> DEFINE new == [d \in D |-> job.parsed[d]]
<1>9. new \in [D -> Snaps]
  BY <1>4
<1>10. \A d \in Docs : Serving(d)' = IF d \in D THEN new[d] ELSE Serving(d)
  <2> TAKE d \in Docs
  <2>1. CASE d \in D
    BY <1>1, <1>4, <1>7, <2>1
  <2>2. CASE d \notin D /\ KbOf[d] = k
    <3>1. NextSel[d] = Serving(d)
      BY <1>4, <1>5, <2>2 DEF ServesPresent
    <3> QED
      BY <1>7, <1>8, <2>2, <3>1
  <2>3. CASE d \notin D /\ KbOf[d] # k
    BY <1>6, <2>3
  <2> QED
    BY <2>1, <2>2, <2>3
<1>11. [d \in Docs |-> IF d \in docs THEN Serving(d) ELSE NoSnap]'
         = [d \in Docs |-> IF d \in D THEN new[d]
                           ELSE [e \in Docs |-> IF e \in docs THEN Serving(e) ELSE NoSnap][d]]
  <2>1. \A d \in Docs : /\ (IF d \in docs THEN Serving(d) ELSE NoSnap)' = Serving(d)'
                        /\ (IF d \in docs THEN Serving(d) ELSE NoSnap) = Serving(d)
    BY <1>5 DEF ServesPresent
  <2> HIDE DEF new
  <2> QED
    BY <1>10, <2>1
<1>12. final \cup {new[d] : d \in D} = final' /\ final' \in SUBSET Snaps
  <2>1. final' \subseteq Snaps
    BY DEF Typed, AssetTypes
  <2>2. \A d \in D : new[d] \in final'
    <3> TAKE d \in D
    <3>1. Serving(d)' = new[d] /\ new[d] # NoSnap
      BY <1>1, <1>9, <1>10
    <3> QED
      BY <1>5, <3>1 DEF ServesPresent
  <2>3. \A s \in S : s \in {new[d] : d \in D}
    BY <1>0
  <2>4. final' \subseteq final \cup S
    BY <1>1 DEF Promoted
  <2>5. final \subseteq final'
    <3>1. \A s \in S : staging[s] # "none"
      BY DEF StoreInv, Decided, Publish
    <3> QED
      BY <1>1, <3>1 DEF Promoted
  <2> HIDE DEF new, S
  <2> QED
    BY <2>1, <2>2, <2>3, <2>4, <2>5
<1>13. {d \in Docs : Asked(d)}' = {d \in Docs : Asked(d)}
  BY DEF Publish, Asked, kbVars, purgeVars
<1>14. Store!Publish(D)
  <2> HIDE DEF new
  <2> QED
    BY <1>9, <1>11, <1>12, <1>13 DEF Store!Publish
<1> QED
  BY <1>14

\* Every step of the store is one of KbServing.
LEMMA StepServes ==
  ASSUME Typed, StoreInv, Doomed, Tasked, Typed', StoreInv', [Next]_vars
  PROVE  Store!Next
<1>1. CASE UNCHANGED builds
  BY <1>1, OthersTidy DEF Store!Next
<1>2. CASE Publish /\ builds' # builds
  BY <1>2, BuildPublishes DEF Store!Next
<1>3. ASSUME NEW x \in Deletions, PurgeWipe(x) PROVE Store!Next
  BY <1>3, WipeWithdraws DEF Store!Next
<1>4. ASSUME NEW x \in Deletions, PurgeDocs(x) PROVE Store!Next
  BY <1>4, DeletedWithdrawn DEF Store!Next
<1>5. ASSUME NEW s \in Snaps, Reclaim(s) PROVE Store!Next
  BY <1>5, CollectionTidies DEF Store!Next
<1> QED
  BY <1>1, <1>2, <1>3, <1>4, <1>5, Writers

\* The store keeps the promise of KbServing: a document leaves the service only when its
\* deletion was asked for, a build serves versions whose assets are in force, and assets
\* are dropped only when they serve nobody.
THEOREM StoreKeepsPromise == ASSUME ~PurgeInterleaves PROVE Spec => ImplementsServing
<1>1. Init => Tasked /\ Store!Init
  <2> SUFFICES ASSUME Init PROVE Tasked /\ Store!Init
    OBVIOUS
  <2>1. Tasked
    BY DEF Init, Tasked, NoPurge
  <2>2. ASSUME NEW d \in Docs PROVE Serving(d) = NoSnap
    <3>1. builds[KbOf[d]] = << >>
      BY KbAssumption DEF Init
    <3>2. Selecting(KbOf[d], d) = {}
      BY <3>1 DEF Selecting
    <3> QED
      BY <3>2 DEF Serving
  <2>3. [d \in Docs |-> IF d \in docs THEN Serving(d) ELSE NoSnap] = [d \in Docs |-> NoSnap]
    BY <2>2
  <2> QED
    BY <2>1, <2>3 DEF Init, Store!Init
<1>2. Typed /\ Tasked /\ [Next]_vars => Tasked'
  BY TaskedStep
<1>3. Typed /\ StoreInv /\ Doomed /\ Tasked /\ Typed' /\ StoreInv' /\ [Next]_vars => [Store!Next]_Store!vars
  BY StepServes
<1> QED
  BY <1>1, <1>2, <1>3, DoomedAlways, PTL DEF Spec, ImplementsServing, Store!Spec

-----------------------------------------------------------------------------
(* What a run records of its build.                                        *)

\* The other runs of the knowledge base of run r.
Rivals(r) == {q \in Runs \ {r} : RunKb[q] = RunKb[r]}

\* Run r is being executed, or is to be claimed again after a crash.
Busy(r) == rstat[r] \in {"running", "interrupted"}

\* Run r may still publish or record: it is busy, or it failed and may be resumed.
Live(r) ==
  \/ Busy(r)
  \/ /\ rstat[r] = "failed"
     /\ \A q \in Rivals(r) : ~Busy(q) /\ (r < q => rstat[q] \notin {"failed", "completed"})

\* A run begins when the earlier runs of its knowledge base have ended.
InTurn ==
  \A r \in Runs : \A q \in Rivals(r) : r < q =>
    /\ rstat[q] # "absent" => rstat[r] # "absent"
    /\ rstat[q] \in {"running", "interrupted", "failed", "completed"} =>
         rstat[r] \in {"failed", "completed", "gone"}

\* The executor works on the one busy run of its knowledge base, or on one that a deletion
\* has taken with all the others.
Alone ==
  job.run # NoRun =>
    \/ rstat[job.run] = "running" /\ \A q \in Rivals(job.run) : ~Busy(q)
    \/ rstat[job.run] = "gone" /\ \A q \in Rivals(job.run) : rstat[q] \in {"absent", "queued", "gone"}

\* The steps that write the status of runs, and what they write.
LEMMA StatusSteps ==
  ASSUME Typed, [Next]_vars
  PROVE  \/ rstat' = rstat
         \/ \E r \in Runs : /\ Enqueue(r) /\ rstat[r] = "absent" /\ rstat' = [rstat EXCEPT ![r] = "queued"]
                            /\ job' = job
         \/ \E r \in Runs : /\ Claim(r) \/ Resume(r)
                            /\ job.run = NoRun /\ \A q \in Rivals(r) : ~Busy(q)
                            /\ rstat[r] \in {"queued", "interrupted", "failed"}
                            /\ rstat' = [rstat EXCEPT ![r] = "running"] /\ job'.run = r
         \/ /\ job.run \in Runs /\ job' = IdleJob
            /\ \E s \in {"failed", "completed"} :
                 rstat' = [rstat EXCEPT ![job.run] = IF rstat[job.run] = "running" THEN s ELSE rstat[job.run]]
         \/ /\ Crash /\ job' = IdleJob
            /\ rstat' = [r \in Runs |-> IF rstat[r] = "running" THEN "interrupted" ELSE rstat[r]]
         \/ \E k \in Kbs : /\ Wipes(k) /\ job' = job
                           /\ rstat' = [r \in Runs |-> IF RunKb[r] = k /\ rstat[r] # "absent" THEN "gone" ELSE rstat[r]]
<1>1. rstat \in [Runs -> Statuses] /\ job \in Jobs /\ (job.pc = "idle" <=> job.run = NoRun)
  BY DEF Typed, RunTypes, JobTypes
<1>2. ASSUME NEW r \in Runs, Enqueue(r)
      PROVE  rstat[r] = "absent" /\ rstat' = [rstat EXCEPT ![r] = "queued"] /\ job' = job
  BY <1>2 DEF Enqueue
<1>3. ASSUME NEW r \in Runs, Claim(r) \/ Resume(r)
      PROVE  /\ job.run = NoRun /\ \A q \in Rivals(r) : ~Busy(q)
             /\ rstat[r] \in {"queued", "interrupted", "failed"}
             /\ rstat' = [rstat EXCEPT ![r] = "running"] /\ job'.run = r
  BY <1>3, Empties DEF Claim, Resume, Start, Rivals, Busy, Jobs
<1>4. CASE Publish /\ UNCHANGED builds
  <2>1. job.run \in Runs /\ FailRun(job.run)
    BY <1>4, Failures
  <2> QED
    BY <2>1, FailedRows
<1>5. CASE Publish /\ builds' # builds
  BY <1>5, Published
<1>6. CASE JobFails
  <2>1. job.run \in Runs /\ FailRun(job.run)
    BY <1>6, Failures
  <2> QED
    BY <2>1, FailedRows
<1>7. CASE Settle
  <2>1. job.run \in Runs
    BY <1>7, AtWork DEF Settle
  <2>2. job' = IdleJob
    BY <1>7 DEF Settle
  <2>3. PICK b \in BOOLEAN : rstat' = [rstat EXCEPT ![job.run] =
           IF @ # "running" THEN @ ELSE IF b THEN "failed" ELSE "completed"]
    <3>1. PICK b \in BOOLEAN : b = (job.bad /\ ~job.built /\ job.ready = {} /\ job.skips = {})
      OBVIOUS
    <3> QED
      BY <1>7, <3>1, Zenon DEF Settle
  <2>4. PICK s \in {"failed", "completed"} : s = IF b THEN "failed" ELSE "completed"
    OBVIOUS
  <2> QED
    BY <2>1, <2>2, <2>3, <2>4
<1>8. CASE Crash
  BY <1>8 DEF Crash
<1>9. ASSUME NEW x \in Deletions, PurgeWipe(x)
      PROVE  /\ Wipes(DelKb[x]) /\ DelKb[x] \in Kbs /\ job' = job
             /\ rstat' = [r \in Runs |-> IF RunKb[r] = DelKb[x] /\ rstat[r] # "absent" THEN "gone" ELSE rstat[r]]
  BY <1>9, KbAssumption DEF PurgeWipe, Wipes
<1> QED
  BY <1>2, <1>3, <1>4, <1>5, <1>6, <1>7, <1>8, <1>9, Writers

\* A job keeps to its run.
LEMMA JobKeepsRun ==
  ASSUME Typed, [Next]_vars
  PROVE  job'.run = job.run \/ job' = IdleJob \/ \E r \in Runs : Claim(r) \/ Resume(r)
<1>1. job \in Jobs
  BY DEF Typed, JobTypes
<1>2. ASSUME NEW d \in Docs, Parse(d) \/ Persist(d) \/ GiveUp(d) \/ Record(d) PROVE job'.run = job.run
  BY <1>1, <1>2 DEF Parse, Persist, GiveUp, Record, Jobs
<1>3. ASSUME Ingest PROVE job'.run = job.run
  <2>1. PICK S, T : job' = [job EXCEPT !.pc = "pipeline", !.retry = S, !.todo = T]
    BY <1>3, Zenon DEF Ingest
  <2> QED
    BY <1>1, <2>1 DEF Jobs
<1>4. ASSUME Index PROVE job'.run = job.run
  BY <1>4, Indexed
<1>5. ASSUME EnterPublishing PROVE job'.run = job.run \/ job' = IdleJob
  BY <1>1, <1>5 DEF EnterPublishing, Jobs
<1>6. CASE Publish /\ builds' # builds
  <2>1. job' = [job EXCEPT !.pc = "record", !.built = TRUE]
    BY <1>6, Published
  <2> QED
    BY <1>1, <2>1 DEF Jobs
<1>7. CASE JobFails \/ (Publish /\ UNCHANGED builds)
  BY <1>7, Failures DEF FailRun
<1>8. CASE Settle \/ Abort \/ Crash
  BY <1>8 DEF Settle, Abort, Crash
<1>9. ASSUME NEW x \in Deletions, PurgeReclaim(x) PROVE job'.run = job.run
  BY <1>9, ReclaimErases, Erased
<1>10. ASSUME NEW s \in Snaps, Reclaim(s) PROVE job'.run = job.run
  <2>1. {s} \in SUBSET Snaps /\ Erase({s}, {s})
    BY <1>10 DEF Reclaim
  <2> QED
    BY <2>1, Erased
<1> QED
  BY <1>2, <1>3, <1>4, <1>5, <1>6, <1>7, <1>8, <1>9, <1>10, Writers

\* Runs are claimed in turn, and only the last of a knowledge base is resumed.
LEMMA InTurnStep == ASSUME ~StaleResumes, Typed, InTurn, [Next]_vars PROVE InTurn'
<1> SUFFICES ASSUME NEW r \in Runs, NEW q \in Rivals(r), r < q
             PROVE  /\ rstat'[q] # "absent" => rstat'[r] # "absent"
                    /\ rstat'[q] \in {"running", "interrupted", "failed", "completed"} =>
                         rstat'[r] \in {"failed", "completed", "gone"}
  BY DEF InTurn, Rivals
<1>1. /\ rstat \in [Runs -> Statuses] /\ q \in Runs /\ q # r /\ RunKb[q] = RunKb[r]
      /\ q \in Nat /\ r \in Nat
  BY KbAssumption DEF Typed, RunTypes, Rivals
<1>2. /\ rstat[q] # "absent" => rstat[r] # "absent"
      /\ rstat[q] \in {"running", "interrupted", "failed", "completed"} =>
           rstat[r] \in {"failed", "completed", "gone"}
  BY DEF InTurn
<1>3. ASSUME NEW p \in Runs, Enqueue(p), rstat[p] = "absent", rstat' = [rstat EXCEPT ![p] = "queued"]
      PROVE  /\ rstat'[q] # "absent" => rstat'[r] # "absent"
             /\ rstat'[q] \in {"running", "interrupted", "failed", "completed"} =>
                  rstat'[r] \in {"failed", "completed", "gone"}
  BY <1>1, <1>2, <1>3 DEF Enqueue
<1>4. ASSUME NEW p \in Runs, Claim(p) \/ Resume(p), \A o \in Rivals(p) : ~Busy(o),
             rstat' = [rstat EXCEPT ![p] = "running"]
      PROVE  /\ rstat'[q] # "absent" => rstat'[r] # "absent"
             /\ rstat'[q] \in {"running", "interrupted", "failed", "completed"} =>
                  rstat'[r] \in {"failed", "completed", "gone"}
  <2>1. CASE p = q
    <3>1. r \in Rivals(q)
      BY <1>1 DEF Rivals
    <3>2. rstat[r] \notin {"running", "interrupted"}
      BY <1>4, <2>1, <3>1 DEF Busy
    <3>3. rstat[q] # "absent"
      BY <1>4, <2>1 DEF Claim, Resume
    <3>4. rstat[r] # "queued"
      BY <1>1, <1>2, <1>4, <2>1 DEF Claim, Resume
    <3> QED
      BY <1>1, <1>2, <1>4, <2>1, <3>2, <3>3, <3>4 DEF Statuses
  <2>2. CASE p = r
    <3>1. rstat[q] \notin {"running", "interrupted"}
      BY <1>4, <2>2 DEF Busy
    <3>2. CASE Claim(r)
      BY <1>1, <1>2, <1>4, <2>2, <3>1, <3>2 DEF Claim
    <3>3. CASE Resume(r)
      BY <1>1, <1>2, <1>4, <2>2, <3>1, <3>3 DEF Resume
    <3> QED
      BY <1>4, <2>2, <3>2, <3>3
  <2>3. CASE p # q /\ p # r
    BY <1>1, <1>2, <1>4, <2>3
  <2> QED
    BY <2>1, <2>2, <2>3
<1>5. ASSUME NEW p \in Runs, NEW s \in {"failed", "completed"},
             rstat' = [rstat EXCEPT ![p] = IF rstat[p] = "running" THEN s ELSE rstat[p]]
      PROVE  /\ rstat'[q] # "absent" => rstat'[r] # "absent"
             /\ rstat'[q] \in {"running", "interrupted", "failed", "completed"} =>
                  rstat'[r] \in {"failed", "completed", "gone"}
  BY <1>1, <1>2, <1>5
<1>6. ASSUME rstat' = [p \in Runs |-> IF rstat[p] = "running" THEN "interrupted" ELSE rstat[p]]
      PROVE  /\ rstat'[q] # "absent" => rstat'[r] # "absent"
             /\ rstat'[q] \in {"running", "interrupted", "failed", "completed"} =>
                  rstat'[r] \in {"failed", "completed", "gone"}
  BY <1>1, <1>2, <1>6
<1>7. ASSUME NEW k \in Kbs,
             rstat' = [p \in Runs |-> IF RunKb[p] = k /\ rstat[p] # "absent" THEN "gone" ELSE rstat[p]]
      PROVE  /\ rstat'[q] # "absent" => rstat'[r] # "absent"
             /\ rstat'[q] \in {"running", "interrupted", "failed", "completed"} =>
                  rstat'[r] \in {"failed", "completed", "gone"}
  BY <1>1, <1>2, <1>7
<1> QED
  BY <1>2, <1>3, <1>4, <1>5, <1>6, <1>7, StatusSteps

\* The executor stays alone on its knowledge base.
LEMMA AloneStep == ASSUME Typed, Alone, [Next]_vars PROVE Alone'
<1> SUFFICES ASSUME job'.run # NoRun
             PROVE  \/ rstat'[job'.run] = "running" /\ \A q \in Rivals(job'.run) : ~Busy(q)'
                    \/ /\ rstat'[job'.run] = "gone"
                       /\ \A q \in Rivals(job'.run) : rstat'[q] \in {"absent", "queued", "gone"}
  BY DEF Alone, Rivals
<1>1. /\ rstat \in [Runs -> Statuses] /\ IdleJob.run = NoRun /\ \A r \in Runs : r # NoRun
      /\ job.run \in Runs \cup {NoRun}
  BY KbAssumption DEF Typed, RunTypes, JobTypes, Jobs, IdleJob
<1>2. ASSUME NEW r \in Runs, \A q \in Rivals(r) : ~Busy(q), rstat' = [rstat EXCEPT ![r] = "running"],
             job'.run = r
      PROVE  rstat'[job'.run] = "running" /\ \A q \in Rivals(job'.run) : ~Busy(q)'
  BY <1>1, <1>2 DEF Rivals, Busy
<1>3. CASE \E r \in Runs : Claim(r) \/ Resume(r)
  <2>1. PICK r \in Runs : Claim(r) \/ Resume(r)
    BY <1>3
  <2>2. /\ \A q \in Rivals(r) : ~Busy(q)
        /\ rstat' = [rstat EXCEPT ![r] = "running"] /\ job'.run = r
    BY <2>1, Empties DEF Claim, Resume, Start, Rivals, Busy, Jobs
  <2> QED
    BY <1>2, <2>2
<1>4. CASE job'.run = job.run
  <2> DEFINE r == job.run
  <2>1. r \in Runs /\ r # NoRun
    BY <1>1, <1>4
  <2>2. \/ rstat[r] = "running" /\ \A q \in Rivals(r) : ~Busy(q)
        \/ rstat[r] = "gone" /\ \A q \in Rivals(r) : rstat[q] \in {"absent", "queued", "gone"}
    BY <2>1 DEF Alone
  <2>3. CASE rstat' = rstat
    BY <1>4, <2>2, <2>3 DEF Busy
  <2>4. ASSUME NEW p \in Runs, rstat[p] = "absent", rstat' = [rstat EXCEPT ![p] = "queued"]
        PROVE  \/ rstat'[r] = "running" /\ \A q \in Rivals(r) : ~Busy(q)'
               \/ rstat'[r] = "gone" /\ \A q \in Rivals(r) : rstat'[q] \in {"absent", "queued", "gone"}
    BY <1>1, <2>1, <2>2, <2>4 DEF Busy, Rivals
  <2>5. ASSUME NEW k \in Kbs,
               rstat' = [p \in Runs |-> IF RunKb[p] = k /\ rstat[p] # "absent" THEN "gone" ELSE rstat[p]]
        PROVE  \/ rstat'[r] = "running" /\ \A q \in Rivals(r) : ~Busy(q)'
               \/ rstat'[r] = "gone" /\ \A q \in Rivals(r) : rstat'[q] \in {"absent", "queued", "gone"}
    BY <1>1, <2>1, <2>2, <2>5 DEF Busy, Rivals
  <2>6. CASE job' = IdleJob
    BY <1>1, <1>4, <2>1, <2>6
  <2> QED
    BY <1>2, <1>4, <2>1, <2>3, <2>4, <2>5, <2>6, StatusSteps
<1> QED
  BY <1>1, <1>3, <1>4, JobKeepsRun

\* A run that may still write was so before the step, or leaves the queue with it.
LEMMA LiveBefore ==
  ASSUME ~StaleResumes, Typed, InTurn, [Next]_vars, NEW r \in Runs, Live(r)'
  PROVE  \/ Live(r) /\ ~Wipes(RunKb[r])
         \/ Claim(r) /\ rstat[r] = "queued"
<1>1. /\ rstat \in [Runs -> Statuses] /\ r \in Nat
      /\ \A q \in Rivals(r) : q \in Runs /\ q # r /\ q \in Nat /\ r \in Rivals(q) /\ RunKb[q] = RunKb[r]
  BY KbAssumption DEF Typed, RunTypes, Rivals
<1>2. \/ rstat'[r] \in {"running", "interrupted"}
      \/ /\ rstat'[r] = "failed"
         /\ \A q \in Rivals(r) : /\ rstat'[q] \notin {"running", "interrupted"}
                                 /\ r < q => rstat'[q] \notin {"failed", "completed"}
  BY DEF Live, Busy, Rivals
<1>3. Live(r) <=> \/ rstat[r] \in {"running", "interrupted"}
                  \/ /\ rstat[r] = "failed"
                     /\ \A q \in Rivals(r) : /\ rstat[q] \notin {"running", "interrupted"}
                                             /\ r < q => rstat[q] \notin {"failed", "completed"}
  BY DEF Live, Busy
<1>4. ~Wipes(RunKb[r])
  BY <1>1, <1>2 DEF PurgeWipe, Wipes
<1>5. CASE rstat' = rstat
  BY <1>2, <1>3, <1>4, <1>5
<1>6. ASSUME NEW p \in Runs, rstat[p] = "absent", rstat' = [rstat EXCEPT ![p] = "queued"]
      PROVE  Live(r)
  BY <1>1, <1>2, <1>3, <1>6
<1>7. ASSUME NEW p \in Runs, Claim(p) \/ Resume(p), \A q \in Rivals(p) : ~Busy(q),
             rstat' = [rstat EXCEPT ![p] = "running"]
      PROVE  Live(r) \/ (Claim(r) /\ rstat[r] = "queued")
  <2>1. CASE p = r /\ Claim(p)
    BY <1>3, <1>7, <2>1 DEF Claim
  <2>2. CASE p = r /\ Resume(p)
    <3>1. rstat[r] = "failed" /\ ~\E q \in Runs : q > r /\ RunKb[q] = RunKb[r]
                                                 /\ rstat[q] \in {"failed", "completed"}
      BY <2>2 DEF Resume
    <3> QED
      BY <1>1, <1>3, <1>7, <2>2, <3>1 DEF Busy
  <2>3. CASE p # r
    <3>1. p \notin Rivals(r) \/ rstat'[r] # "failed"
      BY <1>1, <1>2, <1>7
    <3>2. rstat'[r] = rstat[r] /\ \A q \in Rivals(r) : q # p => rstat'[q] = rstat[q]
      BY <1>1, <1>7, <2>3
    <3> QED
      BY <1>2, <1>3, <3>1, <3>2
  <2> QED
    BY <1>7, <2>1, <2>2, <2>3
<1>8. ASSUME NEW p \in Runs, NEW s \in {"failed", "completed"},
             rstat' = [rstat EXCEPT ![p] = IF rstat[p] = "running" THEN s ELSE rstat[p]]
      PROVE  Live(r)
  <2>1. CASE rstat[p] # "running"
    BY <1>1, <1>2, <1>3, <1>8, <2>1
  <2>2. CASE rstat[p] = "running" /\ p = r
    BY <1>3, <2>2
  <2>3. CASE rstat[p] = "running" /\ p # r
    <3>1. rstat'[r] = rstat[r] /\ rstat'[p] = s /\ \A q \in Runs : q # p => rstat'[q] = rstat[q]
      BY <1>1, <1>8, <2>3
    <3>2. CASE p \in Rivals(r) /\ rstat[r] = "failed"
      <4>1. ~(r < p)
        BY <1>2, <3>1, <3>2
      <4>2. p < r /\ r \in Rivals(p)
        BY <1>1, <3>2, <4>1
      <4>3. rstat[p] \in {"failed", "completed", "gone"}
        BY <3>2, <4>2 DEF InTurn
      <4> QED
        BY <2>3, <4>3
    <3>3. CASE p \notin Rivals(r) \/ rstat[r] # "failed"
      BY <1>1, <1>2, <1>3, <3>1, <3>3
    <3> QED
      BY <3>2, <3>3
  <2> QED
    BY <2>1, <2>2, <2>3
<1>9. ASSUME rstat' = [p \in Runs |-> IF rstat[p] = "running" THEN "interrupted" ELSE rstat[p]]
      PROVE  Live(r)
  BY <1>1, <1>2, <1>3, <1>9
<1>10. ASSUME NEW k \in Kbs,
              rstat' = [p \in Runs |-> IF RunKb[p] = k /\ rstat[p] # "absent" THEN "gone" ELSE rstat[p]]
       PROVE  Live(r)
  <2>1. RunKb[r] # k
    BY <1>1, <1>2, <1>10
  <2> QED
    BY <1>1, <1>2, <1>3, <1>10, <2>1
<1> QED
  BY <1>4, <1>5, <1>6, <1>7, <1>8, <1>9, <1>10, StatusSteps

\* While the executor works for a knowledge base, only its own run may write there.
LEMMA LiveIsSole ==
  ASSUME Typed, Alone, NEW r \in Runs, Live(r), job.run \in Runs, RunKb[job.run] = RunKb[r]
  PROVE  r = job.run /\ rstat[r] = "running"
<1>1. job.run # NoRun
  BY KbAssumption
<1>2. r # job.run => r \in Rivals(job.run) /\ job.run \in Rivals(r)
  BY DEF Rivals
<1> QED
  BY <1>1, <1>2 DEF Alone, Live, Busy

\* A deletion or a collection takes snapshots away.
Erasing == (\E x \in Deletions : PurgeReclaim(x)) \/ \E s \in Snaps : Reclaim(s)

\* What no selection refers to serves nobody.
LEMMA OrphanServesNobody ==
  ASSUME Typed, NEW s \in Snaps, Orphan(s)
  PROVE  s \notin Served
<1> SUFFICES ASSUME NEW d \in docs, Serving(d) = s PROVE FALSE
  BY DEF Served
<1>1. BuildTypes /\ d \in Docs /\ KbOf[d] \in Kbs /\ s # NoSnap
  BY KbAssumption DEF Typed, DocTypes
<1>2. PICK i \in DOMAIN builds[KbOf[d]] : builds[KbOf[d]][i].sel[d] = s
  BY <1>1, ServingSelected
<1> QED
  BY <1>1, <1>2 DEF Orphan

\* How the row of a document of a run changes.
LEMMA RowChanges ==
  ASSUME Typed, [Next]_vars, NEW r \in Runs, NEW d \in Docs
  PROVE  \/ row'[r][d] = row[r][d]
         \/ /\ Ingest /\ r = job.run /\ d \in docs /\ KbOf[d] = RunKb[r]
            /\ row'[r][d] = Prepared(r, d)
         \/ /\ Persist(d) /\ r = job.run /\ job.pc = "pipeline" /\ Marker(row[r][d]) = NoSnap
            /\ row[r][d].st # "none" /\ row'[r][d].st = row[r][d].st
         \/ /\ GiveUp(d) /\ r = job.run /\ job.pc = "pipeline" /\ Marker(row[r][d]) = NoSnap
            /\ row[r][d].st # "none" /\ row'[r][d].st = "failed" /\ row'[r][d].snap = row[r][d].snap
         \/ /\ Record(d) /\ r = job.run /\ job.pc = "record"
            /\ row[r][d].st # "none" /\ row'[r][d].snap = row[r][d].snap
            /\ row'[r][d].st = IF d \in job.ready THEN "committed" ELSE "failed"
         \/ /\ r = job.run /\ job' = IdleJob /\ row[r][d].st = "processing"
            /\ row'[r][d].st = "failed" /\ row'[r][d].snap = row[r][d].snap
         \/ /\ row'[r][d] = NoRow
            /\ Wipes(RunKb[r]) \/ \E x \in Deletions : PurgeDocs(x) /\ d \in purge[x].docs \cap docs
         \/ /\ row'[r][d].snap = Gone /\ row'[r][d].st = row[r][d].st
            /\ row[r][d].snap \in Snaps /\ (Doomed => row[r][d].snap \notin Served)
            /\ Erasing
<1>1. /\ job \in Jobs /\ row \in [Runs -> [Docs -> Rows]] /\ row[r][d] \in Rows /\ docs \subseteq Docs
  BY DEF Typed, JobTypes, RunTypes, DocTypes
<1>2. CASE row' = row
  BY <1>2
<1>3. CASE Ingest
  <2>1. /\ \A e \in Docs : row'[job.run][e] =
              IF e \in DocsOf(RunKb[job.run]) THEN Prepared(job.run, e) ELSE row[job.run][e]
        /\ \A q \in Runs \ {job.run}, e \in Docs : row'[q][e] = row[q][e]
    BY <1>3, IngestedRows
  <2> QED
    BY <1>3, <2>1 DEF DocsOf
<1>4. ASSUME NEW e \in Docs, Persist(e), row'[r][d] # row[r][d]
      PROVE  /\ e = d /\ r = job.run /\ job.pc = "pipeline" /\ Marker(row[r][d]) = NoSnap
             /\ row[r][d].st # "none" /\ row'[r][d].st = row[r][d].st
  <2>1. /\ \A q \in Runs, f \in Docs : q # job.run \/ f # e => row'[q][f] = row[q][f]
        /\ \/ row'[job.run][e] = row[job.run][e]
           \/ /\ row'[job.run][e] = [row[job.run][e] EXCEPT !.snap = job.parsed[e]]
              /\ row[job.run][e].st # "none" /\ Marker(row[job.run][e]) = NoSnap
    BY <1>4, PersistedRows
  <2>2. job.pc = "pipeline"
    BY <1>4 DEF Persist
  <2> QED
    BY <1>1, <1>4, <2>1, <2>2 DEF Rows
<1>5. ASSUME NEW e \in Docs, GiveUp(e), row'[r][d] # row[r][d]
      PROVE  /\ e = d /\ r = job.run /\ job.pc = "pipeline" /\ Marker(row[r][d]) = NoSnap
             /\ row[r][d].st # "none" /\ row'[r][d].st = "failed" /\ row'[r][d].snap = row[r][d].snap
  <2>1. job.run \in Runs /\ job.pc = "pipeline"
    BY <1>5, AtWork DEF GiveUp
  <2>2. row' = [row EXCEPT ![job.run][e].st =
               IF @ = "none" \/ Marker(row[job.run][e]) # NoSnap THEN @ ELSE "failed"]
    BY <1>5 DEF GiveUp
  <2> QED
    BY <1>1, <1>5, <2>1, <2>2 DEF Rows
<1>6. ASSUME NEW e \in Docs, Record(e), row'[r][d] # row[r][d]
      PROVE  /\ e = d /\ r = job.run /\ job.pc = "record"
             /\ row[r][d].st # "none" /\ row'[r][d].snap = row[r][d].snap
             /\ row'[r][d].st = IF d \in job.ready THEN "committed" ELSE "failed"
  <2>1. job.run \in Runs /\ job.pc = "record"
    BY <1>6, AtWork DEF Record
  <2>2. row' = [row EXCEPT ![job.run][e].st =
               IF @ = "none" THEN @ ELSE IF e \in job.ready THEN "committed" ELSE "failed"]
    BY <1>6 DEF Record
  <2> QED
    BY <1>1, <1>6, <2>1, <2>2 DEF Rows
<1>7. CASE JobFails \/ (Publish /\ UNCHANGED builds)
  <2>1. job.run \in Runs /\ FailRun(job.run)
    BY <1>7, Failures
  <2>2. /\ job' = IdleJob
        /\ \A q \in Runs, e \in Docs : q # job.run => row'[q][e] = row[q][e]
        /\ row' = [row EXCEPT ![job.run] = [e \in Docs |->
               IF @[e].st = "processing" THEN [@[e] EXCEPT !.st = "failed"] ELSE @[e]]]
    BY <2>1, FailedRows DEF FailRun
  <2>3. r = job.run => row'[r][d] = IF row[r][d].st = "processing" THEN [row[r][d] EXCEPT !.st = "failed"]
                                    ELSE row[r][d]
    BY <1>1, <2>1, <2>2
  <2> QED
    BY <1>1, <2>2, <2>3 DEF Rows
<1>8. CASE Publish /\ builds' # builds
  BY <1>8, Published
<1>9. ASSUME NEW x \in Deletions, PurgeWipe(x)
      PROVE  row'[r][d] = row[r][d] \/ (row'[r][d] = NoRow /\ Wipes(RunKb[r]))
  BY <1>9 DEF PurgeWipe, Wipes
<1>10. ASSUME NEW x \in Deletions, PurgeDocs(x)
       PROVE  row'[r][d] = row[r][d] \/ (row'[r][d] = NoRow /\ d \in purge[x].docs \cap docs)
  BY <1>10 DEF PurgeDocs
<1>11. ASSUME NEW S \in SUBSET Snaps, NEW T \in SUBSET Snaps, Erase(S, T)
       PROVE  \/ row'[r][d] = row[r][d]
              \/ /\ row'[r][d].snap = Gone /\ row'[r][d].st = row[r][d].st
                 /\ row[r][d].snap \in T /\ row[r][d].snap \in Snaps
  <2>1. row'[r][d] = IF row[r][d].snap \in T THEN [row[r][d] EXCEPT !.snap = Gone] ELSE row[r][d]
    BY <1>11 DEF Erase
  <2> QED
    BY <1>1, <1>11, <2>1 DEF Rows
<1>12. ASSUME NEW x \in Deletions, PurgeReclaim(x)
       PROVE  \/ row'[r][d] = row[r][d]
              \/ /\ row'[r][d].snap = Gone /\ row'[r][d].st = row[r][d].st
                 /\ row[r][d].snap \in Snaps \ Served
  <2>1. purge[x].snaps \in SUBSET Snaps
    BY <1>12, ReclaimErases
  <2>2. PICK T \in SUBSET Snaps : Erase(purge[x].snaps, T) /\ T = {s \in purge[x].snaps : Orphan(s)}
    BY <1>12, ReclaimErases
  <2>3. \A s \in T : s \notin Served
    BY <2>2, OrphanServesNobody
  <2> QED
    BY <1>11, <2>1, <2>2, <2>3
<1>13. ASSUME NEW s \in Snaps, Reclaim(s)
       PROVE  \/ row'[r][d] = row[r][d]
              \/ /\ row'[r][d].snap = Gone /\ row'[r][d].st = row[r][d].st
                 /\ row[r][d].snap \in Snaps /\ (Doomed => row[r][d].snap \notin Served)
  <2>1. {s} \in SUBSET Snaps /\ Erase({s}, {s}) /\ (Doomed => s \notin Served)
    BY <1>13 DEF Reclaim, Doomed
  <2> QED
    BY <1>11, <2>1
<1>14. CASE Erasing
  BY <1>12, <1>13, <1>14 DEF Erasing
<1> QED
  BY <1>2, <1>3, <1>4, <1>5, <1>6, <1>7, <1>8, <1>9, <1>10, <1>14, Writers DEF Erasing

\* A run that waits has no build and no rows, and neither has a document not yet uploaded.
Unbegun ==
  /\ \A r \in Runs : rstat[r] \in {"absent", "queued"} =>
       BuildOf(r) = {} /\ \A d \in Docs : row[r][d].st = "none"
  /\ \A d \in Docs : rev[d] = 0 => \A r \in Runs : row[r][d].st = "none"

\* Builds belong to their knowledge base, and a run that may still write has made the last.
BuiltLast ==
  /\ \A k \in Kbs : \A i \in DOMAIN builds[k] : RunKb[builds[k][i].run] = k
  /\ \A r \in Runs : Live(r) => \A i \in BuildOf(r) : i = Len(builds[RunKb[r]])

\* What a run that may still write has published is in its rows, unless it was deleted since.
Made ==
  \A r \in Runs : Live(r) => \A i \in BuildOf(r) : \A d \in builds[RunKb[r]][i].made :
    /\ KbOf[d] = RunKb[r] /\ rev[d] # 0
    /\ d \notin docs => row[r][d].st = "none"
    /\ d \in docs => /\ row[r][d].st \in {"processing", "committed", "failed"}
                     /\ row[r][d].snap \in Snaps /\ row[r][d].snap = builds[RunKb[r]][i].sel[d]

\* What such a run has committed is in its build, and what it has skipped is served.
Behind ==
  \A r \in Runs : Live(r) => \A d \in Docs :
    /\ row[r][d].st = "committed" => \E i \in BuildOf(r) : d \in builds[RunKb[r]][i].made
    /\ row[r][d].st = "skipped" /\ d \in docs => Serving(d) = row[r][d].snap

\* The executor is at one of the places ps of run r, which has not been deleted.
Working(r, ps) == job.run = r /\ job.pc \in ps /\ rstat[r] = "running"

\* A run taken up again does not reject what it has published: its documents have left the
\* chain, or come back as rows with an identity.
Chained ==
  \A r \in Runs : Working(r, {"pipeline"}) =>
    \A i \in BuildOf(r) : \A d \in builds[RunKb[r]][i].made : row[r][d].st # "failed"

\* What is about to be published agrees with the rows of the documents that are still there.
Preparing ==
  \A r \in Runs : Working(r, {"guard", "publish"}) =>
    /\ job.ready \subseteq job.todo /\ \A d \in job.ready \cup job.skips : rev[d] # 0
    /\ \A d \in job.ready \cap docs : /\ row[r][d].st \in {"processing", "committed"}
                                      /\ row[r][d].snap = job.parsed[d] /\ job.parsed[d] # NoSnap
    /\ \A d \in job.skips \cap docs : row[r][d].st = "skipped" /\ row[r][d].snap = job.parsed[d]

\* What is about to be recorded as committed was published, and what was published is
\* committed or still to be recorded so.
Recording ==
  \A r \in Runs : Working(r, {"record"}) =>
    /\ \A d \in job.ready : \E i \in BuildOf(r) : d \in builds[RunKb[r]][i].made
    /\ \A i \in BuildOf(r) : \A d \in builds[RunKb[r]][i].made :
         /\ row[r][d].st # "none" => d \in job.ready
         /\ row[r][d].st \notin {"none", "committed"} => d \in job.todo

RecordInv ==
  /\ OneBuildEach /\ InKb /\ InTurn /\ Alone /\ Unbegun /\ BuiltLast
  /\ Made /\ Behind /\ Chained /\ Preparing /\ Recording

\* Builds keep their run and what it made; a new one comes last, by a run at its publication.
LEMMA BuildSteps ==
  ASSUME Typed, [Next]_vars, NEW k \in Kbs
  PROVE  \/ /\ ~(Publish /\ builds' # builds /\ k = RunKb[job.run])
            /\ DOMAIN builds'[k] = DOMAIN builds[k] /\ Len(builds'[k]) = Len(builds[k])
            /\ \A i \in DOMAIN builds[k] :
                 builds'[k][i].run = builds[k][i].run /\ builds'[k][i].made = builds[k][i].made
         \/ ~(Publish /\ builds' # builds) /\ Wipes(k) /\ DOMAIN builds'[k] = {}
         \/ /\ Publish /\ builds' # builds /\ k = RunKb[job.run] /\ job.run \in Runs
            /\ Len(builds[k]) \in Nat /\ Len(builds'[k]) = Len(builds[k]) + 1
            /\ DOMAIN builds'[k] = DOMAIN builds[k] \cup {Len(builds[k]) + 1}
            /\ Len(builds[k]) + 1 \notin DOMAIN builds[k]
            /\ \A i \in DOMAIN builds[k] : builds'[k][i] = builds[k][i]
            /\ builds'[k][Len(builds[k]) + 1] = [run |-> job.run, sel |-> NextSel, made |-> job.ready]
<1>1. builds \in [Kbs -> Seq(BuildSet)] /\ Len(builds[k]) \in Nat /\ DOMAIN builds[k] = 1 .. Len(builds[k])
  BY BuildFacts DEF Typed, BuildTypes
<1>2. CASE builds' = builds
  BY <1>2
<1>3. CASE Publish /\ builds' # builds
  <2>1. /\ job.run \in Runs /\ NextSel \in [Docs -> Snaps \cup {NoSnap}]
        /\ builds' = [builds EXCEPT ![RunKb[job.run]] =
                        Append(@, [run |-> job.run, sel |-> NextSel, made |-> job.ready])]
    BY <1>3, Published
  <2>2. PICK b : b = [run |-> job.run, sel |-> NextSel, made |-> job.ready]
    OBVIOUS
  <2>3. builds' = [builds EXCEPT ![RunKb[job.run]] = Append(@, b)]
    BY <2>1, <2>2
  <2>4. CASE k = RunKb[job.run]
    <3>1. builds'[k] = Append(builds[k], b)
      BY <1>1, <2>3, <2>4
    <3>2. b \in BuildSet
      <4>1. job.ready \subseteq Docs
        BY DEF Typed, JobTypes, Jobs
      <4> QED
        BY <2>1, <2>2, <4>1 DEF BuildSet
    <3>3. builds[k] \in Seq(BuildSet)
      BY <1>1
    <3>4. /\ Len(builds'[k]) = Len(builds[k]) + 1 /\ builds'[k][Len(builds[k]) + 1] = b
          /\ \A i \in 1 .. Len(builds[k]) : builds'[k][i] = builds[k][i]
          /\ DOMAIN builds'[k] = 1 .. Len(builds[k]) + 1
      BY <3>1, <3>2, <3>3, AppendProperties
    <3>5. /\ DOMAIN builds'[k] = DOMAIN builds[k] \cup {Len(builds[k]) + 1}
          /\ Len(builds[k]) + 1 \notin DOMAIN builds[k]
      BY <1>1, <3>4
    <3> QED
      BY <1>1, <1>3, <2>1, <2>2, <2>4, <3>4, <3>5
  <2>5. CASE k # RunKb[job.run]
    BY <1>1, <2>3, <2>5
  <2> QED
    BY <2>4, <2>5
<1>4. ASSUME NEW x \in Deletions, PurgeWipe(x)
      PROVE  builds'[k] = builds[k] \/ (Wipes(k) /\ DOMAIN builds'[k] = {})
  <2>1. PICK l \in Kbs : l = DelKb[x] /\ builds' = [builds EXCEPT ![l] = << >>]
    BY <1>4, KbAssumption DEF PurgeWipe
  <2>2. CASE l = k
    <3>1. builds'[k] = << >> /\ Wipes(k)
      BY <1>1, <1>4, <2>1, <2>2 DEF Wipes
    <3> QED
      BY <3>1
  <2>3. CASE l # k
    BY <1>1, <2>1, <2>3
  <2> QED
    BY <2>2, <2>3
<1>5. ASSUME NEW x \in Deletions, PurgeDocs(x)
      PROVE  /\ DOMAIN builds'[k] = DOMAIN builds[k] /\ Len(builds'[k]) = Len(builds[k])
             /\ \A i \in DOMAIN builds[k] :
                  builds'[k][i].run = builds[k][i].run /\ builds'[k][i].made = builds[k][i].made
  BY <1>5, DocsCleared
<1>6. ASSUME NEW s \in Snaps, Reclaim(s)
      PROVE  /\ DOMAIN builds'[k] = DOMAIN builds[k] /\ Len(builds'[k]) = Len(builds[k])
             /\ \A i \in DOMAIN builds[k] :
                  builds'[k][i].run = builds[k][i].run /\ builds'[k][i].made = builds[k][i].made
  BY <1>6, SnapCleared
<1>7. ASSUME NEW x \in Deletions, PurgeWipe(x) PROVE ~(Publish /\ builds' # builds)
  <2>1. job' = job
    BY <1>7 DEF PurgeWipe
  <2>2. job \in Jobs
    BY DEF Typed, JobTypes
  <2>3. Publish /\ builds' # builds => job.pc = "publish" /\ job' = [job EXCEPT !.pc = "record", !.built = TRUE]
    BY Published DEF Publish
  <2>4. [job EXCEPT !.pc = "record", !.built = TRUE].pc = "record"
    BY <2>2 DEF Jobs
  <2> QED
    BY <2>1, <2>3, <2>4
<1> QED
  BY <1>2, <1>3, <1>4, <1>5, <1>6, <1>7, Writers

\* A document that stays is served the same version, unless its knowledge base gets a build
\* or loses all of them, or the version is collected.
LEMMA ServingKept ==
  ASSUME Typed, [Next]_vars, NEW d \in docs, d \in docs'
  PROVE  \/ Serving(d)' = Serving(d)
         \/ Wipes(KbOf[d])
         \/ Reclaim(Serving(d)) /\ Serving(d) \in Snaps
         \/ Publish /\ builds' # builds /\ KbOf[d] = RunKb[job.run]
<1>1. /\ d \in Docs /\ KbOf[d] \in Kbs /\ BuildTypes' /\ builds \in [Kbs -> Seq(BuildSet)]
      /\ NoSnap \notin Snaps
  BY StepTyped, KbAssumption DEF Typed, DocTypes, BuildTypes
<1>2. ASSUME builds'[KbOf[d]] = builds[KbOf[d]] PROVE Serving(d)' = Serving(d)
  BY <1>2 DEF Serving, Selecting
<1>3. CASE builds' = builds
  BY <1>2, <1>3
<1>4. CASE Publish /\ builds' # builds
  <2>1. builds' = [builds EXCEPT ![RunKb[job.run]] =
                        Append(@, [run |-> job.run, sel |-> NextSel, made |-> job.ready])]
    BY <1>4, Published
  <2>2. PICK b : builds' = [builds EXCEPT ![RunKb[job.run]] = Append(@, b)]
    BY <2>1
  <2>3. KbOf[d] # RunKb[job.run] => builds'[KbOf[d]] = builds[KbOf[d]]
    BY <1>1, <2>2
  <2> QED
    BY <1>2, <1>4, <2>3
<1>5. ASSUME NEW x \in Deletions, PurgeWipe(x) PROVE Serving(d)' = Serving(d) \/ Wipes(KbOf[d])
  <2>1. DelKb[x] # KbOf[d] => builds'[KbOf[d]] = builds[KbOf[d]]
    BY <1>1, <1>5 DEF PurgeWipe
  <2> QED
    BY <1>2, <1>5, <2>1 DEF Wipes
<1>6. ASSUME NEW x \in Deletions, PurgeDocs(x) PROVE Serving(d)' = Serving(d)
  <2>1. d \notin purge[x].docs
    BY <1>6 DEF PurgeDocs
  <2>2. /\ DOMAIN builds'[KbOf[d]] = DOMAIN builds[KbOf[d]]
        /\ \A i \in DOMAIN builds[KbOf[d]] : builds'[KbOf[d]][i].sel[d] = builds[KbOf[d]][i].sel[d]
    BY <1>1, <1>6, <2>1, DocsCleared
  <2> QED
    BY <1>1, <2>2, ServingStays
<1>7. ASSUME NEW s \in Snaps, Reclaim(s), Serving(d) # s PROVE Serving(d)' = Serving(d)
  <2>1. /\ DOMAIN builds'[KbOf[d]] = DOMAIN builds[KbOf[d]]
        /\ \A i \in DOMAIN builds[KbOf[d]] : builds'[KbOf[d]][i].sel[d] =
             IF builds[KbOf[d]][i].sel[d] = s THEN NoSnap ELSE builds[KbOf[d]][i].sel[d]
    BY <1>1, <1>7, SnapCleared
  <2> QED
    BY <1>1, <1>7, <2>1, ServingStays
<1> QED
  BY <1>3, <1>4, <1>5, <1>6, <1>7, Writers

\* What a run that may still write has published is served.
LEMMA MadeIsServed ==
  ASSUME Typed, BuiltLast, Made, NEW r \in Runs, Live(r), NEW i \in BuildOf(r),
         NEW d \in builds[RunKb[r]][i].made, d \in docs
  PROVE  /\ Serving(d) = row[r][d].snap /\ row[r][d].snap \in Snaps
         /\ builds[RunKb[r]][i].sel[d] = row[r][d].snap
<1>1. /\ RunKb[r] \in Kbs /\ KbOf[d] = RunKb[r] /\ d \in Docs /\ BuildTypes
      /\ i \in DOMAIN builds[RunKb[r]] /\ builds[RunKb[r]][i].run = r
      /\ row[r][d].snap \in Snaps /\ row[r][d].snap = builds[RunKb[r]][i].sel[d]
  BY KbAssumption DEF Made, BuildOf, Typed, DocTypes
<1>2. i = Len(builds[RunKb[r]])
  BY <1>1 DEF BuiltLast
<1>3. \A j \in DOMAIN builds[RunKb[r]] : j <= i
  BY <1>1, <1>2, BuildFacts
<1>4. i \in Selecting(KbOf[d], d) /\ \A j \in Selecting(KbOf[d], d) : j <= i
  BY <1>1, <1>3, KbAssumption DEF Selecting
<1>5. Selecting(KbOf[d], d) \in SUBSET Nat
  BY <1>1, BuildFacts DEF Selecting
<1>6. Latest(Selecting(KbOf[d], d)) = i
  BY <1>4, <1>5, LatestIs
<1> QED
  BY <1>1, <1>4, <1>6 DEF Serving

\* The builds of a run are those it had, with what they made, and the one it publishes.
LEMMA BuildOfSteps ==
  ASSUME Typed, [Next]_vars, NEW r \in Runs
  PROVE  /\ \A i \in BuildOf(r)' :
              \/ /\ i \in BuildOf(r) /\ builds'[RunKb[r]][i].made = builds[RunKb[r]][i].made
                 /\ ~Wipes(RunKb[r])
              \/ /\ Publish /\ builds' # builds /\ r = job.run
                 /\ builds'[RunKb[r]][i] = [run |-> r, sel |-> NextSel, made |-> job.ready]
                 /\ i = Len(builds'[RunKb[r]])
         /\ ~Wipes(RunKb[r]) =>
              \A i \in BuildOf(r) :
                i \in BuildOf(r)' /\ builds'[RunKb[r]][i].made = builds[RunKb[r]][i].made
         /\ Publish /\ builds' # builds /\ r = job.run =>
              \E i \in BuildOf(r)' : builds'[RunKb[r]][i].made = job.ready
<1>1. RunKb[r] \in Kbs
  BY KbAssumption
<1>2. Wipes(RunKb[r]) => builds'[RunKb[r]] = << >>
  BY <1>1 DEF PurgeWipe, Wipes, Typed, BuildTypes
<1>3. CASE /\ ~(Publish /\ builds' # builds /\ RunKb[r] = RunKb[job.run])
           /\ DOMAIN builds'[RunKb[r]] = DOMAIN builds[RunKb[r]]
           /\ \A i \in DOMAIN builds[RunKb[r]] :
                /\ builds'[RunKb[r]][i].run = builds[RunKb[r]][i].run
                /\ builds'[RunKb[r]][i].made = builds[RunKb[r]][i].made
  <2>1. Wipes(RunKb[r]) => BuildOf(r)' = {}
    BY <1>2 DEF BuildOf
  <2> QED
    BY <1>3, <2>1 DEF BuildOf
<1>4. CASE ~(Publish /\ builds' # builds) /\ Wipes(RunKb[r]) /\ DOMAIN builds'[RunKb[r]] = {}
  <2>1. BuildOf(r)' = {}
    BY <1>4 DEF BuildOf
  <2> QED
    BY <1>4, <2>1
<1>5. CASE /\ Publish /\ builds' # builds /\ RunKb[r] = RunKb[job.run] /\ job.run \in Runs
           /\ Len(builds[RunKb[r]]) \in Nat /\ Len(builds'[RunKb[r]]) = Len(builds[RunKb[r]]) + 1
           /\ DOMAIN builds'[RunKb[r]] = DOMAIN builds[RunKb[r]] \cup {Len(builds[RunKb[r]]) + 1}
           /\ Len(builds[RunKb[r]]) + 1 \notin DOMAIN builds[RunKb[r]]
           /\ \A i \in DOMAIN builds[RunKb[r]] : builds'[RunKb[r]][i] = builds[RunKb[r]][i]
           /\ builds'[RunKb[r]][Len(builds[RunKb[r]]) + 1] =
                [run |-> job.run, sel |-> NextSel, made |-> job.ready]
  <2>1. ~Wipes(RunKb[r])
    BY <1>2, <1>5
  <2> QED
    BY <1>5, <2>1 DEF BuildOf
<1> QED
  BY <1>1, <1>3, <1>4, <1>5, BuildSteps

\* A run that may still write and has a build has not just begun; if it publishes the
\* build now, it is the run of the executor, and its only build.
LEMMA LiveBuilds ==
  ASSUME ~StaleResumes, Typed, RecordInv, [Next]_vars, NEW r \in Runs, Live(r)', NEW i \in BuildOf(r)'
  PROVE  /\ Live(r) /\ ~Wipes(RunKb[r])
         /\ \/ i \in BuildOf(r) /\ builds'[RunKb[r]][i].made = builds[RunKb[r]][i].made
            \/ /\ Publish /\ builds' # builds /\ r = job.run /\ rstat[r] = "running"
               /\ builds'[RunKb[r]][i] = [run |-> r, sel |-> NextSel, made |-> job.ready]
               /\ i = Len(builds'[RunKb[r]])
<1>1. CASE Claim(r) /\ rstat[r] = "queued"
  <2>1. builds' = builds
    BY <1>1 DEF Claim, Start, assetVars
  <2>2. BuildOf(r)' = BuildOf(r)
    BY <2>1 DEF BuildOf
  <2>3. BuildOf(r) = {}
    BY <1>1 DEF RecordInv, Unbegun
  <2> QED
    BY <2>2, <2>3
<1>2. CASE Live(r) /\ ~Wipes(RunKb[r])
  <2>1. r = job.run => rstat[r] = "running"
    BY <1>2, LiveIsSole DEF RecordInv
  <2> QED
    BY <1>2, <2>1, BuildOfSteps
<1> QED
  BY <1>1, <1>2, LiveBefore DEF RecordInv

\* Runs that wait stay without builds and rows.
LEMMA UnbegunStep == ASSUME Typed, RecordInv, [Next]_vars PROVE Unbegun'
<1>1. Typed'
  BY StepTyped
<1>2. ASSUME NEW r \in Runs, rstat'[r] \in {"absent", "queued"} PROVE rstat[r] \in {"absent", "queued"}
  <2>1. rstat \in [Runs -> Statuses]
    BY DEF Typed, RunTypes
  <2> QED
    BY <1>2, <2>1, StatusSteps
<1>3. ASSUME NEW r \in Runs, rstat[r] \in {"absent", "queued"} PROVE r # job.run
  BY <1>3, KbAssumption DEF RecordInv, Alone
<1>4. ASSUME NEW r \in Runs, rstat'[r] \in {"absent", "queued"} PROVE BuildOf(r)' = {}
  <2>1. BuildOf(r) = {} /\ r # job.run
    BY <1>2, <1>3, <1>4 DEF RecordInv, Unbegun
  <2> QED
    BY <2>1, BuildOfSteps
<1>5. ASSUME NEW r \in Runs, NEW d \in Docs, row[r][d].st = "none", r # job.run \/ d \notin docs
      PROVE  row'[r][d].st = "none"
  BY <1>5, RowChanges DEF NoRow
<1>6. ASSUME NEW d \in Docs, rev'[d] = 0 PROVE rev[d] = 0 /\ d \notin docs
  <2>1. rev[d] = 0
    BY <1>6, KeptStep
  <2> QED
    BY <2>1 DEF Typed, DocTypes
<1> QED
  BY <1>2, <1>3, <1>4, <1>5, <1>6 DEF RecordInv, Unbegun

\* Whoever may still write has the last build.
LEMMA BuiltLastStep == ASSUME ~StaleResumes, Typed, RecordInv, [Next]_vars PROVE BuiltLast'
<1>1. ASSUME NEW k \in Kbs, NEW i \in DOMAIN builds'[k] PROVE RunKb[builds'[k][i].run] = k
  <2>1. CASE i \in DOMAIN builds[k] /\ builds'[k][i].run = builds[k][i].run
    BY <2>1 DEF RecordInv, BuiltLast
  <2>2. CASE k = RunKb[job.run] /\ builds'[k][i] = [run |-> job.run, sel |-> NextSel, made |-> job.ready]
    BY <2>2
  <2> QED
    BY <1>1, <2>1, <2>2, BuildSteps
<1>2. ASSUME NEW r \in Runs, Live(r)', NEW i \in BuildOf(r)' PROVE i = Len(builds'[RunKb[r]])
  <2>1. RunKb[r] \in Kbs
    BY KbAssumption
  <2>2. /\ Live(r) /\ ~Wipes(RunKb[r])
        /\ \/ i \in BuildOf(r)
           \/ i = Len(builds'[RunKb[r]])
    BY <1>2, LiveBuilds
  <2>3. CASE i \in BuildOf(r)
    <3>1. i = Len(builds[RunKb[r]])
      BY <2>2, <2>3 DEF RecordInv, BuiltLast
    <3>2. CASE Publish /\ builds' # builds /\ RunKb[r] = RunKb[job.run] /\ job.run \in Runs
      <4>1. r = job.run
        BY <2>2, <3>2, LiveIsSole DEF RecordInv
      <4>2. BuildOf(r) = {}
        BY <3>2, <4>1 DEF RecordInv, OneBuildEach, Publish
      <4> QED
        BY <2>3, <4>2
    <3> QED
      BY <2>1, <2>2, <3>1, <3>2, BuildSteps
  <2> QED
    BY <2>2, <2>3
<1> QED
  BY <1>1, <1>2 DEF BuiltLast

\* A selection that serves a document that stays is not touched.
LEMMA SelectionKept ==
  ASSUME Typed, Doomed, [Next]_vars, NEW d \in docs, d \in docs', ~Wipes(KbOf[d]),
         NEW i \in DOMAIN builds[KbOf[d]], builds[KbOf[d]][i].sel[d] = Serving(d)
  PROVE  builds'[KbOf[d]][i].sel[d] = Serving(d)
<1>1. d \in Docs /\ KbOf[d] \in Kbs /\ builds \in [Kbs -> Seq(BuildSet)] /\ NoSnap \notin Snaps
  BY KbAssumption DEF Typed, DocTypes, BuildTypes
<1>2. CASE builds' = builds
  BY <1>2
<1>3. CASE Publish /\ builds' # builds
  <2>1. CASE KbOf[d] = RunKb[job.run]
    <3>1. builds'[KbOf[d]][i] = builds[KbOf[d]][i]
      BY <1>1, <1>3, <2>1, BuildSteps
    <3> QED
      BY <3>1
  <2>2. CASE KbOf[d] # RunKb[job.run]
    <3>1. PICK b : builds' = [builds EXCEPT ![RunKb[job.run]] = Append(@, b)]
      BY <1>3, Published
    <3> QED
      BY <1>1, <2>2, <3>1
  <2> QED
    BY <2>1, <2>2
<1>4. ASSUME NEW x \in Deletions, PurgeWipe(x) PROVE builds'[KbOf[d]] = builds[KbOf[d]]
  BY <1>1, <1>4 DEF PurgeWipe, Wipes
<1>5. ASSUME NEW x \in Deletions, PurgeDocs(x) PROVE builds'[KbOf[d]][i].sel[d] = Serving(d)
  <2>1. d \notin purge[x].docs
    BY <1>5 DEF PurgeDocs
  <2> QED
    BY <1>1, <1>5, <2>1, DocsCleared
<1>6. ASSUME NEW s \in Snaps, Reclaim(s) PROVE builds'[KbOf[d]][i].sel[d] = Serving(d)
  <2>1. Serving(d) # s
    BY <1>6, DoomedUnserved
  <2> QED
    BY <1>1, <1>6, <2>1, SnapCleared
<1> QED
  BY <1>2, <1>3, <1>4, <1>5, <1>6, Writers

\* A document that a run which may still write has published keeps its row and its
\* selection, or both go with the document.
LEMMA MadeStep == ASSUME ~StaleResumes, Typed, Doomed, RecordInv, [Next]_vars PROVE Made'
<1> SUFFICES ASSUME NEW r \in Runs, Live(r)', NEW i \in BuildOf(r)', NEW d \in builds'[RunKb[r]][i].made
             PROVE  /\ KbOf[d] = RunKb[r] /\ rev'[d] # 0
                    /\ d \notin docs' => row'[r][d].st = "none"
                    /\ d \in docs' => /\ row'[r][d].st \in {"processing", "committed", "failed"}
                                      /\ row'[r][d].snap \in Snaps
                                      /\ row'[r][d].snap = builds'[RunKb[r]][i].sel[d]
  BY DEF Made, Live, Busy, Rivals, BuildOf
<1>1. /\ Live(r) /\ ~Wipes(RunKb[r])
      /\ \/ i \in BuildOf(r) /\ builds'[RunKb[r]][i].made = builds[RunKb[r]][i].made
         \/ /\ Publish /\ builds' # builds /\ r = job.run /\ rstat[r] = "running"
            /\ builds'[RunKb[r]][i] = [run |-> r, sel |-> NextSel, made |-> job.ready]
  BY LiveBuilds
<1>2. r = job.run => rstat[r] = "running"
  BY <1>1, LiveIsSole DEF RecordInv
<1>3. RunKb[r] \in Kbs /\ NoSnap \notin Snaps /\ job \in Jobs
  BY KbAssumption DEF Typed, JobTypes
<1>4. CASE /\ Publish /\ builds' # builds /\ r = job.run /\ rstat[r] = "running"
           /\ builds'[RunKb[r]][i] = [run |-> r, sel |-> NextSel, made |-> job.ready]
  <2>1. d \in job.ready /\ d \in Docs
    BY <1>3, <1>4 DEF Jobs
  <2>2. /\ Valid({job.parsed[e] : e \in job.ready} \cap Snaps) /\ row' = row
        /\ NextSel \in [Docs -> Snaps \cup {NoSnap}]
    BY <1>4, Published
  <2>3. docs' = docs /\ rev' = rev /\ job.pc = "publish"
    BY <1>4 DEF Publish, kbVars
  <2>4. d \in docs
    BY <2>1, <2>2 DEF Valid
  <2>5. /\ row[r][d].st \in {"processing", "committed"}
        /\ row[r][d].snap = job.parsed[d] /\ job.parsed[d] # NoSnap
    BY <1>4, <2>1, <2>3, <2>4 DEF RecordInv, Preparing, Working
  <2>6. NextSel[d] = job.parsed[d]
    BY <2>1 DEF NextSel
  <2>7. KbOf[d] = RunKb[r] /\ rev[d] # 0
    BY <2>1, <2>4, <2>5 DEF RecordInv, InKb, Typed, DocTypes
  <2> QED
    BY <1>4, <2>1, <2>2, <2>3, <2>4, <2>5, <2>6, <2>7
<1>5. CASE i \in BuildOf(r) /\ builds'[RunKb[r]][i].made = builds[RunKb[r]][i].made
  <2>1. i \in DOMAIN builds[RunKb[r]] /\ d \in builds[RunKb[r]][i].made
    BY <1>5 DEF BuildOf
  <2>2. d \in Docs
    BY <1>3, <2>1, BuildFacts DEF Typed, BuildSet
  <2>3. /\ KbOf[d] = RunKb[r] /\ rev[d] # 0
        /\ d \notin docs => row[r][d].st = "none"
        /\ d \in docs => row[r][d].st \in {"processing", "committed", "failed"}
    BY <1>1, <1>5, <2>1 DEF RecordInv, Made
  <2>4. rev'[d] # 0 /\ (d \in docs' => d \in docs)
    BY <2>2, <2>3, KeptStep DEF Kept
  <2>5. CASE d \notin docs
    <3>1. row'[r][d].st = "none"
      BY <2>2, <2>3, <2>5, RowChanges DEF NoRow
    <3> QED
      BY <2>3, <2>4, <2>5, <3>1
  <2>6. CASE d \in docs /\ d \notin docs'
    <3>1. PICK x \in Deletions : PurgeDocs(x) /\ d \in purge[x].docs
      BY <2>2, <2>6, KeptStep
    <3>2. row'[r][d].st = "none"
      BY <2>2, <2>6, <3>1 DEF PurgeDocs, NoRow
    <3> QED
      BY <2>3, <2>4, <2>6, <3>2
  <2>7. CASE d \in docs /\ d \in docs'
    <3>1. /\ Serving(d) = row[r][d].snap /\ row[r][d].snap \in Snaps
          /\ builds[RunKb[r]][i].sel[d] = row[r][d].snap
      BY <1>1, <1>5, <2>1, <2>7, MadeIsServed DEF RecordInv
    <3>2. row[r][d].snap \in Served
      BY <1>3, <2>7, <3>1 DEF Served
    <3>3. builds'[RunKb[r]][i].sel[d] = row[r][d].snap
      BY <1>1, <2>1, <2>3, <2>7, <3>1, SelectionKept
    <3>4. r = job.run /\ job.pc = "pipeline" => Marker(row[r][d]) # NoSnap
      <4>1. r = job.run /\ job.pc = "pipeline" => row[r][d].st # "failed"
        BY <1>2, <1>5, <2>1 DEF RecordInv, Chained, Working
      <4> QED
        BY <1>3, <2>3, <2>7, <3>1, <4>1 DEF Marker
    <3>5. ASSUME Ingest, r = job.run, row'[r][d] = Prepared(r, d)
          PROVE  row'[r][d].st \in {row[r][d].st, "processing"} /\ row'[r][d].snap = row[r][d].snap
      BY <2>3, <2>7, <3>5, PreparedRow
    <3>6. ASSUME NEW x \in Deletions, PurgeDocs(x) PROVE d \notin purge[x].docs
      BY <2>7, <3>6 DEF PurgeDocs
    <3>7. row'[r][d].st \in {"processing", "committed", "failed"} /\ row'[r][d].snap = row[r][d].snap
      BY <1>1, <2>2, <2>3, <2>7, <3>2, <3>4, <3>5, <3>6, RowChanges
    <3> QED
      BY <2>3, <2>4, <2>7, <3>1, <3>3, <3>7
  <2> QED
    BY <2>5, <2>6, <2>7
<1> QED
  BY <1>1, <1>4, <1>5

\* How the job changes.
LEMMA JobSteps ==
  ASSUME Typed, [Next]_vars
  PROVE  \/ job' = job /\ ~Erasing
         \/ job' = IdleJob
         \/ \E r \in Runs : (Claim(r) \/ Resume(r)) /\ job'.pc = "ingest"
         \/ Ingest /\ job'.pc = "pipeline" /\ job'.run = job.run
         \/ job.pc = "pipeline" /\ job'.pc = "pipeline" /\ job'.run = job.run
         \/ Index
         \/ EnterPublishing /\ job.pc = "guard" /\ job' = [job EXCEPT !.pc = "publish"]
         \/ Publish /\ builds' # builds /\ job' = [job EXCEPT !.pc = "record", !.built = TRUE]
         \/ \E d \in Docs : Record(d) /\ job' = [job EXCEPT !.todo = @ \ {d}]
         \/ /\ Erasing
            /\ job'.run = job.run /\ job'.pc = job.pc /\ job'.todo = job.todo
            /\ job'.ready = job.ready /\ job'.skips = job.skips
            /\ \A d \in Docs : /\ job'.parsed[d] \in {job.parsed[d], Gone}
                               /\ \A r \in Runs : row[r][d].snap = job.parsed[d] =>
                                    row'[r][d].snap = job'.parsed[d] /\ row'[r][d].st = row[r][d].st
<1>1. job \in Jobs
  BY DEF Typed, JobTypes
<1>2. ASSUME \E r \in Runs : Claim(r) \/ Resume(r) PROVE job'.pc = "ingest"
  BY <1>2, Empties DEF Claim, Resume, Start, Jobs
<1>3. ASSUME Ingest PROVE job'.pc = "pipeline" /\ job'.run = job.run
  <2>1. PICK S, T : job' = [job EXCEPT !.pc = "pipeline", !.retry = S, !.todo = T]
    BY <1>3, Zenon DEF Ingest
  <2> QED
    BY <1>1, <2>1 DEF Jobs
<1>4. ASSUME NEW d \in Docs, Parse(d) \/ Persist(d) \/ GiveUp(d)
      PROVE  job.pc = "pipeline" /\ job'.pc = "pipeline" /\ job'.run = job.run
  BY <1>1, <1>4 DEF Parse, Persist, GiveUp, Jobs
<1>5. ASSUME EnterPublishing
      PROVE  job' = IdleJob \/ (job.pc = "guard" /\ job' = [job EXCEPT !.pc = "publish"])
  BY <1>5 DEF EnterPublishing
<1>6. CASE Publish /\ builds' # builds
  BY <1>6, Published
<1>7. CASE JobFails \/ (Publish /\ UNCHANGED builds)
  BY <1>7, Failures DEF FailRun
<1>8. CASE Settle \/ Abort \/ Crash
  BY <1>8 DEF Settle, Abort, Crash
<1>9. ASSUME NEW d \in Docs, Record(d) PROVE job' = [job EXCEPT !.todo = @ \ {d}]
  BY <1>9 DEF Record
<1>10. ASSUME NEW S \in SUBSET Snaps, NEW T \in SUBSET Snaps, Erase(S, T)
       PROVE  /\ job'.run = job.run /\ job'.pc = job.pc /\ job'.todo = job.todo
              /\ job'.ready = job.ready /\ job'.skips = job.skips
              /\ \A d \in Docs : /\ job'.parsed[d] \in {job.parsed[d], Gone}
                                 /\ \A r \in Runs : row[r][d].snap = job.parsed[d] =>
                                      row'[r][d].snap = job'.parsed[d] /\ row'[r][d].st = row[r][d].st
  <2>1. PICK f : job' = [job EXCEPT !.parsed = f]
    BY <1>10, Zenon DEF Erase
  <2>2. /\ job'.run = job.run /\ job'.pc = job.pc /\ job'.todo = job.todo
        /\ job'.ready = job.ready /\ job'.skips = job.skips
    BY <1>1, <2>1 DEF Jobs
  <2>3. /\ \A r \in Runs, d \in Docs :
             /\ row'[r][d].snap = IF row[r][d].snap \in T THEN Gone ELSE row[r][d].snap
             /\ row'[r][d].st = row[r][d].st /\ row'[r][d].since = row[r][d].since
        /\ \A d \in Docs : job'.parsed[d] = IF job.parsed[d] \in T THEN Gone ELSE job.parsed[d]
    BY <1>10, Erased, ZenonT(60)
  <2> QED
    BY <2>2, <2>3
<1>11. ASSUME Erasing PROVE \E S, T \in SUBSET Snaps : Erase(S, T)
  <2>1. ASSUME NEW x \in Deletions, PurgeReclaim(x) PROVE \E S, T \in SUBSET Snaps : Erase(S, T)
    BY <2>1, ReclaimErases
  <2>2. ASSUME NEW s \in Snaps, Reclaim(s)
        PROVE  \E S, T \in SUBSET Snaps : Erase(S, T)
    <3>1. {s} \in SUBSET Snaps /\ Erase({s}, {s})
      BY <2>2 DEF Reclaim
    <3> QED
      BY <3>1
  <2> QED
    BY <1>11, <2>1, <2>2 DEF Erasing
<1>12. CASE Erasing
  BY <1>10, <1>11, <1>12
<1>13. CASE ~Erasing
  BY <1>2, <1>3, <1>4, <1>5, <1>6, <1>7, <1>8, <1>9, <1>13, Writers DEF Erasing
<1> QED
  BY <1>12, <1>13

\* A run that the executor is still working on was running before.
LEMMA StillRunning ==
  ASSUME Typed, Alone, [Next]_vars, NEW r \in Runs, r = job.run, rstat'[r] = "running"
  PROVE  rstat[r] = "running" /\ Live(r) /\ Live(r)' /\ ~Wipes(RunKb[r])
<1>1. rstat \in [Runs -> Statuses] /\ job.run # NoRun
  BY KbAssumption DEF Typed, RunTypes
<1>2. rstat[r] = "running"
  BY <1>1, StatusSteps DEF Alone
<1>3. ~Wipes(RunKb[r])
  BY <1>1, <1>2 DEF PurgeWipe, Wipes
<1> QED
  BY <1>2, <1>3 DEF Live, Busy

\* A run taken up again does not reject what it has published.
LEMMA ChainedStep == ASSUME ~StaleResumes, Typed, RecordInv, [Next]_vars PROVE Chained'
<1> SUFFICES ASSUME NEW r \in Runs, job'.run = r, job'.pc = "pipeline", rstat'[r] = "running",
                    NEW i \in BuildOf(r)', NEW d \in builds'[RunKb[r]][i].made
             PROVE  row'[r][d].st # "failed"
  BY DEF Chained, Working
<1>1. job \in Jobs /\ IdleJob.pc = "idle" /\ NoSnap \notin Snaps
  BY KbAssumption DEF Typed, JobTypes, IdleJob
<1>2. job'.run = job.run /\ (Ingest \/ job.pc = "pipeline")
  BY <1>1, JobSteps, Indexed DEF Record, Jobs
<1>3. r = job.run /\ rstat[r] = "running" /\ Live(r) /\ Live(r)'
  BY <1>2, StillRunning DEF RecordInv
<1>4. i \in BuildOf(r) /\ d \in builds[RunKb[r]][i].made
  <2>1. ~(Publish /\ builds' # builds)
    <3>1. Publish /\ builds' # builds => job' = [job EXCEPT !.pc = "record", !.built = TRUE]
      BY Published
    <3> QED
      BY <1>1, <3>1 DEF Jobs
  <2> QED
    BY <1>3, <2>1, LiveBuilds
<1>5. /\ RunKb[r] \in Kbs /\ d \in Docs
  <2>1. RunKb[r] \in Kbs
    BY KbAssumption
  <2> QED
    BY <1>4, <2>1, BuildFacts DEF Typed, BuildSet, BuildOf
<1>6. /\ KbOf[d] = RunKb[r]
      /\ d \notin docs => row[r][d].st = "none"
      /\ d \in docs => row[r][d].st \in {"processing", "committed", "failed"} /\ row[r][d].snap \in Snaps
  BY <1>3, <1>4 DEF RecordInv, Made
<1>7. CASE Ingest
  <2>1. row'[r][d] = IF d \in DocsOf(RunKb[r]) THEN Prepared(r, d) ELSE row[r][d]
    BY <1>3, <1>5, <1>7, IngestedRows
  <2>2. CASE d \in docs
    <3>1. row[r][d] \in Rows /\ row[r][d].st # "none"
      BY <1>5, <1>6, <2>2 DEF Typed, RunTypes
    <3>2. Prepared(r, d).st # "failed"
      BY <1>6, <2>2, <3>1 DEF Prepared, Rows
    <3> QED
      BY <1>6, <2>1, <2>2, <3>2 DEF DocsOf
  <2>3. CASE d \notin docs
    BY <1>6, <2>1, <2>3 DEF DocsOf
  <2> QED
    BY <2>2, <2>3
<1>8. CASE job.pc = "pipeline"
  <2>1. row[r][d].st # "failed"
    BY <1>3, <1>4, <1>8 DEF RecordInv, Chained, Working
  <2>2. row[r][d].st # "none" => Marker(row[r][d]) # NoSnap
    BY <1>1, <1>6, <2>1 DEF Marker
  <2>3. job' # IdleJob
    BY <1>1
  <2>4. ~Ingest
    BY <1>8 DEF Ingest
  <2> QED
    BY <1>5, <1>8, <2>1, <2>2, <2>3, <2>4, RowChanges DEF NoRow
<1> QED
  BY <1>2, <1>7, <1>8

\* A build that carries the version of a document on does not change what serves it.
LEMMA CarriedIsServed ==
  ASSUME Typed, [Next]_vars, Publish, builds' # builds, NEW d \in Docs,
         KbOf[d] = RunKb[job.run], NextSel[d] = Serving(d)
  PROVE  Serving(d)' = Serving(d)
<1>1. /\ KbOf[d] \in Kbs /\ BuildTypes /\ BuildTypes' /\ NoSnap \notin Snaps
  BY StepTyped, KbAssumption DEF Typed
<1> DEFINE k == KbOf[d]
           n == Len(builds[k]) + 1
<1>2. /\ Len(builds[k]) \in Nat /\ DOMAIN builds[k] = 1 .. Len(builds[k])
      /\ DOMAIN builds'[k] = DOMAIN builds[k] \cup {n}
      /\ \A i \in DOMAIN builds[k] : builds'[k][i] = builds[k][i]
      /\ builds'[k][n].sel[d] = Serving(d)
  BY <1>1, BuildFacts, BuildSteps
<1>3. CASE Serving(d) # NoSnap
  <2>1. \A j \in DOMAIN builds'[k] : j <= n
    BY <1>2
  <2> QED
    BY <1>1, <1>2, <1>3, <2>1, NextServing
<1>4. CASE Serving(d) = NoSnap
  <2>1. \A i \in DOMAIN builds[k] : builds[k][i].sel[d] = NoSnap
    BY <1>1, <1>4, ServingSelected
  <2>2. \A i \in DOMAIN builds'[k] : builds'[k][i].sel[d] = NoSnap
    BY <1>2, <1>4, <2>1
  <2> QED
    BY <1>1, <1>4, <2>2, NextServing
<1> QED
  BY <1>3, <1>4

\* A job that publishes carries on what serves the documents it has not mined: what it
\* skipped is what serves.
LEMMA SkippedIsCarried ==
  ASSUME Typed, RecordInv, [Next]_vars, Publish, builds' # builds, rstat[job.run] = "running",
         NEW d \in docs, KbOf[d] = RunKb[job.run], d \notin job.ready
  PROVE  NextSel[d] = Serving(d)
<1>1. job.run \in Runs /\ d \in Docs /\ job.pc = "publish"
  BY Published DEF Typed, DocTypes, Publish
<1>2. CASE d \in job.skips
  <2>1. row[job.run][d].st = "skipped" /\ row[job.run][d].snap = job.parsed[d]
    BY <1>1, <1>2 DEF RecordInv, Preparing, Working
  <2>2. Live(job.run)
    BY DEF Live, Busy
  <2>3. Serving(d) = row[job.run][d].snap
    BY <1>1, <2>1, <2>2 DEF RecordInv, Behind
  <2> QED
    BY <1>1, <1>2, <2>1, <2>3 DEF NextSel
<1>3. CASE d \notin job.skips
  BY <1>1, <1>3 DEF NextSel
<1> QED
  BY <1>2, <1>3

\* What a run that may still write has committed or skipped stays so.
LEMMA BehindStep == ASSUME ~StaleResumes, Typed, Doomed, RecordInv, [Next]_vars PROVE Behind'
<1> SUFFICES ASSUME NEW r \in Runs, Live(r)', NEW d \in Docs
             PROVE  /\ row'[r][d].st = "committed" =>
                         \E i \in BuildOf(r)' : d \in builds'[RunKb[r]][i].made
                    /\ row'[r][d].st = "skipped" /\ d \in docs' => Serving(d)' = row'[r][d].snap
  BY DEF Behind, Live, Busy, Rivals, BuildOf
<1>1. CASE Claim(r) /\ rstat[r] = "queued"
  <2>1. row' = row
    BY <1>1 DEF Claim, Start
  <2>2. row[r][d].st = "none"
    BY <1>1 DEF RecordInv, Unbegun
  <2> QED
    BY <2>1, <2>2
<1>2. CASE Live(r) /\ ~Wipes(RunKb[r])
  <2>1. r = job.run => rstat[r] = "running"
    BY <1>2, LiveIsSole DEF RecordInv
  <2>2. /\ row[r][d].st = "committed" => \E i \in BuildOf(r) : d \in builds[RunKb[r]][i].made
        /\ row[r][d].st = "skipped" /\ d \in docs => Serving(d) = row[r][d].snap
        /\ row[r][d].st # "none" => KbOf[d] = RunKb[r]
        /\ row[r][d].st = "skipped" => row[r][d].snap # NoSnap
        /\ rev[d] = 0 => row[r][d].st = "none"
    BY <1>2 DEF RecordInv, Behind, InKb, Unbegun
  <2>3. ASSUME Ingest, d \in docs, KbOf[d] = RunKb[r], row'[r][d] = Prepared(r, d)
        PROVE  /\ row'[r][d].st = "committed" => row[r][d].st = "committed"
               /\ row'[r][d].st = "skipped" => row'[r][d].snap = Serving(d)
    BY <2>2, <2>3, PreparedRow
  <2>4. ASSUME row'[r][d].st = "committed"
        PROVE  \E i \in BuildOf(r)' : d \in builds'[RunKb[r]][i].made
    <3>1. \E i \in BuildOf(r) : d \in builds[RunKb[r]][i].made
      <4>1. CASE row[r][d].st = "committed"
        BY <2>2, <4>1
      <4>2. CASE row[r][d].st # "committed"
        <5>1. Record(d) /\ r = job.run /\ job.pc = "record" /\ d \in job.ready
          BY <2>3, <2>4, <4>2, RowChanges DEF NoRow
        <5> QED
          BY <2>1, <5>1 DEF RecordInv, Recording, Working
      <4> QED
        BY <4>1, <4>2
    <3> QED
      BY <1>2, <3>1, BuildOfSteps
  <2>5. ASSUME row'[r][d].st = "skipped", d \in docs' PROVE Serving(d)' = row'[r][d].snap
    <3>1. d \in docs
      <4>1. d \in docs \/ rev[d] = 0
        BY <2>5, KeptStep DEF Kept
      <4>2. d \notin docs => row[r][d].st = "none"
        BY <2>2, <4>1
      <4> QED
        BY <2>5, <4>2, RowChanges DEF NoRow
    <3>2. row[r][d].st = "skipped" => row[r][d].snap \notin Snaps \ Served
      <4>1. ASSUME row[r][d].st = "skipped", row[r][d].snap \in Snaps PROVE row[r][d].snap \in Served
        <5>1. Serving(d) = row[r][d].snap /\ row[r][d].snap # NoSnap
          BY <2>2, <3>1, <4>1
        <5> QED
          BY <3>1, <5>1 DEF Served
      <4> QED
        BY <4>1
    <3>3. row[r][d].st = "skipped" => Marker(row[r][d]) # NoSnap
      BY <2>2 DEF Marker
    <3>4. row'[r][d].snap = Serving(d) /\ KbOf[d] = RunKb[r]
      BY <2>2, <2>3, <2>5, <3>1, <3>2, <3>3, RowChanges DEF NoRow
    <3>5. CASE Publish /\ builds' # builds /\ KbOf[d] = RunKb[job.run]
      <4>1. job.run \in Runs /\ job.pc = "publish" /\ row' = row
        BY <3>5, Published DEF Publish
      <4>2. r = job.run /\ rstat[r] = "running"
        BY <1>2, <3>4, <3>5, <4>1, LiveIsSole DEF RecordInv
      <4>3. d \notin job.ready
        BY <2>5, <3>1, <4>1, <4>2 DEF RecordInv, Preparing, Working
      <4>4. NextSel[d] = Serving(d)
        BY <3>1, <3>5, <4>2, <4>3, SkippedIsCarried
      <4> QED
        BY <3>4, <3>5, <4>4, CarriedIsServed
    <3> QED
      BY <1>2, <2>5, <3>1, <3>4, <3>5, ServingKept, DoomedUnserved
  <2> QED
    BY <2>4, <2>5
<1> QED
  BY <1>1, <1>2, LiveBefore DEF RecordInv

\* What Index takes up: all rows but the skipped ones, and of these the ones that the build of
\* the run has made.
LEMMA IndexedRows ==
  ASSUME Typed, Index
  PROVE  /\ job.run \in Runs /\ job.pc = "pipeline" /\ job'.run = job.run
         /\ job'.todo = {d \in Docs : row[job.run][d].st \notin {"none", "skipped"}}
         /\ job'.ready \subseteq job'.todo
         /\ \A d \in job'.ready : job'.pc = "record" =>
              \E i \in BuildOf(job.run) : d \in builds[RunKb[job.run]][i].made
         /\ \A i \in BuildOf(job.run) : \A d \in builds[RunKb[job.run]][i].made \cap Docs :
              /\ row[job.run][d].st \in {"committed", "processing"} /\ row[job.run][d].snap # NoSnap
              /\ builds[RunKb[job.run]][i].sel[d] = row[job.run][d].snap
              => d \in job'.ready
         /\ UNCHANGED <<docs, rev, builds, rstat, row>>
<1>1. /\ job.run \in Runs /\ job.pc = "pipeline" /\ IdleJob \in Jobs
  BY AtWork, Empties DEF Index
<1>2. UNCHANGED <<docs, rev, builds, rstat, row>>
  BY DEF Index, kbVars, assetVars, runVars
<1> DEFINE r == job.run
           x == row[r]
           done == BuildOf(r)
           rows == {d \in Docs : x[d].st # "none"}
           skips == {d \in rows : x[d].st = "skipped"}
           cand == {d \in rows : x[d].st \in {"committed", "processing"} /\ x[d].snap # NoSnap}
           ready == {d \in cand :
                     IF done # {}
                     THEN \E i \in done : d \in builds[RunKb[r]][i].made
                                          /\ builds[RunKb[r]][i].sel[d] = x[d].snap
                     ELSE x[d].snap \in Snaps /\ staging[x[d].snap] = "ready"}
<1>3. PICK f, b, c : job' = [IdleJob EXCEPT !.run = r, !.ready = ready, !.skips = skips, !.parsed = f,
                  !.todo = rows \ skips, !.built = b, !.bad = c,
                  !.pc = IF done = {} /\ ready # {} THEN "guard" ELSE "record"]
  BY Zenon DEF Index
<1>4. /\ job'.run = r /\ job'.ready = ready /\ job'.todo = rows \ skips
      /\ job'.pc = IF done = {} /\ ready # {} THEN "guard" ELSE "record"
  <2> HIDE DEF ready, rows, skips, done, r
  <2> QED
    BY <1>1, <1>3 DEF Jobs
<1>5. rows \ skips = {d \in Docs : row[job.run][d].st \notin {"none", "skipped"}}
  OBVIOUS
<1>6. ready \subseteq rows \ skips
  OBVIOUS
<1>7. \A d \in ready : done # {} => \E i \in done : d \in builds[RunKb[r]][i].made
  OBVIOUS
<1>8. \A i \in done : \A d \in builds[RunKb[r]][i].made \cap Docs :
              /\ row[r][d].st \in {"committed", "processing"} /\ row[r][d].snap # NoSnap
              /\ builds[RunKb[r]][i].sel[d] = row[r][d].snap
              => d \in ready
  <2> SUFFICES ASSUME NEW i \in done, NEW d \in builds[RunKb[r]][i].made \cap Docs,
                      row[r][d].st \in {"committed", "processing"}, row[r][d].snap # NoSnap,
                      builds[RunKb[r]][i].sel[d] = row[r][d].snap
               PROVE  d \in ready
    OBVIOUS
  <2>1. done # {} /\ d \in cand
    OBVIOUS
  <2>2. \E j \in done : d \in builds[RunKb[r]][j].made /\ builds[RunKb[r]][j].sel[d] = x[d].snap
    OBVIOUS
  <2> HIDE DEF cand, done
  <2> QED
    BY <2>1, <2>2
<1>9. \A d \in ready : job'.pc = "record" => done # {}
  <2> HIDE DEF ready, done
  <2> QED
    BY <1>4
<1> HIDE DEF ready, done
<1> QED
  BY <1>1, <1>2, <1>4, <1>5, <1>6, <1>7, <1>8, <1>9 DEF done

\* What is about to be published goes on to agree with the rows.
LEMMA PreparingStep == ASSUME Typed, RecordInv, [Next]_vars PROVE Preparing'
<1> SUFFICES ASSUME NEW r \in Runs, job'.run = r, job'.pc \in {"guard", "publish"}, rstat'[r] = "running"
             PROVE  /\ job'.ready \subseteq job'.todo /\ \A d \in job'.ready \cup job'.skips : rev'[d] # 0
                    /\ \A d \in job'.ready \cap docs' :
                         /\ row'[r][d].st \in {"processing", "committed"}
                         /\ row'[r][d].snap = job'.parsed[d] /\ job'.parsed[d] # NoSnap
                    /\ \A d \in job'.skips \cap docs' :
                         row'[r][d].st = "skipped" /\ row'[r][d].snap = job'.parsed[d]
  BY DEF Preparing, Working
<1>1. /\ job \in Jobs /\ job' \in Jobs /\ docs' \subseteq Docs /\ IdleJob.pc = "idle"
      /\ NoSnap # Gone
  BY StepTyped, KbAssumption DEF Typed, JobTypes, DocTypes, IdleJob
<1>2. job.run = r
  BY JobMoves
<1>3. rstat[r] = "running" /\ ~Wipes(RunKb[r])
  BY <1>2, StillRunning DEF RecordInv
<1>4. CASE Index
  <2>1. /\ job'.ready \subseteq job'.todo /\ UNCHANGED <<docs, rev, builds, rstat, row>>
    BY <1>4, IndexedRows
  <2>2. /\ \A d \in job'.ready : /\ row[r][d].st \in {"committed", "processing"}
                                 /\ row[r][d].snap # NoSnap /\ job'.parsed[d] = row[r][d].snap
        /\ \A d \in job'.skips : row[r][d].st = "skipped" /\ job'.parsed[d] = row[r][d].snap
    BY <1>2, <1>4, Indexed
  <2>3. \A d \in job'.ready \cup job'.skips : d \in Docs /\ row[r][d].st # "none"
    BY <1>1, <2>2 DEF Jobs
  <2>4. \A d \in job'.ready \cup job'.skips : rev[d] # 0
    BY <2>3 DEF RecordInv, Unbegun
  <2> QED
    BY <2>1, <2>2, <2>4
<1>5. ASSUME job.pc \in {"guard", "publish"}, job'.todo = job.todo, job'.ready = job.ready,
             job'.skips = job.skips, \A d \in Docs : job'.parsed[d] \in {job.parsed[d], Gone},
             \A d \in Docs : d \in docs /\ d \in docs' /\ row[r][d].snap = job.parsed[d] =>
                               row'[r][d].snap = job'.parsed[d] /\ row'[r][d].st = row[r][d].st
      PROVE  /\ job'.ready \subseteq job'.todo /\ \A d \in job'.ready \cup job'.skips : rev'[d] # 0
             /\ \A d \in job'.ready \cap docs' :
                  /\ row'[r][d].st \in {"processing", "committed"}
                  /\ row'[r][d].snap = job'.parsed[d] /\ job'.parsed[d] # NoSnap
             /\ \A d \in job'.skips \cap docs' :
                  row'[r][d].st = "skipped" /\ row'[r][d].snap = job'.parsed[d]
  <2>1. /\ job.ready \subseteq job.todo /\ \A d \in job.ready \cup job.skips : rev[d] # 0
        /\ \A d \in job.ready \cap docs : /\ row[r][d].st \in {"processing", "committed"}
                                          /\ row[r][d].snap = job.parsed[d] /\ job.parsed[d] # NoSnap
        /\ \A d \in job.skips \cap docs : row[r][d].st = "skipped" /\ row[r][d].snap = job.parsed[d]
    BY <1>2, <1>3, <1>5 DEF RecordInv, Preparing, Working
  <2>2. \A d \in job.ready \cup job.skips : d \in Docs /\ rev'[d] # 0 /\ (d \in docs' => d \in docs)
    <3> SUFFICES ASSUME NEW d \in job.ready \cup job.skips
                 PROVE  d \in Docs /\ rev'[d] # 0 /\ (d \in docs' => d \in docs)
      OBVIOUS
    <3>1. d \in Docs /\ rev[d] # 0
      BY <1>1, <2>1 DEF Jobs
    <3> QED
      BY <3>1, KeptStep DEF Kept
  <2> QED
    BY <1>1, <1>5, <2>1, <2>2
<1>6. CASE /\ Erasing
           /\ job'.run = job.run /\ job'.pc = job.pc /\ job'.todo = job.todo
           /\ job'.ready = job.ready /\ job'.skips = job.skips
           /\ \A d \in Docs : /\ job'.parsed[d] \in {job.parsed[d], Gone}
                              /\ \A q \in Runs : row[q][d].snap = job.parsed[d] =>
                                   row'[q][d].snap = job'.parsed[d] /\ row'[q][d].st = row[q][d].st
  BY <1>5, <1>6
<1>7. CASE job' = job /\ ~Erasing
  <2>1. ASSUME NEW d \in docs, d \in docs' PROVE row'[r][d] = row[r][d]
    <3>1. d \in Docs /\ ~Ingest /\ ~\E x \in Deletions : PurgeDocs(x) /\ d \in purge[x].docs \cap docs
      BY <1>1, <1>7, <2>1 DEF Ingest, PurgeDocs
    <3>2. job' # IdleJob
      BY <1>1
    <3> QED
      BY <1>3, <1>7, <3>1, <3>2, RowChanges
  <2> QED
    BY <1>5, <1>7, <2>1
<1>8. CASE EnterPublishing /\ job.pc = "guard" /\ job' = [job EXCEPT !.pc = "publish"]
  <2>1. /\ job'.todo = job.todo /\ job'.ready = job.ready
        /\ job'.skips = job.skips /\ job'.parsed = job.parsed
    BY <1>1, <1>8 DEF Jobs
  <2>2. row' = row
    BY <1>8 DEF EnterPublishing, runVars
  <2> QED
    BY <1>5, <1>8, <2>1, <2>2
<1>9. ~\E d \in Docs : Record(d) /\ job' = [job EXCEPT !.todo = @ \ {d}]
  BY <1>1 DEF Record, Jobs
<1>10. job' # [job EXCEPT !.pc = "record", !.built = TRUE]
  BY <1>1 DEF Jobs
<1> QED
  BY <1>1, <1>4, <1>6, <1>7, <1>8, <1>9, <1>10, JobSteps

\* What is recorded goes on to agree with the build.
LEMMA RecordingStep == ASSUME ~StaleResumes, Typed, RecordInv, [Next]_vars PROVE Recording'
<1> SUFFICES ASSUME NEW r \in Runs, job'.run = r, job'.pc = "record", rstat'[r] = "running"
             PROVE  /\ \A d \in job'.ready : \E i \in BuildOf(r)' : d \in builds'[RunKb[r]][i].made
                    /\ \A i \in BuildOf(r)' : \A d \in builds'[RunKb[r]][i].made :
                         /\ row'[r][d].st # "none" => d \in job'.ready
                         /\ row'[r][d].st \notin {"none", "committed"} => d \in job'.todo
  BY DEF Recording, Working, BuildOf
<1>1. job \in Jobs /\ IdleJob.pc = "idle" /\ RunKb[r] \in Kbs
  BY KbAssumption DEF Typed, JobTypes, IdleJob
<1>2. job'.run = job.run
  BY <1>1, JobSteps, Indexed DEF Jobs
<1>3. r = job.run /\ rstat[r] = "running" /\ Live(r) /\ Live(r)' /\ ~Wipes(RunKb[r])
  BY <1>2, StillRunning DEF RecordInv
<1>4. \A i \in BuildOf(r) : \A d \in builds[RunKb[r]][i].made : d \in Docs
  BY <1>1, BuildFacts DEF Typed, BuildSet, BuildOf
<1>5. CASE Index
  <2>1. /\ job'.ready \subseteq job'.todo /\ UNCHANGED <<docs, builds, row>>
        /\ \A d \in job'.ready : \E i \in BuildOf(r) : d \in builds[RunKb[r]][i].made
    BY <1>3, <1>5, IndexedRows
  <2>2. BuildOf(r)' = BuildOf(r)
    BY <2>1 DEF BuildOf
  <2>3. ASSUME NEW i \in BuildOf(r), NEW d \in builds[RunKb[r]][i].made, row[r][d].st # "none"
        PROVE  d \in job'.ready
    <3>1. /\ row[r][d].st \in {"processing", "committed", "failed"}
          /\ row[r][d].snap \in Snaps /\ row[r][d].snap = builds[RunKb[r]][i].sel[d]
      BY <1>3, <2>3 DEF RecordInv, Made
    <3>2. row[r][d].st # "failed"
      BY <1>3, <1>5, <2>3 DEF RecordInv, Chained, Working, Index
    <3> QED
      BY <1>3, <1>4, <1>5, <2>3, <3>1, <3>2, IndexedRows, KbAssumption
  <2> QED
    BY <2>1, <2>2, <2>3
<1>6. CASE Publish /\ builds' # builds /\ job' = [job EXCEPT !.pc = "record", !.built = TRUE]
  <2>1. job'.ready = job.ready /\ job'.todo = job.todo /\ job.pc = "publish"
    BY <1>1, <1>6 DEF Jobs, Publish
  <2>2. job.ready \subseteq job.todo /\ BuildOf(r) = {}
    BY <1>3, <2>1 DEF RecordInv, Preparing, Working, OneBuildEach
  <2>3. ASSUME NEW i \in BuildOf(r)' PROVE builds'[RunKb[r]][i].made = job.ready
    <3>1. builds'[RunKb[r]][i] = [run |-> r, sel |-> NextSel, made |-> job.ready]
      BY <2>2, BuildOfSteps
    <3> QED
      BY <3>1
  <2>4. \E i \in BuildOf(r)' : builds'[RunKb[r]][i].made = job.ready
    BY <1>3, <1>6, BuildOfSteps
  <2> QED
    BY <2>1, <2>2, <2>3, <2>4
<1>7. ASSUME job.pc = "record", job'.ready = job.ready, NEW S, job'.todo = job.todo \ S,
             \A d \in S : d \in Docs /\ Record(d)
      PROVE  /\ \A d \in job'.ready : \E i \in BuildOf(r)' : d \in builds'[RunKb[r]][i].made
             /\ \A i \in BuildOf(r)' : \A d \in builds'[RunKb[r]][i].made :
                  /\ row'[r][d].st # "none" => d \in job'.ready
                  /\ row'[r][d].st \notin {"none", "committed"} => d \in job'.todo
  <2>1. ~Publish
    BY <1>7 DEF Publish
  <2>2. \A i \in BuildOf(r)' : i \in BuildOf(r) /\ builds'[RunKb[r]][i].made = builds[RunKb[r]][i].made
    BY <2>1, BuildOfSteps
  <2>3. \A i \in BuildOf(r) : i \in BuildOf(r)' /\ builds'[RunKb[r]][i].made = builds[RunKb[r]][i].made
    BY <1>3, BuildOfSteps
  <2>4. /\ \A d \in job.ready : \E i \in BuildOf(r) : d \in builds[RunKb[r]][i].made
        /\ \A i \in BuildOf(r) : \A d \in builds[RunKb[r]][i].made :
             /\ row[r][d].st # "none" => d \in job.ready
             /\ row[r][d].st \notin {"none", "committed"} => d \in job.todo
    BY <1>3, <1>7 DEF RecordInv, Recording, Working
  <2>5. ASSUME NEW d \in Docs
        PROVE  \/ row'[r][d].st \in {row[r][d].st, "none"}
               \/ row[r][d].st # "none" /\ row'[r][d].st = IF d \in job.ready THEN "committed" ELSE "failed"
    <3>1. ~Ingest /\ job' # IdleJob
      BY <1>1, <1>7 DEF Ingest
    <3> QED
      BY <1>7, <3>1, RowChanges DEF NoRow
  <2>6. ASSUME NEW d \in S PROVE row'[r][d].st \in {"none", "committed", "failed"}
    <3>1. row' = [row EXCEPT ![r][d].st =
                    IF @ = "none" THEN @ ELSE IF d \in job.ready THEN "committed" ELSE "failed"]
      BY <1>3, <1>7, <2>6 DEF Record
    <3>2. row[r][d] \in Rows /\ row \in [Runs -> [Docs -> Rows]] /\ d \in Docs
      BY <1>7, <2>6 DEF Typed, RunTypes
    <3> QED
      BY <3>1, <3>2 DEF Rows
  <2>7. ASSUME NEW d \in S, d \in job.ready PROVE row'[r][d].st \in {"none", "committed"}
    <3>1. row' = [row EXCEPT ![r][d].st =
                    IF @ = "none" THEN @ ELSE IF d \in job.ready THEN "committed" ELSE "failed"]
      BY <1>3, <1>7, <2>7 DEF Record
    <3>2. row[r][d] \in Rows /\ row \in [Runs -> [Docs -> Rows]] /\ d \in Docs
      BY <1>7, <2>7 DEF Typed, RunTypes
    <3> QED
      BY <2>7, <3>1, <3>2 DEF Rows
  <2>8. ASSUME NEW i \in BuildOf(r), NEW d \in builds[RunKb[r]][i].made, row'[r][d].st # "none"
        PROVE  d \in job.ready /\ (row'[r][d].st # "committed" => d \in job.todo \ S)
    <3>1. d \in Docs /\ row[r][d].st # "none"
      BY <1>4, <2>5, <2>8
    <3>2. d \in job.ready
      BY <2>4, <2>8, <3>1
    <3> QED
      BY <2>4, <2>5, <2>7, <2>8, <3>1, <3>2
  <2> QED
    BY <1>7, <2>2, <2>3, <2>4, <2>8
<1>8. CASE job' = job \/ (/\ job'.pc = job.pc /\ job'.todo = job.todo /\ job'.ready = job.ready)
  <2>1. PICK S : S = {}
    OBVIOUS
  <2>2. /\ job.pc = "record" /\ job'.ready = job.ready /\ job'.todo = job.todo \ S
        /\ \A d \in S : d \in Docs /\ Record(d)
    BY <1>8, <2>1
  <2> QED
    BY <1>7, <2>2
<1>9. ASSUME NEW e \in Docs, Record(e), job' = [job EXCEPT !.todo = @ \ {e}]
      PROVE  /\ \A d \in job'.ready : \E i \in BuildOf(r)' : d \in builds'[RunKb[r]][i].made
             /\ \A i \in BuildOf(r)' : \A d \in builds'[RunKb[r]][i].made :
                  /\ row'[r][d].st # "none" => d \in job'.ready
                  /\ row'[r][d].st \notin {"none", "committed"} => d \in job'.todo
  <2>1. job.pc = "record" /\ job'.ready = job.ready /\ job'.todo = job.todo \ {e}
    BY <1>1, <1>9 DEF Record, Jobs
  <2> QED
    BY <1>7, <1>9, <2>1
<1> QED
  <2>1. job' # [job EXCEPT !.pc = "publish"] /\ job' # IdleJob
    BY <1>1 DEF Jobs
  <2> QED
    BY <2>1, <1>5, <1>6, <1>8, <1>9, JobSteps

\* What runs record of their builds, in every state.
LEMMA RecordInvAlways ==
  ASSUME ~StaleResumes, ~PurgeInterleaves PROVE Spec => [](Typed /\ RecordInv)
<1>1. Init => Typed /\ RecordInv
  <2> SUFFICES ASSUME Init PROVE RecordInv
    BY InitTyped
  <2>1. /\ \A k \in Kbs : builds[k] = << >> /\ DOMAIN builds[k] = {}
        /\ \A r \in Runs : BuildOf(r) = {} /\ RunKb[r] \in Kbs
    BY KbAssumption DEF Init, BuildOf
  <2>2. \A r \in Runs : rstat[r] = "absent" /\ ~Live(r)
    BY DEF Init, Live, Busy
  <2>3. \A r \in Runs, d \in Docs : row[r][d].st = "none"
    BY DEF Init, NoRow
  <2>4. job.run = NoRun /\ job.pc = "idle"
    BY DEF Init, IdleJob
  <2>5. OneBuildEach
    BY <2>1, <2>3, <2>4, FS_CardinalityType, KbAssumption DEF Init, OneBuildEach, IdleJob, NoRow, BuildOf
  <2> QED
    BY <2>1, <2>2, <2>3, <2>4, <2>5 DEF RecordInv, InKb, InTurn, Alone, Unbegun, BuiltLast, Made,
       Behind, Chained, Preparing, Recording, Working, Rivals
<1>2. Typed /\ Doomed /\ RecordInv /\ [Next]_vars => (Typed /\ RecordInv)'
  BY StepTyped, OneBuildStep, InKbStep, InTurnStep, AloneStep, UnbegunStep, BuiltLastStep, MadeStep,
     BehindStep, ChainedStep, PreparingStep, RecordingStep DEF RecordInv
<1> QED
  BY <1>1, <1>2, DoomedAlways, PTL DEF Spec

\* Only its last step completes a run.
LEMMA CompletesBySettle ==
  ASSUME Typed, [Next]_vars, NEW r \in Runs, rstat'[r] = "completed", rstat[r] # "completed"
  PROVE  Settle /\ r = job.run /\ rstat[r] = "running"
<1>1. rstat \in [Runs -> Statuses]
  BY DEF Typed, RunTypes
<1>2. ASSUME NEW q \in Runs, Enqueue(q) \/ Claim(q) \/ Resume(q) PROVE FALSE
  BY <1>1, <1>2 DEF Enqueue, Claim, Resume, Start
<1>3. CASE JobFails \/ (Publish /\ UNCHANGED builds)
  <2>1. job.run \in Runs /\ rstat' = [rstat EXCEPT ![job.run] =
                                        IF rstat[job.run] = "running" THEN "failed" ELSE rstat[job.run]]
    BY <1>3, Failures, FailedRows
  <2> QED
    BY <1>1, <2>1
<1>4. CASE Publish /\ builds' # builds
  BY <1>4, Published
<1>5. CASE Settle
  BY <1>1, <1>5 DEF Settle
<1>6. CASE Crash
  BY <1>6 DEF Crash
<1>7. ASSUME NEW x \in Deletions, PurgeWipe(x) PROVE FALSE
  BY <1>7 DEF PurgeWipe
<1> QED
  BY <1>2, <1>3, <1>4, <1>5, <1>6, <1>7, Writers

\* A run completes when its rows tell what it has published, and they stay.
LEMMA RecordedStep == ASSUME Typed, RecordInv, BuildIsRecorded, [Next]_vars PROVE BuildIsRecorded'
<1> SUFFICES ASSUME NEW r \in Runs, rstat'[r] = "completed", NEW i \in BuildOf(r)',
                    NEW d \in builds'[RunKb[r]][i].made
             PROVE  row'[r][d].st \in {"none", "committed"}
  BY DEF BuildIsRecorded, BuildOf
<1>1. RunKb[r] \in Kbs
  BY KbAssumption
<1>2. CASE rstat[r] = "completed"
  <2>1. r # job.run
    BY <1>2, KbAssumption DEF RecordInv, Alone
  <2>2. i \in BuildOf(r) /\ d \in builds[RunKb[r]][i].made
    BY <2>1, BuildOfSteps
  <2>3. d \in Docs /\ row[r][d].st \in {"none", "committed"}
    BY <1>1, <1>2, <2>2, BuildFacts DEF BuildIsRecorded, BuildOf, Typed, BuildSet
  <2> QED
    BY <2>1, <2>3, RowChanges DEF NoRow
<1>3. CASE rstat[r] # "completed"
  <2>1. Settle /\ r = job.run /\ rstat[r] = "running"
    BY <1>3, CompletesBySettle
  <2>2. job.pc = "record" /\ job.todo = {} /\ builds' = builds /\ row' = row
    BY <2>1 DEF Settle, assetVars
  <2>3. BuildOf(r)' = BuildOf(r)
    BY <2>2 DEF BuildOf
  <2> QED
    BY <2>1, <2>2, <2>3 DEF RecordInv, Recording, Working
<1> QED
  BY <1>2, <1>3

\* A build that a run has committed shows in the rows of the completed run, also when the
\* process died between the two and the run was taken up again.
THEOREM BuildsAreRecorded ==
  ASSUME ~StaleResumes, ~PurgeInterleaves PROVE Spec => []BuildIsRecorded
<1>1. Init => BuildIsRecorded
  BY DEF Init, BuildIsRecorded
<1> QED
  BY <1>1, RecordedStep, RecordInvAlways, PTL DEF Spec

\* When a run completes, the documents it has committed in its build are served with the
\* version it has mined, and those it has skipped with the version it has found.
THEOREM CompletedRunIsServed ==
  ASSUME ~StaleResumes, ~PurgeInterleaves PROVE Spec => CompletedIsServed
<1>1. ASSUME Typed, RecordInv, NEW r \in Runs, rstat[r] = "running",
             NEW d \in docs, row[r][d].st \in {"committed", "skipped"}
      PROVE  Serving(d) = row[r][d].snap
  <2>1. Live(r) /\ d \in Docs
    BY <1>1 DEF Live, Busy, Typed, DocTypes
  <2>2. CASE row[r][d].st = "committed"
    <3>1. PICK i \in BuildOf(r) : d \in builds[RunKb[r]][i].made
      BY <1>1, <2>1, <2>2 DEF RecordInv, Behind
    <3> QED
      BY <1>1, <2>1, <3>1, MadeIsServed DEF RecordInv
  <2>3. CASE row[r][d].st = "skipped"
    BY <1>1, <2>1, <2>3 DEF RecordInv, Behind
  <2> QED
    BY <1>1, <2>2, <2>3
<1>2. Typed /\ RecordInv =>
        [\A r \in Runs : rstat[r] = "running" /\ rstat'[r] = "completed" =>
           \A d \in docs : row[r][d].st \in {"committed", "skipped"} /\ row[r][d].snap \in Snaps
             => Serving(d) = row[r][d].snap]_vars
  BY <1>1
<1> QED
  BY <1>2, RecordInvAlways, PTL DEF CompletedIsServed

-----------------------------------------------------------------------------
(* What a build changes that its run has not mined.                        *)

\* A document that a run has skipped is served with the version it has found, as long as
\* its knowledge base has got no other build.
SkipHolds ==
  \A r \in Runs, d \in docs :
    row[r][d].st = "skipped" /\ row[r][d].since = Len(builds[RunKb[r]]) /\ row[r][d].snap # Gone
      => Serving(d) = row[r][d].snap

\* No row is of a document not yet uploaded, or younger than the builds.
RowsInTime ==
  \A d \in Docs, r \in Runs :
    /\ rev[d] = 0 => row[r][d].st = "none"
    /\ row[r][d].since <= Len(builds[RunKb[r]])

\* What is about to be carried on as skipped is so in the rows of the run.
SkipsAgree ==
  \A r \in Runs : job.run = r /\ job.pc \in {"guard", "publish"} /\ rstat[r] # "gone" =>
    \A d \in job.skips :
      /\ rev[d] # 0
      /\ d \in docs => row[r][d].st = "skipped" /\ row[r][d].snap = job.parsed[d]

SkipInv == InKb /\ Alone /\ RowsInTime /\ SkipHolds /\ SkipsAgree

\* Rows begin with the builds there are, and go with them.
LEMMA RowsInTimeStep == ASSUME Typed, InKb, RowsInTime, [Next]_vars PROVE RowsInTime'
<1> SUFFICES ASSUME NEW d \in Docs, NEW r \in Runs
             PROVE  /\ rev'[d] = 0 => row'[r][d].st = "none"
                    /\ row'[r][d].since <= Len(builds'[RunKb[r]])
  BY DEF RowsInTime
<1>1. /\ RunKb[r] \in Kbs /\ Len(builds[RunKb[r]]) \in Nat /\ row[r][d].since \in Nat
      /\ row[r][d].since <= Len(builds[RunKb[r]])
  BY BuildFacts, KbAssumption DEF Typed, RunTypes, Rows, RowsInTime
<1>2. ASSUME rev'[d] = 0 PROVE row'[r][d].st = "none"
  <2>1. rev[d] = 0 /\ d \notin docs
    BY <1>2, KeptStep DEF Typed, DocTypes
  <2>2. row[r][d].st = "none"
    BY <2>1 DEF RowsInTime
  <2> QED
    BY <2>1, <2>2, RowChanges DEF NoRow
<1>3. row'[r][d].since \in {row[r][d].since, 0, Len(builds[RunKb[r]])}
  BY RowSteps
<1>4. Wipes(RunKb[r]) => row'[r][d].since = 0 /\ Len(builds'[RunKb[r]]) = 0
  BY <1>1 DEF Wipes, PurgeWipe, NoRow, Typed, BuildTypes
<1>5. ~Wipes(RunKb[r]) => Len(builds'[RunKb[r]]) \in Nat /\ Len(builds[RunKb[r]]) <= Len(builds'[RunKb[r]])
  BY <1>1, BuildSteps
<1> QED
  BY <1>1, <1>2, <1>3, <1>4, <1>5

\* A document stays with what it was skipped for until the next build, or the version is
\* collected and its row with it.
LEMMA SkipHoldsStep == ASSUME Typed, SkipInv, [Next]_vars PROVE SkipHolds'
<1> SUFFICES ASSUME NEW r \in Runs, NEW d \in docs', row'[r][d].st = "skipped",
                    row'[r][d].since = Len(builds'[RunKb[r]]), row'[r][d].snap # Gone
             PROVE  Serving(d)' = row'[r][d].snap
  BY DEF SkipHolds
<1>1. /\ d \in Docs /\ RunKb[r] \in Kbs /\ Len(builds[RunKb[r]]) \in Nat /\ row[r][d] \in Rows
      /\ row[r][d].since <= Len(builds[RunKb[r]]) /\ NoSnap \notin Snaps
  BY StepTyped, BuildFacts, KbAssumption DEF Typed, DocTypes, RunTypes, SkipInv, RowsInTime
<1>2. d \in docs
  <2>1. d \in docs \/ rev[d] = 0
    BY <1>1, KeptStep DEF Kept
  <2>2. d \notin docs => row[r][d].st = "none"
    BY <1>1, <2>1 DEF SkipInv, RowsInTime
  <2> QED
    BY <1>1, <2>2, RowChanges DEF NoRow
<1>3. ~Wipes(RunKb[r])
  <2>1. Wipes(RunKb[r]) => row'[r][d] = NoRow
    BY <1>1 DEF Wipes, PurgeWipe
  <2> QED
    BY <2>1 DEF NoRow
<1>4. row[r][d].st = "skipped" => Marker(row[r][d]) # NoSnap
  BY <1>1 DEF Marker, SkipInv, InKb
<1>5. \/ row'[r][d] = row[r][d] /\ row[r][d].st = "skipped"
      \/ Ingest /\ KbOf[d] = RunKb[r] /\ row'[r][d] = Prepared(r, d)
  BY <1>1, <1>4, RowChanges DEF NoRow
<1>6. CASE row'[r][d] = row[r][d] /\ row[r][d].st = "skipped"
  <2>1. ~(Publish /\ builds' # builds /\ RunKb[r] = RunKb[job.run])
    <3>1. Publish /\ builds' # builds /\ RunKb[r] = RunKb[job.run] =>
            Len(builds'[RunKb[r]]) = Len(builds[RunKb[r]]) + 1
      BY <1>1, BuildSteps
    <3> QED
      BY <1>1, <1>6, <3>1 DEF Rows
  <2>2. Len(builds'[RunKb[r]]) = Len(builds[RunKb[r]])
    BY <1>1, <1>3, <2>1, BuildSteps
  <2>3. Serving(d) = row[r][d].snap /\ KbOf[d] = RunKb[r]
    BY <1>1, <1>2, <1>6, <2>2 DEF SkipInv, SkipHolds, InKb
  <2>4. ~(Reclaim(Serving(d)) /\ Serving(d) \in Snaps)
    <3>1. ASSUME Reclaim(Serving(d)), Serving(d) \in Snaps PROVE FALSE
      <4>1. PICK T \in SUBSET Snaps : Erase(T, T) /\ Serving(d) \in T
        BY <3>1 DEF Reclaim
      <4>2. row'[r][d] = IF row[r][d].snap \in T THEN [row[r][d] EXCEPT !.snap = Gone] ELSE row[r][d]
        BY <1>1, <4>1 DEF Erase
      <4>3. row'[r][d].snap = Gone
        BY <1>1, <2>3, <4>1, <4>2 DEF Rows
      <4> QED
        BY <4>3
    <3> QED
      BY <3>1
  <2> QED
    BY <1>2, <1>3, <1>6, <2>1, <2>3, <2>4, ServingKept
<1>7. CASE Ingest /\ KbOf[d] = RunKb[r] /\ row'[r][d] = Prepared(r, d)
  <2>1. builds' = builds
    BY <1>7 DEF Ingest, assetVars
  <2>2. Serving(d)' = Serving(d)
    BY <2>1 DEF Serving, Selecting
  <2>3. CASE row[r][d].st = "none"
    BY <1>2, <1>7, <2>2, <2>3, PreparedRow
  <2>4. CASE row[r][d].st # "none"
    <3>1. row[r][d].st = "skipped"
      BY <1>2, <1>7, <2>4, PreparedRow
    <3>2. Prepared(r, d) = row[r][d]
      BY <3>1 DEF Prepared
    <3> QED
      BY <1>2, <1>7, <2>1, <2>2, <3>1, <3>2 DEF SkipInv, SkipHolds
  <2> QED
    BY <2>3, <2>4
<1> QED
  BY <1>5, <1>6, <1>7

\* What is about to be carried on goes on to agree with the rows.
LEMMA SkipsAgreeStep == ASSUME Typed, SkipInv, [Next]_vars PROVE SkipsAgree'
<1> SUFFICES ASSUME NEW r \in Runs, job'.run = r, job'.pc \in {"guard", "publish"}, rstat'[r] # "gone",
                    NEW d \in job'.skips
             PROVE  /\ rev'[d] # 0
                    /\ d \in docs' => row'[r][d].st = "skipped" /\ row'[r][d].snap = job'.parsed[d]
  BY DEF SkipsAgree
<1>1. /\ job \in Jobs /\ job' \in Jobs /\ d \in Docs /\ IdleJob.pc = "idle" /\ rstat \in [Runs -> Statuses]
  BY StepTyped DEF Typed, JobTypes, Jobs, RunTypes, IdleJob
<1>2. job.run = r
  BY JobMoves
<1>3. rstat[r] = "running" /\ ~Wipes(RunKb[r])
  <2>1. rstat[r] \in {"running", "gone"}
    BY <1>2, KbAssumption DEF SkipInv, Alone
  <2>2. rstat[r] # "gone"
    BY <1>1, <2>1, StatusSteps
  <2>3. Wipes(RunKb[r]) => rstat'[r] = "gone"
    BY <2>1 DEF Wipes, PurgeWipe
  <2> QED
    BY <2>1, <2>2, <2>3
<1>4. CASE Index
  <2>1. UNCHANGED <<docs, rev, row>>
    BY <1>4, IndexedRows
  <2>2. row[r][d].st = "skipped" /\ job'.parsed[d] = row[r][d].snap
    BY <1>2, <1>4, Indexed
  <2>3. rev[d] # 0
    BY <1>1, <2>2 DEF SkipInv, RowsInTime
  <2> QED
    BY <2>1, <2>2, <2>3
<1>5. ASSUME job.pc \in {"guard", "publish"}, job'.skips = job.skips,
             d \in docs /\ d \in docs' /\ row[r][d].snap = job.parsed[d] =>
                 row'[r][d].snap = job'.parsed[d] /\ row'[r][d].st = row[r][d].st
      PROVE  /\ rev'[d] # 0
             /\ d \in docs' => row'[r][d].st = "skipped" /\ row'[r][d].snap = job'.parsed[d]
  <2>1. /\ rev[d] # 0
        /\ d \in docs => row[r][d].st = "skipped" /\ row[r][d].snap = job.parsed[d]
    BY <1>2, <1>3, <1>5 DEF SkipInv, SkipsAgree
  <2>2. rev'[d] # 0 /\ (d \in docs' => d \in docs)
    BY <1>1, <2>1, KeptStep DEF Kept
  <2> QED
    BY <1>5, <2>1, <2>2
<1>6. CASE /\ Erasing
           /\ job'.run = job.run /\ job'.pc = job.pc /\ job'.todo = job.todo
           /\ job'.ready = job.ready /\ job'.skips = job.skips
           /\ \A e \in Docs : /\ job'.parsed[e] \in {job.parsed[e], Gone}
                              /\ \A q \in Runs : row[q][e].snap = job.parsed[e] =>
                                   row'[q][e].snap = job'.parsed[e] /\ row'[q][e].st = row[q][e].st
  BY <1>1, <1>5, <1>6
<1>7. CASE job' = job /\ ~Erasing
  <2>1. ASSUME d \in docs, d \in docs' PROVE row'[r][d] = row[r][d]
    <3>1. ~Ingest /\ ~\E x \in Deletions : PurgeDocs(x) /\ d \in purge[x].docs \cap docs
      BY <1>1, <1>7, <2>1 DEF Ingest, PurgeDocs
    <3>2. job' # IdleJob /\ job'.pc \notin {"pipeline", "record"}
      BY <1>1
    <3> QED
      BY <1>1, <1>3, <1>7, <3>1, <3>2, RowChanges
  <2> QED
    BY <1>5, <1>7, <2>1
<1>8. CASE EnterPublishing /\ job.pc = "guard" /\ job' = [job EXCEPT !.pc = "publish"]
  <2>1. job'.skips = job.skips /\ job'.parsed = job.parsed
    BY <1>1, <1>8 DEF Jobs
  <2>2. row' = row
    BY <1>8 DEF EnterPublishing, runVars
  <2> QED
    BY <1>5, <1>8, <2>1, <2>2
<1>9. ~\E e \in Docs : Record(e) /\ job' = [job EXCEPT !.todo = @ \ {e}]
  BY <1>1 DEF Record, Jobs
<1>10. job' # [job EXCEPT !.pc = "record", !.built = TRUE]
  BY <1>1 DEF Jobs
<1> QED
  BY <1>1, <1>4, <1>6, <1>7, <1>8, <1>9, <1>10, JobSteps

LEMMA SkipInvAlways == Spec => [](Typed /\ SkipInv)
<1>1. Init => Typed /\ SkipInv
  <2> SUFFICES ASSUME Init PROVE SkipInv
    BY InitTyped
  <2>1. \A r \in Runs, d \in Docs : row[r][d].st = "none" /\ row[r][d].since = 0
    BY DEF Init, NoRow
  <2>2. job.run = NoRun /\ job.pc = "idle" /\ docs \subseteq Docs
    BY DEF Init, IdleJob
  <2>3. \A r \in Runs : Len(builds[RunKb[r]]) = 0
    BY KbAssumption DEF Init
  <2> QED
    BY <2>1, <2>2, <2>3 DEF SkipInv, InKb, Alone, RowsInTime, SkipHolds, SkipsAgree
<1>2. Typed /\ SkipInv /\ [Next]_vars => (Typed /\ SkipInv)'
  BY StepTyped, InKbStep, AloneStep, RowsInTimeStep, SkipHoldsStep, SkipsAgreeStep DEF SkipInv
<1> QED
  BY <1>1, <1>2, PTL DEF Spec

\* The only documents that a build changes without its run having mined them were skipped
\* against an older build, or by a run whose rows went with its knowledge base: whatever is
\* resumed, deleted or collected meanwhile.
THEOREM SkippedKeepsServing == Spec => SkipKeepsServing
<1>1. ASSUME Typed, SkipInv, [Next]_vars, NEW k \in Kbs, Len(builds'[k]) = Len(builds[k]) + 1,
             NEW d \in DocsOf(k), d \notin builds'[k][Len(builds'[k])].made,
             ~(/\ d \in job.skips
               /\ rstat[job.run] = "gone" \/ row[job.run][d].since # Len(builds[k]))
      PROVE  Serving(d)' = Serving(d)
  <2>1. Len(builds[k]) \in Nat /\ d \in docs /\ d \in Docs /\ KbOf[d] = k
    BY <1>1, BuildFacts DEF DocsOf, Typed, DocTypes
  <2>2. Publish /\ builds' # builds /\ RunKb[job.run] = k
    <3>1. Wipes(k) => Len(builds'[k]) = 0
      BY <1>1 DEF Wipes, PurgeWipe, Typed, BuildTypes
    <3> QED
      BY <1>1, <2>1, <3>1, BuildSteps
  <2>3. job.run \in Runs /\ job.pc = "publish" /\ d \notin job.ready
    <3>1. builds'[k][Len(builds[k]) + 1] = [run |-> job.run, sel |-> NextSel, made |-> job.ready]
      BY <1>1, <2>2, BuildSteps
    <3>2. builds'[k][Len(builds'[k])].made = job.ready
      BY <1>1, <3>1
    <3>3. job.run \in Runs
      BY <1>1, <2>2, Published
    <3> QED
      BY <1>1, <2>2, <3>2, <3>3 DEF Publish
  <2>4. NextSel[d] = Serving(d)
    <3>1. CASE d \notin job.skips
      BY <2>1, <2>2, <2>3, <3>1 DEF NextSel
    <3>2. CASE d \in job.skips
      <4>1. rstat[job.run] # "gone" /\ row[job.run][d].since = Len(builds[k])
        BY <1>1, <3>2
      <4>2. row[job.run][d].st = "skipped" /\ row[job.run][d].snap = job.parsed[d]
        BY <1>1, <2>1, <2>3, <3>2, <4>1 DEF SkipInv, SkipsAgree
      <4>3. NextSel[d] = job.parsed[d]
        BY <2>1, <3>2 DEF NextSel
      <4>4. NextSel[d] # Gone
        BY <1>1, <2>2, <2>1, <2>3, <4>2, <4>3, Published, KbAssumption DEF Valid, SkipInv, InKb
      <4> QED
        BY <1>1, <2>1, <2>2, <2>3, <4>1, <4>2, <4>3, <4>4 DEF SkipInv, SkipHolds
    <3> QED
      BY <3>1, <3>2
  <2> QED
    BY <1>1, <2>1, <2>2, <2>4, CarriedIsServed
<1>2. Typed /\ SkipInv /\ [Next]_vars =>
        [\A k \in Kbs : Len(builds'[k]) = Len(builds[k]) + 1 =>
           \A d \in DocsOf(k) :
             \/ d \in builds'[k][Len(builds'[k])].made
             \/ Serving(d)' = Serving(d)
             \/ /\ d \in job.skips
                /\ rstat[job.run] = "gone" \/ row[job.run][d].since # Len(builds[k])]_vars
  BY <1>1
<1> QED
  BY <1>2, SkipInvAlways, PTL DEF Spec, SkipKeepsServing

=============================================================================
