---------------------------- MODULE LibraryProofs ---------------------------
(***************************************************************************)
(* The library and what works on it: jobs exclude each other and no poll   *)
(* misses one; a page of the history misses no picture that agrees; only   *)
(* exact pictures are linked; a tile keeps its key; files are kept, and an *)
(* undisturbed scan says what lies in its folder.                          *)
(***************************************************************************)
EXTENDS MCLibrary, GroupsProofs

-----------------------------------------------------------------------------
(* The registry of jobs (jobs).                                            *)

USE JobKindsAssumption, JobBoundsAssumption

LEMMA NewestFacts ==
  /\ Newest \in Listed \cup {0} /\ Newest \in 0 .. MaxJobs
  /\ \A i \in Listed : i <= Newest
<1>1. Listed \cup {0} \in SUBSET (0 .. MaxJobs) /\ Listed \cup {0} # {}
  BY DEF Listed, JobIds
<1> QED
  BY <1>1, GreatestOfBounded DEF Newest

(* Pruning only ever drops jobs that have ended. *)
LEMMA PrunedFacts ==
  ASSUME NEW table, NEW i \in JobIds
  PROVE  Pruned(table)[i] = table[i]
         \/ (Pruned(table)[i] = Blank /\ table[i].status = "ended")
  BY DEF Pruned

(* Each job is a record, whatever finished_at may be. *)
Numbering ==
  jobs = [i \in JobIds |-> [kind |-> jobs[i].kind, status |-> jobs[i].status,
                            finished |-> jobs[i].finished]]
Unused == \A i \in JobIds : i >= nextId => jobs[i].status = "none"
(* A browser that has its baseline never asks for jobs that are to come. *)
Behind == base <= MaxJobs => cursor < nextId
Counters ==
  /\ nextId \in 1 .. MaxJobs + 1
  /\ cursor \in 0 .. MaxJobs /\ base \in 0 .. MaxJobs + 1

(* Of a job that moves files and has not ended, the shutdown knows the thread. *)
Awaited == \A i \in Active : jobs[i].kind \in FileKinds => i \in threads

JobsInv ==
  /\ Numbering /\ Counters /\ Unused /\ Behind /\ Awaited
  /\ NoConflictingJobs /\ PollMissesNone

LEMMA JobsStart == JobsInit => JobsInv
  BY DEF JobsInit, JobsInv, Numbering, Counters, Unused, Behind, Awaited, NoConflictingJobs,
         PollMissesNone, Active, Listed, Blank, JobIds

(* The check and the insert are one step: the new job conflicts with none  *)
(* that is active, and its id is beyond every cursor.                      *)
LEMMA InsertKeeps ==
  ASSUME JobsInv, NEW k \in JobKinds, NEW status \in {"starting", "running"},
         nextId <= MaxJobs, ~Refused(k), jobs' = Inserted(k, status),
         nextId' = nextId + 1, UNCHANGED browser,
         threads' = Registered(k) \/ (k \notin FileKinds /\ threads' = threads)
  PROVE  JobsInv'
<1> DEFINE new == [kind |-> k, status |-> status, finished |-> 0]
           table == [jobs EXCEPT ![nextId] = new]
<1> USE DEF JobsInv
<1>1. nextId \in JobIds /\ nextId \notin Active
  BY DEF Counters, Unused, JobIds, Active
<1>2. jobs' = Pruned(table)
  BY DEF Inserted
<1>3. \A i \in JobIds : table[i] = IF i = nextId THEN new ELSE jobs[i]
  BY <1>1 DEF Numbering
<1>4. \A i \in JobIds : \/ jobs'[i] = table[i]
                        \/ jobs'[i] = Blank /\ table[i].status = "ended"
  BY <1>2, PrunedFacts
<1>5. Blank.status = "none"
  BY DEF Blank
<1>6. jobs'[nextId] = new
  BY <1>1, <1>3, <1>4
<1>7. \A i \in JobIds : i # nextId => jobs'[i] = jobs[i] \/ jobs'[i] = Blank
  BY <1>3, <1>4
<1>8. Active' \subseteq Active \cup {nextId} /\ Listed' \subseteq Listed \cup {nextId}
  BY <1>5, <1>7 DEF Active, Listed
<1>9. \A i \in Active' : i # nextId => i \in Active /\ jobs'[i] = jobs[i]
  BY <1>5, <1>7 DEF Active
<1>10. Numbering'
  <2>1. DOMAIN jobs' = JobIds /\ jobs' = [i \in JobIds |-> jobs'[i]]
    BY <1>2 DEF Pruned
  <2>2. \A i \in JobIds : jobs'[i] = [kind |-> jobs'[i].kind, status |-> jobs'[i].status,
                                     finished |-> jobs'[i].finished]
    <3> SUFFICES ASSUME NEW i \in JobIds
                 PROVE  jobs'[i] = [kind |-> jobs'[i].kind, status |-> jobs'[i].status,
                                    finished |-> jobs'[i].finished]
      OBVIOUS
    <3>1. jobs[i] = [kind |-> jobs[i].kind, status |-> jobs[i].status,
                     finished |-> jobs[i].finished]
      BY DEF Numbering
    <3>2. jobs'[i] = new \/ jobs'[i] = jobs[i] \/ jobs'[i] = Blank
      BY <1>6, <1>7
    <3> QED
      BY <3>1, <3>2 DEF Blank
  <2> QED
    BY <2>1, <2>2 DEF Numbering
<1>11. Counters' /\ Behind'
  BY DEF Counters, Behind, browser
<1>12. Unused'
  BY <1>1, <1>5, <1>7 DEF Unused, Counters, JobIds
<1>13. NoConflictingJobs'
  <2> SUFFICES ASSUME NEW i \in Active', NEW j \in Active', i # j
               PROVE  ~Covers(jobs'[i].kind, jobs'[j].kind)
    BY DEF NoConflictingJobs, Covers
  <2>1. \A a \in Active : ~Covers(k, jobs[a].kind) /\ ~Covers(jobs[a].kind, k)
    BY DEF Refused, Conflicts
  <2>2. jobs'[nextId].kind = k
    BY <1>6
  <2> QED
    BY <1>9, <2>1, <2>2 DEF NoConflictingJobs
<1>14. PollMissesNone'
  BY <1>1, <1>8 DEF PollMissesNone, Behind, Counters, browser, JobIds, Listed
<1>15. Awaited'
  BY <1>6, <1>8, <1>9 DEF Awaited, Registered
<1> QED
  BY <1>10, <1>11, <1>12, <1>13, <1>14, <1>15

(* A job's own steps change its status, and end it only once. *)
LEMMA ThreadKeeps ==
  ASSUME JobsInv, NEW i \in JobIds, JobStep(i)
  PROVE  JobsInv'
<1> USE DEF JobsInv
<1>1. UNCHANGED <<nextId, browser>>
  BY DEF JobStep, Run, Settle, Leave
<1>2. /\ Numbering'
      /\ \A j \in JobIds : jobs'[j].kind = jobs[j].kind
      /\ \A j \in JobIds : jobs'[j].status \in {"starting", "running"}
                           => jobs[j].status \in {"starting", "running"}
      /\ \A j \in JobIds : jobs'[j].status = "none" <=> jobs[j].status = "none"
  <2>1. CASE Run(i)
    BY <2>1 DEF Run, Numbering
  <2>2. CASE Settle(i)
    BY <2>2 DEF Settle, Numbering
  <2>3. CASE Leave(i)
    BY <2>3 DEF Leave, Numbering
  <2> QED
    BY <2>1, <2>2, <2>3 DEF JobStep
<1>3. Active' \subseteq Active /\ Listed' = Listed
  BY <1>2 DEF Active, Listed
<1>4. NoConflictingJobs'
  BY <1>2, <1>3 DEF NoConflictingJobs, Covers, Active
<1>5. Counters' /\ Behind' /\ Unused' /\ PollMissesNone'
  BY <1>1, <1>2, <1>3 DEF Counters, Behind, Unused, PollMissesNone, browser
<1>6. Awaited'
  <2> SUFFICES ASSUME NEW j \in Active', jobs'[j].kind \in FileKinds
               PROVE  j \in threads'
    BY DEF Awaited
  <2>1. j \in JobIds /\ j \in Active /\ jobs'[j].kind = jobs[j].kind
    BY <1>2, <1>3 DEF Active
  <2>2. j \in threads
    BY <2>1 DEF Awaited
  <2>3. CASE threads' = threads
    BY <2>2, <2>3
  <2>4. CASE Leave(i)
    <3>1. j # i
      BY <2>1, <2>4 DEF Leave, Active
    <3> QED
      BY <2>2, <2>4, <3>1 DEF Leave
  <2> QED
    BY <2>3, <2>4 DEF JobStep, Run, Settle
<1> QED
  BY <1>2, <1>4, <1>5, <1>6

(* After a poll the browser knows every listed job up to its cursor that   *)
(* is later than its baseline.                                             *)
LEMMA PollKeeps ==
  ASSUME JobsInv, NEW after \in -1 .. MaxJobs, Poll(after)
  PROVE  JobsInv'
<1> USE DEF JobsInv
<1>1. jobs' = jobs /\ nextId' = nextId /\ threads' = threads /\ Listed' = Listed /\ Active' = Active
  BY DEF Poll, registry, Listed, Active
<1>2. Numbering' /\ Unused' /\ Awaited' /\ NoConflictingJobs'
  BY <1>1 DEF Numbering, Unused, Awaited, NoConflictingJobs
<1>3. \A i \in Listed : i \in 1 .. MaxJobs /\ i < nextId
  BY DEF Listed, JobIds, Unused, Counters
<1>4. Newest \in 0 .. MaxJobs /\ Newest < nextId
  BY <1>3, NewestFacts DEF Counters
<1>5. cursor' \in 0 .. MaxJobs /\ cursor' < nextId
  <2>1. Selected(after) \cap Active \subseteq Listed
    BY DEF Active, Listed
  <2> QED
    BY <1>3, <1>4, <2>1 DEF Poll, Counters
<1>6. base' = IF base > MaxJobs THEN Newest ELSE base
  BY DEF Poll
<1>7. Counters' /\ Behind'
  BY <1>1, <1>4, <1>5, <1>6 DEF Counters, Behind
<1>8. PollMissesNone'
  <2> SUFFICES ASSUME NEW i \in Listed, base' < i, i <= cursor'
               PROVE  i \in told'
    BY <1>1 DEF PollMissesNone
  <2>1. base <= MaxJobs
    BY <1>3, <1>4, <1>6, NewestFacts DEF Counters
  <2>2. base' = base /\ after = cursor
    BY <1>6, <2>1 DEF Poll, Counters
  <2>3. CASE i <= cursor
    BY <2>2, <2>3 DEF PollMissesNone, Poll
  <2>4. CASE ~(i <= cursor)
    <3>1. i > after /\ after # -1 /\ ~(after > Newest)
      BY <1>3, <1>4, <2>2, <2>4, NewestFacts DEF Counters
    <3> QED
      BY <3>1 DEF Poll, Selected
  <2> QED
    BY <2>3, <2>4
<1> QED
  BY <1>2, <1>7, <1>8

LEMMA JobsKept == JobsInv /\ [JobsNext]_jobsVars => JobsInv'
<1> SUFFICES ASSUME JobsInv, [JobsNext]_jobsVars PROVE JobsInv'
  OBVIOUS
<1>1. ASSUME NEW k \in JobKinds, Start(k) \/ Reserve(k) PROVE JobsInv'
  BY <1>1, InsertKeeps DEF Start, Reserve
<1>2. ASSUME Shutdown \/ Deadline \/ Down \/ UNCHANGED jobsVars PROVE JobsInv'
  BY <1>2 DEF Shutdown, Deadline, Down, jobsVars, registry, browser, JobsInv, Numbering,
              Counters, Unused, Behind, Awaited, NoConflictingJobs, PollMissesNone,
              Active, Listed
<1>3. ASSUME Restart PROVE JobsInv'
  BY <1>3 DEF Restart, JobsInv, Numbering, Counters, Unused, Behind, Awaited,
              NoConflictingJobs, PollMissesNone, Active, Listed, Blank, JobIds
<1> QED
  BY <1>1, <1>2, <1>3, ThreadKeeps, PollKeeps DEF JobsNext

(* The inductive invariant of the registry and the browser's cursor.       *)
THEOREM JobsInvariant == JobsSpec => []JobsInv
<1> QED
  BY JobsStart, JobsKept, PTL DEF JobsSpec

(* No two jobs run whose scopes conflict, in either direction (jobs.start, *)
(* jobs.reserve): the check and the insert are one step under the lock.    *)
THEOREM OneAtATime == JobsSpec => []NoConflictingJobs
<1>1. JobsInv => NoConflictingJobs
  BY DEF JobsInv
<1> QED
  BY <1>1, JobsInvariant, PTL

(* Every job created after the browser's baseline and behind its cursor    *)
(* has been reported to it (jobs.updates, api/jobs.py).                    *)
THEOREM NoJobMissed == JobsSpec => []PollMissesNone
<1>1. JobsInv => PollMissesNone
  BY DEF JobsInv
<1> QED
  BY <1>1, JobsInvariant, PTL

(* The process does not end under a job that moves files before the        *)
(* deadline of the shutdown has passed (main._lifespan,                    *)
(* jobs.wait_for_filesystem_jobs).                                         *)
THEOREM FilesFinishFirst == JobsSpec => NoFileJobCutOff
<1>1. JobsInv /\ [JobsNext]_jobsVars
      => (closing = "waiting" /\ closing' = "down" =>
            \A i \in Active : jobs[i].kind \notin FileKinds)
  <2> SUFFICES ASSUME JobsInv, [JobsNext]_jobsVars, closing = "waiting", closing' = "down"
               PROVE  \A i \in Active : jobs[i].kind \notin FileKinds
    OBVIOUS
  <2>1. Down
    BY DEF JobsNext, jobsVars, Start, Reserve, JobStep, Run, Settle, Leave, Poll, Shutdown,
           Deadline, Restart
  <2> QED
    BY <2>1 DEF Down, FilesAtRest, JobsInv, Awaited
<1> QED
  BY <1>1, JobsInvariant, PTL DEF JobsSpec, NoFileJobCutOff

(* The types of the registry, and of the browser's cursor.                 *)
LEMMA BlankIsAJob == Blank \in Job
<1>1. (CHOOSE k \in JobKinds : TRUE) \in JobKinds
  OBVIOUS
<1>2. QED
  BY <1>1 DEF Blank, Job

LEMMA PrunedType ==
  ASSUME NEW table \in [JobIds -> Job]
  PROVE  Pruned(table) \in [JobIds -> Job]
<1>1. \A i \in JobIds : Pruned(table)[i] \in Job
  BY BlankIsAJob, PrunedFacts
<1>2. Pruned(table) = [i \in JobIds |-> Pruned(table)[i]]
  BY DEF Pruned
<1>3. QED
  BY <1>1, <1>2

LEMMA InsertedType ==
  ASSUME JobsTypeOK, NEW k \in JobKinds, NEW status \in {"starting", "running"}, nextId \in JobIds
  PROVE  Inserted(k, status) \in [JobIds -> Job]
<1> DEFINE new == [kind |-> k, status |-> status, finished |-> 0]
<1>1. new \in Job
  BY DEF Job
<1>2. [jobs EXCEPT ![nextId] = new] \in [JobIds -> Job]
  BY <1>1 DEF JobsTypeOK
<1>3. QED
  BY <1>2, PrunedType DEF Inserted

(* A job that ends is one later than those that have ended.                *)
LEMMA RankType ==
  ASSUME JobsTypeOK, JobIds # {}
  PROVE  Rank \in Nat
<1> DEFINE ends == {jobs[i].finished : i \in JobIds}
<1>1. [i \in JobIds |-> jobs[i].finished] \in Surjection(JobIds, ends)
  BY DEF Surjection
<1>2. IsFiniteSet(JobIds)
  BY FS_Interval DEF JobIds
<1>3. ends \in SUBSET Nat /\ ends # {}
  BY DEF JobsTypeOK, Job
<1>4. Rank = Max(ends) + 1
  BY DEF Rank
<1> HIDE DEF ends
<1>5. IsFiniteSet(ends)
  BY <1>1, <1>2, FS_Surjection
<1>6. ends \in SUBSET Int
  BY <1>3
<1>7. Max(ends) \in ends
  BY <1>3, <1>5, <1>6, GreatestOfFinite
<1>8. PICK m \in Nat : m = Max(ends)
  BY <1>3, <1>7
<1>9. QED
  BY <1>4, <1>8

LEMMA JobsTypeStart == JobsInit => JobsTypeOK
  BY BlankIsAJob DEF JobsInit, JobsTypeOK, JobIds

LEMMA JobsTypeStep == JobsTypeOK /\ [JobsNext]_jobsVars => JobsTypeOK'
<1> SUFFICES ASSUME JobsTypeOK, [JobsNext]_jobsVars PROVE JobsTypeOK'
  OBVIOUS
<1>1. ASSUME NEW k \in JobKinds, Start(k) \/ Reserve(k) PROVE JobsTypeOK'
  <2>1. nextId \in JobIds /\ nextId' = nextId + 1 /\ threads' \in {threads, threads \cup {nextId}}
    BY <1>1 DEF Start, Reserve, Registered, JobsTypeOK, JobIds
  <2>2. jobs' = Inserted(k, "starting") \/ jobs' = Inserted(k, "running")
    BY <1>1 DEF Start, Reserve
  <2>3. jobs' \in [JobIds -> Job]
    BY <2>1, <2>2, InsertedType
  <2>4. UNCHANGED <<closing, cursor, base, told>>
    BY <1>1 DEF Start, Reserve, browser
  <2>5. QED
    BY <2>1, <2>3, <2>4 DEF JobsTypeOK, JobIds
<1>2. ASSUME NEW i \in JobIds, JobStep(i) PROVE JobsTypeOK'
  <2>1. jobs[i] \in Job
    BY DEF JobsTypeOK
  <2>2. Rank \in Nat
    BY RankType
  <2>3. /\ \A status \in {"running", "ended"} : [jobs[i] EXCEPT !.status = status] \in Job
        /\ \A rank \in Nat : [jobs[i] EXCEPT !.finished = rank] \in Job
    BY <2>1 DEF Job
  <2>4. /\ jobs' \in {jobs, [jobs EXCEPT ![i] = [jobs[i] EXCEPT !.status = "running"]],
                      [jobs EXCEPT ![i] = [jobs[i] EXCEPT !.status = "ended"]],
                      [jobs EXCEPT ![i] = [jobs[i] EXCEPT !.finished = Rank]]}
        /\ threads' \subseteq threads
    BY <1>2 DEF JobStep, Run, Settle, Leave, JobsTypeOK
  <2>5. jobs' \in [JobIds -> Job]
    <3> HIDE DEF Rank
    <3>1. QED
      BY <2>2, <2>3, <2>4 DEF JobsTypeOK
  <2>6. UNCHANGED <<nextId, closing, cursor, base, told>>
    BY <1>2 DEF JobStep, Run, Settle, Leave, browser
  <2>7. QED
    BY <2>4, <2>5, <2>6 DEF JobsTypeOK
<1>3. ASSUME NEW after \in -1 .. MaxJobs, Poll(after) PROVE JobsTypeOK'
  <2>1. /\ cursor' = Newest \/ \E i \in Active : cursor' = i - 1
        /\ base' \in {base, Newest} /\ told' \subseteq told \cup Listed
        /\ UNCHANGED <<jobs, nextId, threads, closing>>
    BY <1>3 DEF Poll, Selected, registry, Active, Listed
  <2>2. Newest \in 0 .. MaxJobs
    BY NewestFacts
  <2>3. QED
    BY <2>1, <2>2 DEF JobsTypeOK, Active, Listed, JobIds
<1>4. ASSUME Restart PROVE JobsTypeOK'
  BY <1>4, BlankIsAJob DEF Restart, JobsTypeOK, JobIds
<1>5. ASSUME Shutdown \/ Deadline \/ Down \/ UNCHANGED jobsVars PROVE JobsTypeOK'
  BY <1>5 DEF Shutdown, Deadline, Down, jobsVars, registry, browser, JobsTypeOK
<1>6. QED
  BY <1>1, <1>2, <1>3, <1>4, <1>5 DEF JobsNext

HIDE JobBoundsAssumption
HIDE JobKindsAssumption

-----------------------------------------------------------------------------
(* Pages of the usage history (history).                                   *)

(* Two hashes that differ in fewer bits than there are bands agree on one  *)
(* of the bands: the differing bits do not reach every band.               *)
LEMMA SomeBandAgrees ==
  ASSUME NEW g \in SUBSET Bits, NEW h \in SUBSET Bits, Distance(g, h) < Cardinality(Bands)
  PROVE  \E b \in Bands : BandValue(g, b) = BandValue(h, b)
<1> DEFINE far == Differing(g, h)
           touched == {b \in Bands : \E i \in far : BandOf[i] = b}
           band == [i \in far |-> BandOf[i]]
<1>1. far \subseteq Bits /\ IsFiniteSet(far)
  BY HistoryAssumption, FS_Subset DEF Differing
<1>2. band \in Surjection(far, touched)
  BY <1>1, HistoryAssumption DEF Surjection
<1>3. Cardinality(touched) <= Cardinality(far)
  BY <1>1, <1>2, FS_Surjection
<1>4. touched # Bands
  <2>1. Cardinality(far) \in Nat /\ Cardinality(Bands) \in Nat
    BY <1>1, HistoryAssumption, FS_CardinalityType
  <2>2. Cardinality(far) < Cardinality(Bands)
    BY DEF Distance
  <2>3. ASSUME touched = Bands PROVE FALSE
    <3>1. Cardinality(Bands) <= Cardinality(far)
      BY <1>3, <2>3
    <3> HIDE DEF far, touched
    <3>2. QED
      BY <2>1, <2>2, <3>1
  <2>4. QED
    BY <2>3
<1>5. PICK b \in Bands : b \notin touched
  BY <1>4
<1>6. BandValue(g, b) = BandValue(h, b)
  BY <1>5 DEF BandValue, Differing
<1>7. QED
  BY <1>5, <1>6

(* So the page's candidates hold everything near. *)
LEMMA NothingMissed ==
  ASSUME HistoryTypeOK, NEW p \in page
  PROVE  CheckMany(p) = Check(p)
<1>1. CASE Certain(p) # {} \/ p.hash = Unknown
  BY <1>1 DEF CheckMany, Check, Near
<1>2. CASE Certain(p) = {} /\ p.hash # Unknown
  <2>1. p.hash \in SUBSET Bits /\ \A u \in Hashed : u.hash \in SUBSET Bits
    BY <1>2 DEF HistoryTypeOK, Picture, Use, Hashed, Counted
  <2>2. ASSUME NEW u \in Hashed, BandsHold, Distance(p.hash, u.hash) <= limit
        PROVE  SharesBand(p, u)
    <3>1. /\ IsFiniteSet(Differing(p.hash, u.hash)) /\ limit \in Nat
      BY <2>1, HistoryAssumption, FS_Subset DEF HistoryTypeOK, Differing
    <3>2. Distance(p.hash, u.hash) < Cardinality(Bands)
      BY <2>2, <3>1, FS_CardinalityType, HistoryAssumption DEF BandsHold, Distance
    <3>3. QED
      BY <2>1, <3>2, SomeBandAgrees DEF SharesBand
  <2>3. Near(p, Candidates(p)) = Near(p, Hashed)
    BY <1>2, <2>2 DEF Near, Candidates
  <2>4. QED
    BY <1>2, <2>3 DEF CheckMany, Check
<1>3. QED
  BY <1>1, <1>2

LEMMA HistoryStart == HistoryInit => HistoryTypeOK
  BY HistoryAssumption, FS_CardinalityType DEF HistoryInit, HistoryTypeOK

LEMMA HistoryStep == HistoryTypeOK /\ [HistoryNext]_historyVars => HistoryTypeOK'
<1>1. ASSUME HistoryTypeOK, NEW u \in Use, Record(u) PROVE HistoryTypeOK'
  BY <1>1 DEF Record, HistoryTypeOK
<1>2. ASSUME HistoryTypeOK, NEW sha \in Bytes, Withdraw(sha) PROVE HistoryTypeOK'
  BY <1>2 DEF Withdraw, HistoryTypeOK, Use
<1>3. ASSUME HistoryTypeOK, NEW sha \in Bytes, NEW pixels \in PixelHashes,
             FillPixelHash(sha, pixels)
      PROVE  HistoryTypeOK'
  BY <1>3 DEF FillPixelHash, HistoryTypeOK, Use
<1>4. ASSUME HistoryTypeOK, NEW picture \in Picture, AskAbout(picture) PROVE HistoryTypeOK'
  BY <1>4 DEF AskAbout, HistoryTypeOK
<1>5. ASSUME HistoryTypeOK, UNCHANGED historyVars PROVE HistoryTypeOK'
  BY <1>5 DEF historyVars, HistoryTypeOK
<1>6. QED
  BY <1>1, <1>2, <1>3, <1>4, <1>5 DEF HistoryNext

(* "Has this picture been used before?" is answered alike for a page of    *)
(* pictures and for one (usage.check_many, check), at every threshold and  *)
(* with any division of the hash into bands.                               *)
THEOREM PageMissesNothing == HistorySpec => []PageAgrees
<1>1. HistoryTypeOK => PageAgrees
  BY NothingMissed DEF PageAgrees
<1>2. QED
  BY <1>1, HistoryStart, HistoryStep, PTL DEF HistorySpec

-----------------------------------------------------------------------------
(* The search for the files of a post (matching).                          *)

(* What may stand for the tile: the pixels of CivitAI's image, or of a     *)
(* picture the user once chose for it.  The history, a search that has     *)
(* found a file and not linked it yet, and the link itself agree on that.  *)
Stands(s, picture) == picture \in {PictureOf[s]} \cup chosen[s]
Remembered == \A s \in Slots : \A b \in recorded[s] : Stands(s, b.picture)
Offered == \A m \in Searchers, s \in Slots :
  finding[m].slot = {s} => finding[m].file \in Files /\ Stands(s, PictureOf[finding[m].file])
Picked == choosing.slot # {} => choosing.file \in Files
Changed == \A f \in Files : written[f] <= changes

MatchInv == MatchTypeOK /\ ExactOnly /\ Remembered /\ Offered /\ Picked /\ Changed

LEMMA MatchStart == MatchInit => MatchInv
<1>1. SUFFICES ASSUME MatchInit PROVE MatchInv
  OBVIOUS
<1>2. \A f \in Files : BytesOf(f) \in Digests
  BY <1>1, MatchingAssumption DEF MatchInit, BytesOf, Digests, Pictures
<1>3. \A s \in Slots : recorded[s] \in SUBSET Digests
  BY <1>1, MatchingAssumption DEF MatchInit, Digests, Pictures
<1>4. recorded \in [Slots -> SUBSET Digests]
  BY <1>1, <1>3 DEF MatchInit
<1>5. MatchTypeOK
  BY <1>1, <1>4, MatchingAssumption DEF MatchInit, MatchTypeOK, Rest, NoChoice
<1>6. \A m \in Searchers, s \in Slots : finding[m].slot # {s} /\ choosing.slot = {}
  BY <1>1 DEF MatchInit, Rest, NoChoice
<1>7. \A s \in Slots : link[s] = NoFile /\ \A b \in recorded[s] : b.picture = PictureOf[s]
  BY <1>1 DEF MatchInit
<1>8. \A f \in Files : written[f] <= changes
  BY <1>1 DEF MatchInit
<1>9. ExactOnly /\ Remembered /\ Offered /\ Picked /\ Changed
  <2>1. Picked
    BY <1>1 DEF MatchInit, NoChoice, Picked
  <2>2. QED
    BY <1>6, <1>7, <1>8, <2>1 DEF ExactOnly, Remembered, Offered, Changed, Stands
<1>10. QED
  BY <1>5, <1>9 DEF MatchInv

(* A searcher that has nothing in hand any more. *)
LEMMA HandsFree ==
  ASSUME MatchInv, NEW m \in Searchers, UNCHANGED chosen,
         \/ finding' = [finding EXCEPT ![m].slot = {}, ![m].file = NoFile]
         \/ finding' = [finding EXCEPT ![m].todo = Open]
         \/ finding' = [finding EXCEPT ![m] = Rest]
  PROVE  Offered' /\ finding' \in [Searchers -> [todo : SUBSET Slots, slot : SUBSET Slots,
                                                file : Files \cup {NoFile}]]
<1> DEFINE Hand == [todo : SUBSET Slots, slot : SUBSET Slots, file : Files \cup {NoFile}]
<1>1. finding \in [Searchers -> Hand] /\ finding[m] \in Hand
  BY DEF MatchInv, MatchTypeOK
<1>2. \/ finding'[m] = [finding[m] EXCEPT !.slot = {}, !.file = NoFile]
      \/ finding'[m] = [finding[m] EXCEPT !.todo = Open]
      \/ finding'[m] = Rest
  BY <1>1
<1>3. /\ DOMAIN finding' = Searchers /\ finding' = [n \in Searchers |-> finding'[n]]
      /\ \A n \in Searchers \ {m} : finding'[n] = finding[n]
  BY <1>1
<1>4. finding'[m] \in Hand
  BY <1>1, <1>2 DEF Rest, Open
<1>5. /\ \/ finding'[m].slot = {}
         \/ finding'[m].slot = finding[m].slot /\ finding'[m].file = finding[m].file
  BY <1>1, <1>2 DEF Rest
<1>6. \A s \in Slots : {} # {s}
  OBVIOUS
<1>7. \A n \in Searchers : finding'[n] \in Hand
  BY <1>1, <1>3, <1>4
<1>8. Offered'
  <2>1. SUFFICES ASSUME NEW n \in Searchers, NEW s \in Slots, finding'[n].slot = {s}
                 PROVE  /\ finding'[n].file \in Files
                        /\ PictureOf[finding'[n].file] \in {PictureOf[s]} \cup chosen'[s]
    BY DEF Offered, Stands
  <2>2. finding'[n].file = finding[n].file /\ finding[n].slot = {s}
    BY <1>3, <1>5, <1>6, <2>1
  <2>3. QED
    BY <2>2 DEF MatchInv, Offered, Stands
<1> HIDE DEF Hand
<1>9. finding' \in [Searchers -> Hand]
  BY <1>3, <1>7
<1>10. QED
  BY <1>8, <1>9 DEF Hand

(* A search only ever finds what stands for its tile. *)
LEMMA OfferStands ==
  ASSUME MatchInv, NEW m \in Searchers, NEW s \in Slots, NEW got, got.picture = PictureOf[s],
         NEW row \in Rows(s), NEW f \in Offers(m, s, got, row)
  PROVE  f \in Files /\ Stands(s, PictureOf[f])
<1>1. \A b \in row : Stands(s, b.picture)
  BY DEF Rows, MatchInv, Remembered
<1>2. ASSUME f \in Files, BytesOf(f) \in row PROVE Stands(s, PictureOf[f])
  BY <1>1, <1>2 DEF BytesOf
<1>3. ASSUME f \in Files, BytesOf(f) = got \/ PictureOf[f] = PictureOf[s]
      PROVE  Stands(s, PictureOf[f])
  BY <1>3 DEF BytesOf, Stands
<1>4. \/ f \in Files /\ BytesOf(f) \in row
      \/ f \in Files /\ (BytesOf(f) = got \/ PictureOf[f] = PictureOf[s])
  BY DEF Offers, ByDownload
<1>5. QED
  BY <1>2, <1>3, <1>4

LEMMA LookKeeps ==
  ASSUME MatchInv, NEW m \in Searchers, NEW s \in Slots, NEW got \in Digests, Look(m, s, got)
  PROVE  MatchInv'
<1>1. PICK row \in Rows(s), f \in Files \cup {NoFile} :
        /\ IF Offers(m, s, got, row) = {} THEN f = NoFile ELSE f \in Offers(m, s, got, row)
        /\ finding' = [finding EXCEPT ![m] =
             [todo |-> @.todo \ {s}, slot |-> IF f = NoFile THEN {} ELSE {s}, file |-> f]]
  BY DEF Look
<1>2. UNCHANGED <<link, byHand, chosen, shelf, written, recorded, published, choosing, rounds, changes>>
      /\ got.picture = PictureOf[s]
  BY DEF Look, library
<1>3. f # NoFile => f \in Files /\ Stands(s, PictureOf[f])
  BY <1>1, <1>2, OfferStands
<1>4. finding \in [Searchers -> [todo : SUBSET Slots, slot : SUBSET Slots,
                                 file : Files \cup {NoFile}]]
  BY DEF MatchInv, MatchTypeOK
<1>5. MatchTypeOK'
  BY <1>1, <1>2, <1>4 DEF MatchInv, MatchTypeOK
<1>6. Offered'
  BY <1>1, <1>2, <1>3, <1>4 DEF MatchInv, Offered, Stands
<1>7. QED
  BY <1>2, <1>5, <1>6 DEF MatchInv, ExactOnly, Remembered, Picked, Changed, Stands

(* Where the history takes up the bytes of a file that stands for a tile.  *)
LEMMA RecordedKeeps ==
  ASSUME MatchInv, NEW s \in Slots, NEW f \in Files, Recorded(s, f),
         \A t \in Slots : chosen[t] \subseteq chosen'[t],
         PictureOf[f] \in {PictureOf[s]} \cup chosen'[s]
  PROVE  Remembered' /\ recorded' \in [Slots -> SUBSET Digests]
<1>1. recorded \in [Slots -> SUBSET Digests] /\ written \in [Files -> 0 .. MaxChanges]
  BY DEF MatchInv, MatchTypeOK
<1>2. BytesOf(f) \in Digests /\ BytesOf(f).picture = PictureOf[f]
  BY <1>1 DEF BytesOf, Digests, Pictures
<1>3. \A t \in Slots : \A b \in recorded'[t] : b \in recorded[t] \/ (t = s /\ b = BytesOf(f))
  BY <1>1 DEF Recorded
<1>4. Remembered'
  BY <1>2, <1>3 DEF MatchInv, Remembered, Stands
<1>5. QED
  BY <1>1, <1>2, <1>4 DEF Recorded

LEMMA LinkFoundKeeps ==
  ASSUME MatchInv, NEW m \in Searchers, NEW s \in Slots, LinkFound(m, s)
  PROVE  MatchInv'
<1>1. finding[m].file \in Files /\ Stands(s, PictureOf[finding[m].file])
  BY DEF LinkFound, MatchInv, Offered
<1>2. PICK f \in Files : f = finding[m].file
  BY <1>1
<1>3. /\ link' = [link EXCEPT ![s] = f] /\ byHand' = byHand \ {s}
      /\ finding' = [finding EXCEPT ![m].slot = {}, ![m].file = NoFile]
      /\ UNCHANGED <<chosen, shelf, written, published, choosing, rounds, changes>>
  BY <1>2 DEF LinkFound, library
<1>4. Recorded(s, f)
  BY <1>2 DEF LinkFound
<1>5. Remembered' /\ recorded' \in [Slots -> SUBSET Digests]
  BY <1>1, <1>2, <1>3, <1>4, RecordedKeeps DEF Stands
<1>6. MatchTypeOK'
  BY <1>3, <1>5, HandsFree DEF MatchInv, MatchTypeOK
<1>7. ExactOnly'
  BY <1>1, <1>2, <1>3 DEF MatchInv, MatchTypeOK, ExactOnly, Stands
<1>8. Offered'
  BY <1>3, HandsFree
<1>9. QED
  BY <1>3, <1>5, <1>6, <1>7, <1>8 DEF MatchInv, Picked, Changed

LEMMA FetchKeeps ==
  ASSUME MatchInv, NEW s \in Slots
  PROVE  Fetch(s) \/ LinkFetched(s) => MatchInv'
<1>1. FetchedAs[s] \in Files /\ Stands(s, PictureOf[FetchedAs[s]])
  BY MatchingAssumption DEF Stands
<1>2. ASSUME Fetch(s) PROVE MatchInv'
  <2>1. BytesOf(FetchedAs[s]) \in Digests /\ BytesOf(FetchedAs[s]).picture = PictureOf[s]
    BY <1>1, MatchingAssumption DEF MatchInv, MatchTypeOK, BytesOf, Digests, Pictures
  <2>2. /\ shelf' = [shelf EXCEPT ![FetchedAs[s]] = "here"]
        /\ recorded' = [recorded EXCEPT ![s] = @ \cup {BytesOf(FetchedAs[s])}]
        /\ finding' = [finding EXCEPT !["fetch"] =
             [todo |-> @.todo \ {s}, slot |-> {s}, file |-> FetchedAs[s]]]
        /\ UNCHANGED <<link, byHand, chosen, written, published, choosing, rounds, changes>>
    BY <1>2 DEF Fetch
  <2>3. MatchTypeOK'
    BY <1>1, <2>1, <2>2 DEF MatchInv, MatchTypeOK, Searchers
  <2>4. Offered'
    BY <1>1, <2>2 DEF MatchInv, MatchTypeOK, Offered, Stands, Searchers
  <2>5. Remembered'
    BY <2>1, <2>2 DEF MatchInv, MatchTypeOK, Remembered, Stands
  <2>6. QED
    BY <2>2, <2>3, <2>4, <2>5 DEF MatchInv, ExactOnly, Picked, Changed
<1>3. ASSUME LinkFetched(s) PROVE MatchInv'
  <2>1. /\ link' = [link EXCEPT ![s] = FetchedAs[s]] /\ byHand' = byHand \ {s}
        /\ finding' = [finding EXCEPT !["fetch"].slot = {}, !["fetch"].file = NoFile]
        /\ UNCHANGED <<chosen, shelf, written, recorded, published, choosing, rounds, changes>>
    BY <1>3 DEF LinkFetched, library
  <2>2. MatchTypeOK'
    BY <1>1, <2>1, HandsFree DEF MatchInv, MatchTypeOK, Searchers
  <2>3. ExactOnly'
    BY <1>1, <2>1 DEF MatchInv, MatchTypeOK, ExactOnly, Stands
  <2>4. Offered'
    BY <2>1, HandsFree DEF Searchers
  <2>5. QED
    BY <2>1, <2>2, <2>3, <2>4 DEF MatchInv, Remembered, Stands, Picked, Changed
<1>4. QED
  BY <1>2, <1>3

LEMMA LinkManualKeeps ==
  ASSUME MatchInv, NEW s \in Slots, LinkManual(s)
  PROVE  MatchInv'
<1>1. PICK f \in Files : f = choosing.file
  BY DEF LinkManual, MatchInv, Picked
<1>2. /\ choosing' = NoChoice
      /\ UNCHANGED <<shelf, written, published, finding, rounds, changes>>
  BY DEF LinkManual, library
<1>3. NoChoice \in [slot : SUBSET Slots, file : Files \cup {NoFile}] /\ NoChoice.slot = {}
  BY DEF NoChoice
<1>4. CASE UNCHANGED <<link, byHand, chosen, recorded>>
  BY <1>2, <1>3, <1>4
     DEF MatchInv, MatchTypeOK, ExactOnly, Remembered, Offered, Picked, Changed, Stands
<1>5. CASE /\ link' = [link EXCEPT ![s] = f] /\ byHand' = byHand \cup {s}
           /\ chosen' = [chosen EXCEPT ![s] = @ \cup {PictureOf[f]}]
           /\ Recorded(s, f)
  <2>1. PictureOf[f] \in Pictures /\ chosen \in [Slots -> SUBSET Pictures]
    BY DEF Pictures, MatchInv, MatchTypeOK
  <2>2. /\ \A t \in Slots : chosen[t] \subseteq chosen'[t]
        /\ PictureOf[f] \in chosen'[s] /\ chosen' \in [Slots -> SUBSET Pictures]
    BY <1>5, <2>1
  <2>3. Remembered' /\ recorded' \in [Slots -> SUBSET Digests]
    BY <1>5, <2>2, RecordedKeeps
  <2>4. MatchTypeOK'
    BY <1>2, <1>3, <1>5, <2>2, <2>3 DEF MatchInv, MatchTypeOK
  <2>5. ExactOnly'
    BY <1>5, <2>2 DEF MatchInv, MatchTypeOK, ExactOnly
  <2>6. Offered'
    BY <1>2, <2>2 DEF MatchInv, Offered, Stands
  <2>7. QED
    BY <1>2, <1>3, <2>3, <2>4, <2>5, <2>6 DEF MatchInv, Picked, Changed
<1>6. QED
  BY <1>1, <1>4, <1>5 DEF LinkManual

LEMMA AroundKeeps ==
  ASSUME MatchInv
  PROVE  /\ \A m \in Searchers : Begin(m) \/ GiveUp(m) => MatchInv'
         /\ \A s \in Slots, f \in Files : Choose(s, f) => MatchInv'
         /\ \A f \in Files : Rewritten(f) => MatchInv'
         /\ \A f \in Files, place \in {"none", "here", "missing", "trashed"} :
              Shelved(f, place) => MatchInv'
         /\ GoesPublic \/ UNCHANGED matchVars => MatchInv'
<1> USE MatchingAssumption DEF MatchInv, MatchTypeOK, library
<1>1. ASSUME NEW m \in Searchers, Begin(m) \/ GiveUp(m) PROVE MatchInv'
  <2>1. UNCHANGED <<link, byHand, chosen, shelf, written, recorded, published, choosing, changes>>
    BY <1>1 DEF Begin, GiveUp
  <2>2. /\ rounds' \in 0 .. MaxRounds
        /\ \/ finding' = [finding EXCEPT ![m].todo = Open] \/ finding' = [finding EXCEPT ![m] = Rest]
    BY <1>1 DEF Begin, GiveUp
  <2>3. /\ Offered'
        /\ finding' \in [Searchers -> [todo : SUBSET Slots, slot : SUBSET Slots,
                                       file : Files \cup {NoFile}]]
    BY <2>1, <2>2, HandsFree
  <2>4. QED
    BY <2>1, <2>2, <2>3 DEF ExactOnly, Remembered, Stands, Picked, Changed
<1>2. ASSUME NEW s \in Slots, NEW f \in Files, Choose(s, f) PROVE MatchInv'
  BY <1>2 DEF Choose, ExactOnly, Remembered, Offered, Stands, Picked, Changed
<1>3. ASSUME NEW f \in Files, Rewritten(f) PROVE MatchInv'
  <2>1. /\ changes < MaxChanges /\ changes' = changes + 1
        /\ written' = [written EXCEPT ![f] = @ + 1]
        /\ UNCHANGED <<link, byHand, chosen, shelf, recorded, published, finding, choosing, rounds>>
    BY <1>3 DEF Rewritten, Change
  <2>2. written' \in [Files -> 0 .. MaxChanges] /\ changes' \in 0 .. MaxChanges /\ Changed'
    BY <2>1 DEF Changed
  <2>3. QED
    BY <2>1, <2>2 DEF ExactOnly, Remembered, Offered, Stands, Picked
<1>4. ASSUME NEW f \in Files, NEW place \in {"none", "here", "missing", "trashed"},
             Shelved(f, place)
      PROVE  MatchInv'
  <2>1. /\ changes < MaxChanges /\ changes' = changes + 1
        /\ shelf' = [shelf EXCEPT ![f] = place]
        /\ link' = [s \in Slots |-> IF place = "none" /\ link[s] = f THEN NoFile ELSE link[s]]
        /\ byHand' = {s \in byHand : link'[s] # NoFile}
        /\ UNCHANGED <<chosen, written, recorded, published, finding, choosing, rounds>>
    BY <1>4 DEF Shelved, Change
  <2>2. MatchTypeOK'
    BY <2>1
  <2>3. ExactOnly'
    BY <2>1 DEF ExactOnly
  <2>4. QED
    BY <2>1, <2>2, <2>3 DEF Remembered, Offered, Stands, Picked, Changed
<1>5. ASSUME GoesPublic \/ UNCHANGED matchVars PROVE MatchInv'
  BY <1>5 DEF GoesPublic, matchVars, ExactOnly, Remembered, Offered, Stands, Picked, Changed
<1>6. QED
  BY <1>1, <1>2, <1>3, <1>4, <1>5

LEMMA MatchStep == MatchInv /\ [MatchNext]_matchVars => MatchInv'
  BY AroundKeeps, LookKeeps, LinkFoundKeeps, FetchKeeps, LinkManualKeeps DEF MatchNext

(* "can never turn a merely similar picture into an automatic link"        *)
(* (_local_by_exact): whatever searches, choices, fetches, edits of files  *)
(* and a history that remembers crossing, a linked file shows the pixels   *)
(* of CivitAI's image or of a picture the user chose for the tile.         *)
THEOREM OnlyExactLinks == MatchSpec => []ExactOnly
<1>1. MatchInv => ExactOnly
  BY DEF MatchInv
<1>2. QED
  BY <1>1, MatchStart, MatchStep, PTL DEF MatchSpec

-----------------------------------------------------------------------------
(* The tiles of a post (store.posts).                                      *)

(* A tile's upload key is that of its own picture, and the tiles of one    *)
(* picture have one key: the table there are, and those an edit has read.   *)
IsRow(r) == r = [id |-> r.id, pos |-> r.pos, pic |-> r.pic, key |-> r.key, rid |-> r.rid]
KeyOfPicture(table) ==
  /\ \A r \in table : IsRow(r) /\ (r.pic # NoPic => r.key \in {r.pic, NoPic})
  /\ \A r, q \in table : r.pic # NoPic /\ q.pic = r.pic => q.key = r.key

TilesInv == KeyOfPicture(tiles) /\ KeyOfPicture(editing.rows)

(* Rows made of others, with their keys.                                   *)
LEMMA KeysCarried ==
  ASSUME NEW table, KeyOfPicture(table), NEW new,
         \A q \in new : IsRow(q) /\ (q.pic # NoPic => \E r \in table : r.pic = q.pic /\ r.key = q.key)
  PROVE  /\ KeyOfPicture(new)
         /\ \A r \in table, q \in new : r.pic # NoPic /\ q.pic = r.pic => q.key = r.key
  BY DEF KeyOfPicture

(* What an edit writes is what it has read of each picture.                *)
LEMMA EditKeeps ==
  ASSUME NEW table, KeyOfPicture(table), NEW wish
  PROVE  /\ KeyOfPicture(Renumbered(table, wish))
         /\ \A q \in Renumbered(table, wish), r \in table :
              q.pic # NoPic /\ r.pic = q.pic => q.key = r.key
<1> DEFINE slots == SlotOrder(table, wish)
           Facts(x) == IF x \in Images THEN KeptFacts(x, table)
                       ELSE [pic |-> NoPic, key |-> x.key, rid |-> x.rid]
<1>1. Renumbered(table, wish) =
        {[id |-> i, pos |-> i - 1, pic |-> Facts(slots[i]).pic, key |-> Facts(slots[i]).key,
          rid |-> Facts(slots[i]).rid] : i \in DOMAIN slots}
  BY DEF Renumbered
<1> HIDE DEF slots
<1>2. ASSUME NEW pic
      PROVE  /\ KeptFacts(pic, table).pic = pic
             /\ \A r \in table : pic # NoPic /\ r.pic = pic => KeptFacts(pic, table).key = r.key
             /\ pic # NoPic => KeptFacts(pic, table).key \in {pic, NoPic}
  <2>1. CASE \E r \in table : r.pic = pic
    <3>1. PICK r : r = CHOOSE q \in table : q.pic = pic
      OBVIOUS
    <3>2. r \in table /\ r.pic = pic
      BY <2>1, <3>1
    <3>3. KeptFacts(pic, table) = [pic |-> pic, key |-> r.key, rid |-> r.rid]
      BY <2>1, <3>1 DEF KeptFacts
    <3>4. QED
      BY <3>2, <3>3 DEF KeyOfPicture
  <2>2. CASE ~ \E r \in table : r.pic = pic
    BY <2>2 DEF KeptFacts
  <2>3. QED
    BY <2>1, <2>2
<1>3. ASSUME NEW q \in Renumbered(table, wish)
      PROVE  IsRow(q) /\ (q.pic # NoPic => q.key = KeptFacts(q.pic, table).key)
  <2>1. PICK i \in DOMAIN slots :
          q = [id |-> i, pos |-> i - 1, pic |-> Facts(slots[i]).pic, key |-> Facts(slots[i]).key,
               rid |-> Facts(slots[i]).rid]
    BY <1>1
  <2>2. PICK x : x = slots[i]
    OBVIOUS
  <2>3. q.pic = Facts(x).pic /\ q.key = Facts(x).key /\ IsRow(q)
    BY <2>1, <2>2 DEF IsRow
  <2>4. CASE x \in Images
    <3>1. Facts(x) = KeptFacts(x, table)
      BY <2>4
    <3>2. q.pic = x
      BY <1>2, <2>3, <3>1
    <3>3. QED
      BY <2>3, <3>1, <3>2
  <2>5. CASE x \notin Images
    BY <2>3, <2>5
  <2>6. QED
    BY <2>4, <2>5
<1>4. QED
  BY <1>2, <1>3 DEF KeyOfPicture

LEMMA TilesStart == TilesInit => TilesInv
<1> SUFFICES ASSUME TilesInit PROVE TilesInv
  OBVIOUS
<1>1. PICK order \in Orders :
        tiles = {[id |-> i, pos |-> i - 1, pic |-> order[i], key |-> order[i], rid |-> NoPic]
                   : i \in DOMAIN order}
  BY DEF TilesInit
<1>2. \A r \in tiles : IsRow(r) /\ r.key = r.pic
  BY <1>1 DEF IsRow
<1>3. editing.rows = {}
  BY DEF TilesInit, NotEditing
<1>4. QED
  BY <1>2, <1>3 DEF TilesInv, KeyOfPicture

(* Each step carries the keys over, or brings a picture its own.           *)
LEMMA TilesStep ==
  ASSUME TilesInv, [TilesNext]_tilesVars
  PROVE  /\ TilesInv'
         /\ \A r \in tiles : \A q \in tiles' :
              r.pic # NoPic /\ q.pic = r.pic /\ r.key # NoPic /\ HadKey(r.pic) => q.key = r.key
<1> DEFINE KeyStays == \A r \in tiles : \A q \in tiles' :
                     r.pic # NoPic /\ q.pic = r.pic /\ r.key # NoPic /\ HadKey(r.pic) => q.key = r.key
<1>1. KeyOfPicture(tiles) /\ KeyOfPicture(editing.rows)
  BY DEF TilesInv
<1>2. ASSUME editing' = editing,
             \A q \in tiles' : IsRow(q) /\ (q.pic # NoPic => \E r \in tiles : r.pic = q.pic /\ r.key = q.key)
      PROVE  TilesInv' /\ KeyStays
  BY <1>1, <1>2, KeysCarried DEF TilesInv
<1>3. CASE tiles' = tiles
  <2>1. KeyStays
    BY <1>1, <1>3 DEF KeyOfPicture
  <2>2. editing'.rows \in {tiles, editing.rows, {}}
    <3>1. editing' = editing \/ EditWrite \/ \E wish \in Orders : EditRead(wish)
      BY DEF TilesNext, SetOrder, Attach, RemovedOnSite, SyncStep, GetEdit, ReadLocal, MapIds, AddTiles,
             tilesVars
    <3>2. EditWrite => editing'.rows = {}
      BY DEF EditWrite, NotEditing
    <3>3. ASSUME NEW wish \in Orders, EditRead(wish) PROVE editing'.rows = tiles
      BY <3>3 DEF EditRead
    <3>4. QED
      BY <3>1, <3>2, <3>3
  <2>3. KeyOfPicture({})
    BY DEF KeyOfPicture
  <2>4. QED
    BY <1>1, <1>3, <2>1, <2>2, <2>3 DEF TilesInv
<1>4. CASE EditWrite
  <2>1. tiles' = Renumbered(editing.rows, editing.wish) /\ editing'.rows = {} /\ editing.active
    BY <1>4 DEF EditWrite, NotEditing
  <2>2. TilesInv'
    BY <1>1, <2>1, EditKeeps DEF TilesInv, KeyOfPicture
  <2>3. KeyStays
    <3> SUFFICES ASSUME NEW r \in tiles, NEW q \in tiles', r.pic # NoPic, q.pic = r.pic,
                        r.key # NoPic, HadKey(r.pic)
                 PROVE  q.key = r.key
      OBVIOUS
    <3>1. PICK o \in editing.rows : o.pic = r.pic /\ o.key # NoPic
      BY <2>1 DEF HadKey
    <3>2. q.key = o.key
      BY <1>1, <2>1, <3>1, EditKeeps
    <3>3. o.key = o.pic /\ r.key = r.pic
      BY <1>1, <3>1 DEF KeyOfPicture
    <3>4. QED
      BY <3>1, <3>2, <3>3
  <2>4. QED
    BY <2>2, <2>3
<1>5. ASSUME NEW order \in RowOrders, SetOrder(order) PROVE TilesInv' /\ KeyStays
  <2>1. \A i \in DOMAIN order : order[i] \in {r.id : r \in tiles}
    BY DEF RowOrders, SeqOf
  <2>2. ASSUME NEW q \in tiles' PROVE IsRow(q) /\ \E r \in tiles : r.pic = q.pic /\ r.key = q.key
    <3>1. PICK i \in DOMAIN order : q = [(CHOOSE x \in tiles : x.id = order[i]) EXCEPT !.pos = i - 1]
      BY <1>5 DEF SetOrder
    <3>2. PICK r : r = CHOOSE x \in tiles : x.id = order[i]
      OBVIOUS
    <3>3. r \in tiles
      BY <2>1, <3>2
    <3>4. q = [r EXCEPT !.pos = i - 1]
      BY <3>1, <3>2
    <3>5. QED
      BY <1>1, <3>3, <3>4 DEF KeyOfPicture, IsRow
  <2>3. QED
    BY <1>2, <1>5, <2>2 DEF SetOrder
<1>6. CASE Attach
  <2>1. \A q \in tiles' : \E r \in tiles : q = IF r.key = NoPic THEN [r EXCEPT !.key = r.pic] ELSE r
    BY <1>6 DEF Attach
  <2>2. ASSUME NEW q \in tiles'
        PROVE  /\ IsRow(q) /\ (q.pic # NoPic => q.key = q.pic)
               /\ \E r \in tiles : r.pic = q.pic
    <3>1. PICK r \in tiles : q = IF r.key = NoPic THEN [r EXCEPT !.key = r.pic] ELSE r
      BY <2>1
    <3>2. CASE r.key = NoPic
      BY <1>1, <3>1, <3>2 DEF KeyOfPicture, IsRow
    <3>3. CASE r.key # NoPic
      BY <1>1, <3>1, <3>3 DEF KeyOfPicture
    <3>4. QED
      BY <3>2, <3>3
  <2>3. KeyOfPicture(tiles')
    BY <2>2 DEF KeyOfPicture
  <2>4. KeyStays
    BY <1>1, <2>2 DEF KeyOfPicture
  <2>5. QED
    BY <1>1, <1>6, <2>3, <2>4 DEF Attach, TilesInv
<1>7. ASSUME NEW s \in TileSyncs, MapIds(s) PROVE TilesInv' /\ KeyStays
  <2>1. ASSUME NEW q \in tiles' PROVE IsRow(q) /\ \E r \in tiles : r.pic = q.pic /\ r.key = q.key
    <3>1. PICK r \in tiles : q = Learned(r, local[s], seen[s])
      BY <1>7 DEF MapIds
    <3>2. \E rid : q = r \/ q = [r EXCEPT !.rid = rid]
      BY <3>1 DEF Learned
    <3>3. PICK rid : q = r \/ q = [r EXCEPT !.rid = rid]
      BY <3>2
    <3>4. QED
      BY <1>1, <3>3 DEF KeyOfPicture, IsRow
  <2>2. QED
    BY <1>2, <1>7, <2>1 DEF MapIds
<1>8. ASSUME NEW s \in TileSyncs, AddTiles(s) PROVE TilesInv' /\ KeyStays
  <2>1. ASSUME NEW q \in tiles' PROVE q \in tiles \/ (IsRow(q) /\ q.pic = NoPic)
    <3>1. PICK new : new = SetToSeq(seen[s] \ KnownBy(local[s]))
      OBVIOUS
    <3>2. PICK added : added = {[id |-> TopId + i, pos |-> TopPos(local[s]) + i, pic |-> NoPic,
                                 key |-> new[i], rid |-> new[i]] : i \in DOMAIN new}
      OBVIOUS
    <3>3. tiles' = tiles \/ tiles' = tiles \cup added
      BY <1>8, <3>1, <3>2 DEF AddTiles
    <3>4. \A x \in added : IsRow(x) /\ x.pic = NoPic
      BY <3>2 DEF IsRow
    <3>5. QED
      BY <3>3, <3>4
  <2>2. \A q \in tiles' : IsRow(q) /\ (q.pic # NoPic => \E r \in tiles : r.pic = q.pic /\ r.key = q.key)
    BY <1>1, <2>1 DEF KeyOfPicture
  <2>3. QED
    BY <1>2, <1>8, <2>2 DEF AddTiles
<1>9. tiles' = tiles \/ EditWrite \/ Attach \/ (\E order \in RowOrders : SetOrder(order))
      \/ \E s \in TileSyncs : MapIds(s) \/ AddTiles(s)
  BY DEF TilesNext, EditRead, RemovedOnSite, SyncStep, GetEdit, ReadLocal, tilesVars
<1>10. QED
  BY <1>3, <1>4, <1>5, <1>6, <1>7, <1>8, <1>9

THEOREM TilesInvariant == TilesSpec => []TilesInv
  BY TilesStart, TilesStep, PTL DEF TilesSpec

(* Adding or ordering pictures never makes the rest be uploaded again,     *)
(* whatever a sync does beside the edit (set_images).                      *)
THEOREM KeysAreKept == TilesSpec => KeysKept
<1>1. TilesInv /\ [TilesNext]_tilesVars =>
        [\A r \in tiles : \A q \in tiles' :
           r.pic # NoPic /\ q.pic = r.pic /\ r.key # NoPic /\ HadKey(r.pic)
             => q.key = r.key]_tilesVars
  BY TilesStep
<1>2. QED
  BY <1>1, TilesInvariant, PTL DEF TilesSpec, KeysKept

(* The types of the tiles.  A table is finite, its ids and its positions   *)
(* are unique, and a tile without a library image has an upload key.       *)
USE TilesAssumption

PostTable(table) ==
  /\ table \in SUBSET Row /\ IsFiniteSet(table)
  /\ \A r, q \in table : r # q => r.id # q.id /\ r.pos # q.pos
  /\ \A r \in table : r.pic = NoPic => r.key # NoPic
TilesTyped ==
  /\ TilesTypeOK /\ PostTable(tiles) /\ PostTable(editing.rows)
  /\ \A s \in TileSyncs : IsFiniteSet(local[s])

(* A table made of one row for each of finitely many things.               *)
LEMMA TableOfRows ==
  ASSUME NEW S, IsFiniteSet(S), NEW f \in [S -> Row],
         \A i, j \in S : i # j => f[i].id # f[j].id /\ f[i].pos # f[j].pos,
         \A i \in S : f[i].pic = NoPic => f[i].key # NoPic
  PROVE  PostTable({f[i] : i \in S})
<1> DEFINE T == {f[i] : i \in S}
<1>1. f \in Surjection(S, T)
  BY DEF Surjection
<1>2. IsFiniteSet(T)
  <2> HIDE DEF T
  <2>1. QED
    BY <1>1, FS_Surjection
<1>3. QED
  BY <1>2 DEF PostTable

(* A row with one of its fields written.                                   *)
LEMMA RowFields ==
  ASSUME NEW r \in Row
  PROVE  /\ \A pos \in Nat : [r EXCEPT !.pos = pos] \in Row /\ [r EXCEPT !.pos = pos].pos = pos
         /\ \A key \in KnownPics \cup {NoPic} : [r EXCEPT !.key = key] \in Row
         /\ \A rid \in KnownPics \cup {NoPic} : [r EXCEPT !.rid = rid] \in Row
  BY DEF Row

(* An order of some of the pictures is a sequence of images.               *)
LEMMA OrdersAreSequences ==
  ASSUME NEW wish \in Orders
  PROVE  wish \in Seq(Images) /\ Len(wish) \in Nat /\ DOMAIN wish = 1 .. Len(wish)
<1>1. PICK m \in 0 .. MaxTiles : wish \in [1 .. m -> Images]
  BY DEF Orders, SeqOf
<1>2. wish \in Seq(Images)
  BY <1>1, SeqDef
<1>3. QED
  BY <1>2

(* The slots of an edit hold pictures of the library and the rows that     *)
(* have none.                                                              *)
LEMMA SlotsHold ==
  ASSUME NEW table, PostTable(table), NEW wish \in Orders
  PROVE  SlotOrder(table, wish) \in Seq(Images \cup Unmatched(table))
<1> DEFINE seq == ByPos(table)
           n == Cardinality(table)
           X == Images \cup Unmatched(table)
           Matched(i) == Cardinality({j \in 1 .. i : seq[j].pic # NoPic})
           Slot(i) == IF seq[i].pic = NoPic THEN <<seq[i]>>
                      ELSE IF Matched(i) <= Len(wish) THEN <<wish[Matched(i)]>> ELSE <<>>
           used == Min({Len(wish), Cardinality(table \ Unmatched(table))})
           flat == [i \in 1 .. Len(seq) |-> Slot(i)]
<1>1. wish \in Seq(Images) /\ Len(wish) \in Nat /\ DOMAIN wish = 1 .. Len(wish)
  BY OrdersAreSequences
<1>2. n \in Nat
  BY FS_CardinalityType DEF PostTable
<1>3. seq \in Seq(table) /\ Len(seq) = n /\ seq \in [1 .. n -> table]
  <2> DEFINE R == {p \in table \X table : p[1].pos < p[2].pos}
  <2>1. \A x, y \in table : <<x, y>> \in R <=> x.pos < y.pos
    OBVIOUS
  <2>2. \A x \in table : x.pos \in Nat
    BY DEF PostTable, Row
  <2> HIDE DEF R
  <2>3. StrictOrder(R, table)
    BY <2>1, <2>2 DEF StrictOrder, PostTable
  <2>4. seq = Ordered(table, R)
    BY DEF ByPos, R
  <2> HIDE DEF seq
  <2>5. seq \in Seq(table) /\ Len(seq) = n
    BY <2>3, <2>4, OrderedFacts DEF PostTable
  <2>6. QED
    BY <2>5
<1>4. ASSUME NEW i \in 1 .. n PROVE Slot(i) \in Seq(X)
  <2>1. seq[i] \in table
    BY <1>3
  <2>2. CASE seq[i].pic = NoPic
    <3>1. seq[i] \in X
      BY <2>1, <2>2 DEF Unmatched
    <3>2. QED
      BY <2>2, <3>1
  <2>3. CASE seq[i].pic # NoPic
    <3> DEFINE M == {j \in 1 .. i : seq[j].pic # NoPic}
    <3>1. M \in SUBSET (1 .. i) /\ i \in M
      BY <2>3
    <3> HIDE DEF M
    <3>2. IsFiniteSet(M)
      <4>1. IsFiniteSet(1 .. i)
        BY <1>2, FS_Interval
      <4>2. QED
        BY <3>1, <4>1, FS_Subset
    <3>3. Cardinality(M) \in Nat /\ Cardinality(M) # 0
      BY <3>1, <3>2, FS_CardinalityType, FS_EmptySet
    <3>4. Matched(i) = Cardinality(M)
      BY DEF M
    <3>5. CASE Matched(i) <= Len(wish)
      <4>1. PICK x : x = wish[Matched(i)]
        OBVIOUS
      <4>2. x \in Images
        BY <1>1, <3>3, <3>4, <3>5, <4>1
      <4>3. Slot(i) = <<x>>
        BY <2>3, <3>5, <4>1
      <4> HIDE DEF Slot
      <4>4. QED
        BY <4>2, <4>3
    <3>6. CASE ~(Matched(i) <= Len(wish))
      BY <2>3, <3>6
    <3>7. QED
      BY <3>5, <3>6
  <2>4. QED
    BY <2>2, <2>3
<1>5. flat \in Seq(Seq(X))
  <2> HIDE DEF Slot, X, seq
  <2>1. flat \in [1 .. n -> Seq(X)]
    BY <1>3, <1>4
  <2>2. QED
    BY <1>2, <2>1, SeqDef
<1>6. FlattenSeq(flat) \in Seq(X)
  <2> HIDE DEF flat, X
  <2>1. QED
    BY <1>5, FlattenType
<1>7. used \in Nat
  <2> DEFINE c == Cardinality(table \ Unmatched(table))
  <2>1. table \ Unmatched(table) \in SUBSET table
    OBVIOUS
  <2>2. c \in Nat
    BY <2>1, FS_Subset, FS_CardinalityType DEF PostTable
  <2> HIDE DEF c
  <2>3. {Len(wish), c} \in SUBSET Nat /\ {Len(wish), c} # {}
    BY <1>1, <2>2
  <2>4. Min({Len(wish), c}) \in {Len(wish), c}
    BY <2>3, LeastOfSome
  <2>5. QED
    BY <2>3, <2>4 DEF c
<1>8. SubSeq(wish, used + 1, Len(wish)) \in Seq(X)
  <2> HIDE DEF used
  <2>1. wish \in Seq(X)
    <3>1. Images \subseteq X
      OBVIOUS
    <3> HIDE DEF X
    <3>2. QED
      BY <1>1, <3>1, SeqMonotonic
  <2> HIDE DEF X
  <2>2. used + 1 \in 1 .. Len(wish) + 1 \/ used + 1 > Len(wish)
    BY <1>1, <1>7
  <2>3. QED
    BY <1>1, <1>7, <2>1, <2>2
<1>9. SlotOrder(table, wish) = FlattenSeq(flat) \o SubSeq(wish, used + 1, Len(wish))
  BY DEF SlotOrder
<1> HIDE DEF flat, used, X
<1>10. SlotOrder(table, wish) \in Seq(X)
  BY <1>6, <1>8, <1>9
<1>11. QED
  BY <1>10 DEF X

(* What an edit writes is a table: each slot gives one row.                *)
LEMMA RenumberedIsTable ==
  ASSUME NEW table, PostTable(table), NEW wish \in Orders
  PROVE  PostTable(Renumbered(table, wish))
<1> DEFINE slots == SlotOrder(table, wish)
           S == DOMAIN slots
           Facts(x) == IF x \in Images THEN KeptFacts(x, table)
                       ELSE [pic |-> NoPic, key |-> x.key, rid |-> x.rid]
           f == [i \in S |-> [id |-> i, pos |-> i - 1, pic |-> Facts(slots[i]).pic,
                              key |-> Facts(slots[i]).key, rid |-> Facts(slots[i]).rid]]
<1>1. slots \in Seq(Images \cup Unmatched(table))
  BY SlotsHold
<1>2. Renumbered(table, wish) = {f[i] : i \in S}
  BY DEF Renumbered
<1>3. S = 1 .. Len(slots) /\ Len(slots) \in Nat
  <2> HIDE DEF slots
  <2>1. QED
    BY <1>1
<1>4. IsFiniteSet(S)
  BY <1>3, FS_Interval
<1>5. ASSUME NEW x \in Images
      PROVE  /\ KeptFacts(x, table).pic = x
             /\ KeptFacts(x, table).key \in KnownPics \cup {NoPic}
             /\ KeptFacts(x, table).rid \in KnownPics \cup {NoPic}
  <2>1. CASE \E r \in table : r.pic = x
    <3>1. PICK r : r = CHOOSE q \in table : q.pic = x
      OBVIOUS
    <3>2. r \in table
      BY <2>1, <3>1
    <3>3. r.key \in KnownPics \cup {NoPic} /\ r.rid \in KnownPics \cup {NoPic}
      BY <3>2 DEF PostTable, Row
    <3>4. KeptFacts(x, table) = [pic |-> x, key |-> r.key, rid |-> r.rid]
      BY <2>1, <3>1 DEF KeptFacts
    <3>5. QED
      BY <3>3, <3>4
  <2>2. CASE ~ \E r \in table : r.pic = x
    BY <2>2 DEF KeptFacts
  <2>3. QED
    BY <2>1, <2>2
<1>6. ASSUME NEW i \in S
      PROVE  f[i] \in Row /\ f[i].id = i /\ f[i].pos = i - 1 /\ (f[i].pic = NoPic => f[i].key # NoPic)
  <2>1. PICK x : x = slots[i]
    OBVIOUS
  <2>2. i \in Nat /\ i - 1 \in Nat /\ x \in Images \cup Unmatched(table)
    <3> HIDE DEF slots
    <3>1. QED
      BY <1>1, <1>3, <2>1
  <2>3. /\ Facts(x).pic \in Images \cup {NoPic}
        /\ Facts(x).key \in KnownPics \cup {NoPic} /\ Facts(x).rid \in KnownPics \cup {NoPic}
        /\ Facts(x).pic = NoPic => Facts(x).key # NoPic
    <3>1. CASE x \in Images
      BY <1>5, <3>1
    <3>2. CASE x \notin Images
      <4>1. x \in table /\ x.pic = NoPic
        BY <2>2, <3>2 DEF Unmatched
      <4>2. x.key \in KnownPics \cup {NoPic} /\ x.rid \in KnownPics \cup {NoPic} /\ x.key # NoPic
        BY <4>1 DEF PostTable, Row
      <4>3. QED
        BY <3>2, <4>2
    <3>3. QED
      BY <3>1, <3>2
  <2>4. f[i] = [id |-> i, pos |-> i - 1, pic |-> Facts(x).pic, key |-> Facts(x).key, rid |-> Facts(x).rid]
    BY <2>1
  <2> HIDE DEF Facts, f
  <2>5. QED
    BY <2>2, <2>3, <2>4 DEF Row
<1>7. f \in [S -> Row]
  <2>1. f = [i \in S |-> f[i]]
    OBVIOUS
  <2> HIDE DEF f, S
  <2>2. QED
    BY <1>6, <2>1
<1>8. \A i, j \in S : i # j => f[i].id # f[j].id /\ f[i].pos # f[j].pos
  <2> HIDE DEF f, slots
  <2>1. QED
    BY <1>3, <1>6
<1> HIDE DEF f, S
<1>9. PostTable({f[i] : i \in S})
  BY <1>4, <1>6, <1>7, <1>8, TableOfRows
<1>10. QED
  BY <1>2, <1>9

LEMMA TilesTypedStart == TilesInit => TilesTyped
<1> SUFFICES ASSUME TilesInit PROVE TilesTyped
  OBVIOUS
<1>1. PICK order \in Orders :
        tiles = {[id |-> i, pos |-> i - 1, pic |-> order[i], key |-> order[i], rid |-> NoPic]
                   : i \in DOMAIN order}
  BY DEF TilesInit
<1>2. order \in Seq(Images) /\ Len(order) \in Nat /\ DOMAIN order = 1 .. Len(order)
  BY OrdersAreSequences
<1> DEFINE S == DOMAIN order
           f == [i \in S |-> [id |-> i, pos |-> i - 1, pic |-> order[i], key |-> order[i], rid |-> NoPic]]
<1>3. IsFiniteSet(S)
  BY <1>2, FS_Interval
<1>4. ASSUME NEW i \in S
      PROVE  f[i] \in Row /\ f[i].id = i /\ f[i].pos = i - 1 /\ f[i].pic # NoPic
  <2>1. i \in Nat /\ i - 1 \in Nat /\ order[i] \in Images
    BY <1>2
  <2>2. f[i] = [id |-> i, pos |-> i - 1, pic |-> order[i], key |-> order[i], rid |-> NoPic]
    OBVIOUS
  <2> HIDE DEF f
  <2>3. QED
    BY <2>1, <2>2 DEF Row, KnownPics
<1>5. f \in [S -> Row]
  <2>1. f = [i \in S |-> f[i]]
    OBVIOUS
  <2> HIDE DEF f, S
  <2>2. QED
    BY <1>4, <2>1
<1>6. \A i, j \in S : i # j => f[i].id # f[j].id /\ f[i].pos # f[j].pos
  <2> HIDE DEF f
  <2>1. QED
    BY <1>2, <1>4
<1>7. tiles = {f[i] : i \in S}
  BY <1>1
<1> HIDE DEF f, S
<1>8. PostTable(tiles)
  BY <1>3, <1>4, <1>5, <1>6, <1>7, TableOfRows
<1>9. PostTable({}) /\ \A s \in TileSyncs : IsFiniteSet({})
  BY FS_EmptySet DEF PostTable
<1>10. <<>> \in Orders
  BY DEF Orders, SeqOf, IsInjective
<1>11. /\ editing = NotEditing /\ onSite = KnownPics /\ edits = 0 /\ syncs = 0
       /\ at = [s \in TileSyncs |-> "idle"]
       /\ seen = [s \in TileSyncs |-> {}] /\ local = [s \in TileSyncs |-> {}]
  BY DEF TilesInit, KnownPics
<1>12. editing.rows = {} /\ editing.active = FALSE /\ editing.wish = <<>>
  BY <1>11 DEF NotEditing
<1>13. TilesTypeOK
  <2>1. editing.rows \in SUBSET Row /\ editing.active \in BOOLEAN /\ editing.wish \in Orders
    BY <1>10, <1>12
  <2>2. /\ at \in [TileSyncs -> {"idle", "read", "map", "add"}]
        /\ seen \in [TileSyncs -> SUBSET KnownPics] /\ local \in [TileSyncs -> SUBSET Row]
    BY <1>11
  <2>3. onSite \in SUBSET KnownPics /\ edits \in 0 .. MaxEdits /\ syncs \in 0 .. MaxSyncs
    BY <1>11
  <2>4. QED
    BY <1>8, <2>1, <2>2, <2>3 DEF TilesTypeOK, PostTable
<1>14. QED
  BY <1>8, <1>9, <1>11, <1>12, <1>13 DEF TilesTyped

(* What an attach, a learned id or a new order writes is a table: one row  *)
(* for each.                                                               *)
LEMMA TilesTypedStep == TilesTyped /\ [TilesNext]_tilesVars => TilesTyped'
<1> SUFFICES ASSUME TilesTyped, [TilesNext]_tilesVars PROVE TilesTyped'
  OBVIOUS
<1>1. /\ PostTable(tiles) /\ PostTable(editing.rows) /\ editing.active \in BOOLEAN /\ editing.wish \in Orders
      /\ onSite \in SUBSET KnownPics
      /\ at \in [TileSyncs -> {"idle", "read", "map", "add"}]
      /\ seen \in [TileSyncs -> SUBSET KnownPics]
      /\ \A s \in TileSyncs : IsFiniteSet(local[s])
      /\ local \in [TileSyncs -> SUBSET Row]
      /\ edits \in 0 .. MaxEdits /\ syncs \in 0 .. MaxSyncs
  BY DEF TilesTyped, TilesTypeOK
<1> DEFINE Others == /\ editing' = editing /\ edits' \in 0 .. MaxEdits /\ syncs' = syncs
                   /\ UNCHANGED syncing
<1>2. ASSUME PostTable(tiles'), onSite' \in SUBSET KnownPics, Others PROVE TilesTyped'
  BY <1>1, <1>2 DEF TilesTyped, TilesTypeOK, PostTable, syncing
<1>3. ASSUME NEW wish \in Orders, EditRead(wish) PROVE TilesTyped'
  <2>1. /\ editing'.rows = tiles /\ editing'.active = TRUE /\ editing'.wish = wish
        /\ edits' \in 0 .. MaxEdits /\ UNCHANGED <<tiles, onSite, at, seen, local, syncs>>
    BY <1>1, <1>3 DEF EditRead, syncing
  <2>2. QED
    BY <1>1, <2>1 DEF TilesTyped, TilesTypeOK, PostTable
<1>4. ASSUME EditWrite PROVE TilesTyped'
  <2>1. /\ tiles' = Renumbered(editing.rows, editing.wish)
        /\ editing'.rows = {} /\ editing'.active = FALSE /\ editing'.wish = <<>>
        /\ UNCHANGED <<onSite, at, seen, local, edits, syncs>>
    BY <1>4 DEF EditWrite, NotEditing, syncing
  <2>2. PostTable(tiles')
    BY <1>1, <2>1, RenumberedIsTable
  <2>3. PostTable({}) /\ <<>> \in Orders
    BY FS_EmptySet DEF PostTable, Orders, SeqOf, IsInjective
  <2>4. QED
    BY <1>1, <2>1, <2>2, <2>3 DEF TilesTyped, TilesTypeOK, PostTable
<1>5. ASSUME NEW order \in RowOrders, SetOrder(order) PROVE TilesTyped'
  <2> DEFINE S == DOMAIN order
             Named(i) == CHOOSE r \in tiles : r.id = order[i]
             f == [i \in S |-> [Named(i) EXCEPT !.pos = i - 1]]
  <2>1. PICK m \in 0 .. MaxTiles + 1 : order \in [1 .. m -> {r.id : r \in tiles}]
    BY DEF RowOrders, SeqOf
  <2>2. S = 1 .. m /\ \A i, j \in S : order[i] = order[j] => i = j
    BY <2>1 DEF RowOrders, IsInjective
  <2>3. IsFiniteSet(S)
    BY <2>2, FS_Interval
  <2>4. ASSUME NEW i \in S
        PROVE f[i] \in Row /\ f[i].id = order[i] /\ f[i].pos = i - 1 /\ (f[i].pic = NoPic => f[i].key # NoPic)
    <3>1. PICK r : r = Named(i)
      OBVIOUS
    <3>2. r \in tiles /\ r.id = order[i]
      BY <2>1, <2>2, <3>1
    <3>3. r \in Row /\ i - 1 \in Nat /\ (r.pic = NoPic => r.key # NoPic)
      BY <1>1, <2>2, <3>2 DEF PostTable
    <3>4. f[i] = [r EXCEPT !.pos = i - 1]
      BY <3>1
    <3> HIDE DEF f, Named
    <3>5. QED
      BY <3>2, <3>3, <3>4 DEF Row
  <2>5. f \in [S -> Row]
    <3>1. f = [i \in S |-> f[i]]
      OBVIOUS
    <3> HIDE DEF f, S
    <3>2. QED
      BY <2>4, <3>1
  <2>6. \A i, j \in S : i # j => f[i].id # f[j].id /\ f[i].pos # f[j].pos
    <3> HIDE DEF f
    <3>1. QED
      BY <2>2, <2>4
  <2>7. tiles' = {f[i] : i \in S} /\ onSite' = onSite /\ Others
    BY <1>1, <1>5 DEF SetOrder
  <2> HIDE DEF f, S
  <2>8. PostTable(tiles')
    BY <2>3, <2>4, <2>5, <2>6, <2>7, TableOfRows
  <2>9. QED
    BY <1>1, <1>2, <2>7, <2>8
<1>6. ASSUME NEW f \in [tiles -> Row], tiles' = {f[r] : r \in tiles},
             \A r \in tiles : f[r].id = r.id /\ f[r].pos = r.pos /\ (f[r].pic = NoPic => f[r].key # NoPic)
      PROVE  PostTable(tiles')
  <2>1. \A i, j \in tiles : i # j => f[i].id # f[j].id /\ f[i].pos # f[j].pos
    BY <1>1, <1>6 DEF PostTable
  <2>2. IsFiniteSet(tiles)
    BY <1>1 DEF PostTable
  <2>3. PostTable({f[i] : i \in tiles})
    BY <1>6, <2>1, <2>2, TableOfRows
  <2>4. QED
    BY <1>6, <2>3
<1>7. ASSUME Attach PROVE TilesTyped'
  <2> DEFINE f == [r \in tiles |-> IF r.key = NoPic THEN [r EXCEPT !.key = r.pic] ELSE r]
  <2>1. /\ tiles' = {f[r] : r \in tiles}
        /\ onSite' = onSite \cup {r.pic : r \in {q \in tiles : q.key = NoPic}} /\ Others
    BY <1>1, <1>7 DEF Attach
  <2>2. ASSUME NEW r \in tiles
        PROVE  /\ f[r] \in Row /\ f[r].id = r.id /\ f[r].pos = r.pos
               /\ f[r].pic = NoPic => f[r].key # NoPic
               /\ r.key = NoPic => r.pic \in KnownPics
    <3>1. r \in Row /\ (r.pic = NoPic => r.key # NoPic)
      BY <1>1 DEF PostTable
    <3>2. CASE r.key = NoPic
      <4>1. r.pic \in KnownPics /\ r.pic # NoPic
        BY <3>1, <3>2 DEF Row, KnownPics
      <4>2. f[r] = [r EXCEPT !.key = r.pic]
        BY <3>2
      <4> HIDE DEF f
      <4>3. QED
        BY <3>1, <4>1, <4>2 DEF Row
    <3>3. CASE r.key # NoPic
      BY <3>1, <3>3
    <3>4. QED
      BY <3>2, <3>3
  <2>3. f \in [tiles -> Row]
    <3>1. f = [r \in tiles |-> f[r]]
      OBVIOUS
    <3> HIDE DEF f
    <3>2. QED
      BY <2>2, <3>1
  <2>4. onSite' \in SUBSET KnownPics
    BY <1>1, <2>1, <2>2
  <2> HIDE DEF f
  <2>5. PostTable(tiles')
    BY <1>6, <2>1, <2>2, <2>3
  <2>6. QED
    BY <1>2, <2>1, <2>4, <2>5
<1>8. ASSUME NEW pic \in KnownPics, RemovedOnSite(pic) PROVE TilesTyped'
  <2>1. tiles' = tiles /\ onSite' \in SUBSET KnownPics /\ Others
    BY <1>1, <1>8 DEF RemovedOnSite
  <2>2. QED
    BY <1>1, <1>2, <2>1
<1>9. ASSUME NEW s \in TileSyncs, GetEdit(s) \/ ReadLocal(s) PROVE TilesTyped'
  <2>1. /\ UNCHANGED <<tiles, onSite, editing, edits>> /\ syncs' \in 0 .. MaxSyncs
        /\ at' \in [TileSyncs -> {"idle", "read", "map", "add"}]
    BY <1>1, <1>9 DEF GetEdit, ReadLocal
  <2>2. seen' \in [TileSyncs -> SUBSET KnownPics]
    BY <1>1, <1>9 DEF GetEdit, ReadLocal
  <2>3. local' = local \/ local' = [local EXCEPT ![s] = tiles]
    BY <1>9 DEF GetEdit, ReadLocal
  <2>4. local' \in [TileSyncs -> SUBSET Row] /\ \A t \in TileSyncs : IsFiniteSet(local'[t])
    BY <1>1, <2>3 DEF PostTable
  <2>5. QED
    BY <1>1, <2>1, <2>2, <2>4 DEF TilesTyped, TilesTypeOK, PostTable
<1>10. ASSUME NEW s \in TileSyncs, MapIds(s) PROVE TilesTyped'
  <2> DEFINE f == [r \in tiles |-> Learned(r, local[s], seen[s])]
  <2>1. /\ tiles' = {f[r] : r \in tiles}
        /\ at' \in [TileSyncs -> {"idle", "read", "map", "add"}]
        /\ UNCHANGED <<onSite, editing, seen, local, edits, syncs>>
    BY <1>1, <1>10 DEF MapIds
  <2>2. ASSUME NEW r \in tiles
        PROVE  /\ f[r] \in Row /\ f[r].id = r.id /\ f[r].pos = r.pos
               /\ f[r].pic = NoPic => f[r].key # NoPic
    <3> DEFINE same == {q \in local[s] : q.id = r.id /\ Intended(q, seen[s]) # NoPic}
    <3>1. r \in Row /\ (r.pic = NoPic => r.key # NoPic)
      BY <1>1 DEF PostTable
    <3>2. CASE same = {}
      BY <3>1, <3>2 DEF Learned
    <3>3. CASE same # {}
      <4>1. PICK q \in same : q = CHOOSE o \in same : TRUE
        BY <3>3
      <4>2. q \in Row
        BY <1>1
      <4>3. PICK rid : rid = Intended(q, seen[s])
        OBVIOUS
      <4>4. rid \in KnownPics \cup {NoPic}
        BY <4>2, <4>3 DEF Intended, Row
      <4>5. f[r] = [r EXCEPT !.rid = rid]
        BY <3>3, <4>1, <4>3 DEF Learned
      <4> HIDE DEF f, same
      <4>6. QED
        BY <3>1, <4>4, <4>5 DEF Row
    <3>4. QED
      BY <3>2, <3>3
  <2>3. f \in [tiles -> Row]
    <3>1. f = [r \in tiles |-> f[r]]
      OBVIOUS
    <3> HIDE DEF f
    <3>2. QED
      BY <2>2, <3>1
  <2> HIDE DEF f
  <2>4. PostTable(tiles')
    BY <1>6, <2>1, <2>2, <2>3
  <2>5. QED
    BY <1>1, <2>1, <2>4 DEF TilesTyped, TilesTypeOK, PostTable
<1>11. ASSUME NEW s \in TileSyncs, AddTiles(s) PROVE TilesTyped'
  <2> DEFINE unknown == seen[s] \ KnownBy(local[s])
             new == SetToSeq(unknown)
             S == DOMAIN new
             f == [i \in S |-> [id |-> TopId + i, pos |-> TopPos(local[s]) + i, pic |-> NoPic,
                                key |-> new[i], rid |-> new[i]]]
             added == {f[i] : i \in S}
  <2>1. /\ tiles' = IF \E r \in added, q \in tiles : r.pos = q.pos THEN tiles ELSE tiles \cup added
        /\ UNCHANGED <<onSite, editing, edits, syncs>>
        /\ at' \in [TileSyncs -> {"idle", "read", "map", "add"}]
        /\ seen' \in [TileSyncs -> SUBSET KnownPics]
        /\ local' = [local EXCEPT ![s] = {}]
    <3>1. added = {[id |-> TopId + i, pos |-> TopPos(local[s]) + i, pic |-> NoPic,
                    key |-> new[i], rid |-> new[i]] : i \in DOMAIN new}
      OBVIOUS
    <3> HIDE DEF added, f
    <3>2. QED
      BY <1>1, <1>11, <3>1 DEF AddTiles
  <2>2. S = 1 .. Cardinality(unknown) /\ Cardinality(unknown) \in Nat /\ new \in [S -> unknown]
    <3>1. unknown \in SUBSET KnownPics /\ IsFiniteSet(KnownPics)
      BY <1>1, FS_Union DEF KnownPics
    <3> HIDE DEF unknown
    <3>2. Cardinality(unknown) \in Nat /\ ExistsBijection(1 .. Cardinality(unknown), unknown)
      BY <3>1, FS_Subset, FS_CardinalityType
    <3>3. PICK g \in [1 .. Cardinality(unknown) -> unknown] : IsInjective(g)
      BY <3>2 DEF ExistsBijection, Bijection, Injection, IsInjective
    <3>4. new \in [1 .. Cardinality(unknown) -> unknown]
      BY <3>3 DEF SetToSeq
    <3>5. QED
      BY <3>2, <3>4
  <2>3. TopId \in Nat /\ \A r \in tiles : r.id <= TopId
    <3> DEFINE ids == {r.id : r \in tiles}
    <3>1. [r \in tiles |-> r.id] \in Surjection(tiles, ids)
      BY DEF Surjection
    <3>2. IsFiniteSet(tiles) /\ ids \in SUBSET Nat
      BY <1>1 DEF PostTable, Row
    <3>3. TopId = Max(ids \cup {0})
      BY DEF TopId
    <3>4. \A r \in tiles : r.id \in ids
      OBVIOUS
    <3> HIDE DEF ids
    <3>5. IsFiniteSet(ids \cup {0})
      BY <3>1, <3>2, FS_Surjection, FS_AddElement
    <3>6. ids \cup {0} \in SUBSET Int /\ ids \cup {0} # {}
      BY <3>2
    <3> DEFINE T == ids \cup {0}
    <3>7. T \in SUBSET Int /\ T # {} /\ IsFiniteSet(T) /\ T \subseteq Nat
      BY <3>2, <3>5, <3>6
    <3> HIDE DEF T
    <3>8. Max(T) \in T /\ \A x \in T : x <= Max(T)
      BY <3>7, GreatestOfFinite
    <3>9. QED
      BY <3>3, <3>4, <3>7, <3>8 DEF T
  <2>4. TopPos(local[s]) \in Int /\ TopPos(local[s]) >= -1
    <3> DEFINE places == {r.pos : r \in local[s]}
    <3>1. [r \in local[s] |-> r.pos] \in Surjection(local[s], places)
      BY DEF Surjection
    <3>2. IsFiniteSet(local[s]) /\ places \in SUBSET Nat
      BY <1>1 DEF Row
    <3>3. TopPos(local[s]) = Max(places \cup {-1})
      BY DEF TopPos
    <3> HIDE DEF places
    <3>4. IsFiniteSet(places \cup {-1})
      BY <3>1, <3>2, FS_Surjection, FS_AddElement
    <3> DEFINE T == places \cup {-1}
    <3>5. T \in SUBSET Int /\ T # {} /\ IsFiniteSet(T) /\ -1 \in T
      BY <3>2, <3>4
    <3> HIDE DEF T
    <3>6. Max(T) \in T /\ \A x \in T : x <= Max(T)
      BY <3>5, GreatestOfFinite
    <3>7. QED
      BY <3>3, <3>5, <3>6 DEF T
  <2>5. ASSUME NEW i \in S
        PROVE  /\ f[i] \in Row /\ f[i].id = TopId + i /\ f[i].pos = TopPos(local[s]) + i
               /\ f[i].key # NoPic
    <3>1. PICK x : x = new[i]
      OBVIOUS
    <3>2. x \in KnownPics
      <4>1. unknown \subseteq KnownPics
        BY <1>1
      <4> HIDE DEF unknown, new
      <4>2. QED
        BY <2>2, <3>1, <4>1
    <3>3. x # NoPic
      BY <3>2 DEF KnownPics
    <3>4. i \in 1 .. Cardinality(unknown)
      BY <2>2
    <3>5. TopId + i \in Nat /\ TopPos(local[s]) + i \in Nat
      <4> HIDE DEF unknown
      <4>1. QED
        BY <2>2, <2>3, <2>4, <3>4
    <3>6. f[i] = [id |-> TopId + i, pos |-> TopPos(local[s]) + i, pic |-> NoPic, key |-> x, rid |-> x]
      BY <3>1
    <3> HIDE DEF f
    <3>7. QED
      BY <3>2, <3>3, <3>5, <3>6 DEF Row
  <2>6. f \in [S -> Row]
    <3>1. f = [i \in S |-> f[i]]
      OBVIOUS
    <3> HIDE DEF f, S
    <3>2. QED
      BY <2>5, <3>1
  <2> HIDE DEF f, new, unknown
  <2>7. \A i, j \in S : i # j => f[i].id # f[j].id /\ f[i].pos # f[j].pos
    BY <2>2, <2>3, <2>4, <2>5
  <2>8. IsFiniteSet(S)
    <3>1. PICK n \in Nat : n = Cardinality(unknown)
      BY <2>2
    <3>2. IsFiniteSet(1 .. n)
      BY FS_Interval
    <3>3. QED
      BY <2>2, <3>1, <3>2
  <2> HIDE DEF S
  <2>9. PostTable(added)
    BY <2>5, <2>6, <2>7, <2>8, TableOfRows
  <2>10. \A r \in added, q \in tiles : r.id # q.id
    <3>1. ASSUME NEW r \in added, NEW q \in tiles PROVE r.id # q.id
      <4>1. PICK i \in S : r = f[i]
        OBVIOUS
      <4>2. q.id \in Nat /\ q.id <= TopId
        BY <1>1, <2>3 DEF PostTable, Row
      <4>3. r.id = TopId + i /\ i \in Nat /\ i >= 1
        BY <2>2, <2>5, <4>1
      <4>4. QED
        BY <2>3, <4>2, <4>3
    <3>2. QED
      BY <3>1
  <2> HIDE DEF added
  <2>11. PostTable(tiles')
    <3>1. CASE \E r \in added, q \in tiles : r.pos = q.pos
      BY <1>1, <2>1, <3>1 DEF PostTable
    <3>2. CASE ~ \E r \in added, q \in tiles : r.pos = q.pos
      <4>1. tiles' = tiles \cup added
        BY <2>1, <3>2
      <4>2. IsFiniteSet(tiles \cup added)
        BY <1>1, <2>9, FS_Union DEF PostTable
      <4>3. QED
        BY <1>1, <2>9, <2>10, <3>2, <4>1, <4>2 DEF PostTable
    <3>3. QED
      BY <3>1, <3>2
  <2>12. local' \in [TileSyncs -> SUBSET Row] /\ \A t \in TileSyncs : IsFiniteSet(local'[t])
    BY <1>1, <2>1, FS_EmptySet
  <2>13. QED
    BY <1>1, <2>1, <2>11, <2>12 DEF TilesTyped, TilesTypeOK, PostTable
<1>12. ASSUME UNCHANGED tilesVars PROVE TilesTyped'
  <2>1. tiles' = tiles /\ onSite' = onSite /\ Others
    BY <1>1, <1>12 DEF tilesVars
  <2>2. QED
    BY <1>1, <1>2, <2>1
<1>13. QED
  BY <1>3, <1>4, <1>5, <1>7, <1>8, <1>9, <1>10, <1>11, <1>12 DEF TilesNext, SyncStep

(* The rows of a post are of their type: ids and positions are unique, and *)
(* only known pictures are on them (store.posts, posts.sync).              *)
THEOREM TilesTypes == TilesSpec => []TilesTyped
<1> QED
  BY TilesTypedStart, TilesTypedStep, PTL DEF TilesSpec

HIDE TilesAssumption

-----------------------------------------------------------------------------
(* Files and their rows (scanner, duplicates, archive, relocate).          *)

(* Where a row that is not in the trash may point, now and as a batch has  *)
(* read it; what a batch has moved and where to.                           *)
Placed(table) == \A r \in table : ~r.trashed => r.path \notin Bin
Fits(m, b) ==
  /\ Placed(b.todo) /\ Placed(b.row)
  /\ b.stage = "moved" => /\ b.row # {} /\ b.to \in Places
                          /\ IF m = "trash" THEN \A r \in b.row : ~r.trashed ELSE b.to \notin Bin
BatchesFit == \A m \in Movers : Fits(m, mover[m])

(* The file in the scan's hands.                                           *)
Reading ==
  /\ IF scan.stage = "store" THEN scan.cur \in Src /\ scan.read \in Pics ELSE scan.cur = Nothing
  /\ scan.stage = "end" => scan.todo = {}

(* What a scan has noted, as long as nobody disturbs it: each file it has  *)
(* passed has its row or could not be read; the rows it has seen have      *)
(* their files.                                                            *)
Accounted(p) ==
  p \in scan.bad \/ \E r \in At(p) : r.pic = disk[p] /\ ~r.missing /\ r.id \in scan.seen
Passed == \A p \in Src \ (scan.todo \cup {scan.cur}) : disk[p] # Nothing => Accounted(p)
SameAreThere == \A s \in scan.same : \E r \in rows : r.id = s[1] /\ r.path = s[2]
SeenHaveFiles ==
  \A r \in rows : r.id \in scan.seen =>
    r.path \in scan.bad \/ (~r.missing /\ disk[r.path] # Nothing)
InWork == scan.stage = "store" => scan.read = disk[scan.cur] /\ scan.old = {r.id : r \in At(scan.cur)}
CalmScan ==
  scan.calm /\ scan.stage \in {"walk", "store", "end"} =>
    Passed /\ SameAreThere /\ SeenHaveFiles /\ InWork

LibraryInv ==
  /\ LibraryTypeOK /\ Placed(rows) /\ BatchesFit /\ Reading /\ CalmScan /\ ScanAgrees

USE LibraryAssumption DEF Places

(* Rows with some fields written.                                          *)
MarkedRow(q) == [q EXCEPT !.missing = TRUE]

LEMMA RowMarked ==
  ASSUME NEW q \in ImageRow
  PROVE  /\ MarkedRow(q) \in ImageRow /\ MarkedRow(q).missing
         /\ MarkedRow(q).id = q.id /\ MarkedRow(q).path = q.path
         /\ MarkedRow(q).root = q.root /\ MarkedRow(q).trashed = q.trashed
<1>1. PICK yes \in BOOLEAN : yes = TRUE
  OBVIOUS
<1>2. MarkedRow(q) = [q EXCEPT !.missing = yes]
  BY <1>1 DEF MarkedRow
<1>3. \A x : x = [q EXCEPT !.missing = yes] =>
        /\ x \in ImageRow /\ x.id = q.id /\ x.path = q.path /\ x.root = q.root
        /\ x.trashed = q.trashed /\ x.missing = yes
  BY DEF ImageRow
<1>4. QED
  BY <1>1, <1>2, <1>3, Zenon

LEMMA RowSeen ==
  ASSUME NEW q \in ImageRow, NEW path \in Places
  PROVE  \A x : x = [q EXCEPT !.path = path] =>
           x \in ImageRow /\ x.id = q.id /\ x.path = path /\ x.trashed = q.trashed
  BY DEF ImageRow

ReadAgain(q, pic) == [q EXCEPT !.pic = pic, !.root = "src", !.missing = FALSE]

LEMMA RowRead ==
  ASSUME NEW q \in ImageRow, NEW pic \in Pics
  PROVE  \A x : x = ReadAgain(q, pic) =>
           /\ x \in ImageRow /\ x.id = q.id /\ x.path = q.path /\ x.pic = pic
           /\ x.trashed = q.trashed /\ ~x.missing
<1>1. PICK no \in BOOLEAN : no = FALSE
  OBVIOUS
<1>2. \A x : x = [q EXCEPT !.pic = pic, !.root = "src", !.missing = no] =>
           /\ x \in ImageRow /\ x.id = q.id /\ x.path = q.path /\ x.pic = pic
           /\ x.trashed = q.trashed /\ x.missing = no
  BY DEF ImageRow
<1>3. ReadAgain(q, pic) = [q EXCEPT !.pic = pic, !.root = "src", !.missing = no]
  BY <1>1 DEF ReadAgain
<1>4. QED
  BY <1>1, <1>2, <1>3, Zenon

LEMMA RowRepointed ==
  ASSUME NEW q \in ImageRow, NEW m \in Movers, NEW from \in Places, NEW to \in Places,
         m = "trash" => from \notin Bin
  PROVE  \A x : x = Repointed(m, q, from, to) =>
           x \in ImageRow /\ x.id = q.id /\ x.path = to /\ (m = "trash" => x.trashed)
<1>1. PICK yes \in BOOLEAN : yes = TRUE
  OBVIOUS
<1>2. PICK no \in BOOLEAN : no = FALSE
  OBVIOUS
<1>3. CASE m = "trash"
  <2>1. from \in Src \cup Vault \cup {Nothing}
    BY <1>3
  <2>2. \A x : x = [q EXCEPT !.path = to, !.missing = no, !.trashed = yes, !.orig = from] =>
           x \in ImageRow /\ x.id = q.id /\ x.path = to /\ x.trashed = yes
    BY <2>1 DEF ImageRow
  <2>3. Repointed(m, q, from, to) =
          [q EXCEPT !.path = to, !.missing = no, !.trashed = yes, !.orig = from]
    BY <1>1, <1>2, <1>3, Zenon DEF Repointed
  <2>4. QED
    BY <1>1, <2>2, <2>3, Zenon
<1>4. CASE m = "archive"
  <2>1. PICK archive \in {"src", "vault"} : archive = "vault"
    OBVIOUS
  <2>2. \A x : x = [q EXCEPT !.path = to, !.missing = no, !.trashed = no, !.orig = Nothing,
                             !.root = archive] =>
           x \in ImageRow /\ x.id = q.id /\ x.path = to
    BY DEF ImageRow
  <2>3. Repointed(m, q, from, to) =
          [q EXCEPT !.path = to, !.missing = no, !.trashed = no, !.orig = Nothing, !.root = archive]
    BY <1>2, <1>4, <2>1 DEF Repointed
  <2>4. QED
    BY <1>4, <2>2, <2>3, Zenon
<1>5. CASE m = "restore"
  <2>1. \A x : x = [q EXCEPT !.path = to, !.missing = no, !.trashed = no, !.orig = Nothing] =>
           x \in ImageRow /\ x.id = q.id /\ x.path = to
    BY DEF ImageRow
  <2>2. Repointed(m, q, from, to) =
          [q EXCEPT !.path = to, !.missing = no, !.trashed = no, !.orig = Nothing]
    BY <1>2, <1>5 DEF Repointed
  <2>3. QED
    BY <1>5, <2>1, <2>2, Zenon
<1>6. QED
  BY <1>3, <1>4, <1>5 DEF Movers

(* A table of rows with the ids that posts hold.                           *)
Table(table, ids) ==
  /\ table \in SUBSET ImageRow /\ Placed(table)
  /\ \A r, q \in table : r # q => r.id # q.id /\ r.path # q.path
  /\ ids \subseteq {r.id : r \in table}

LEMMA SmallerTable ==
  ASSUME NEW table, NEW ids, Table(table, ids), NEW gone \in SUBSET table
  PROVE  Table(table \ gone, ids \ {r.id : r \in gone})
  BY DEF Table, Placed

(* What reconciling does to a table.                                       *)
LEMMA MarkedTable ==
  ASSUME NEW table, NEW ids, Table(table, ids), NEW lost \in SUBSET table, NEW gone,
         gone = {r \in lost : r.id \notin ids}, NEW new,
         new = {IF r \in lost THEN MarkedRow(r) ELSE r : r \in table \ gone},
         NEW left, left = ids \ {r.id : r \in gone}
  PROVE  Table(new, left)
<1>1. \A r \in table : /\ r \in ImageRow /\ MarkedRow(r) \in ImageRow /\ MarkedRow(r).id = r.id
                       /\ MarkedRow(r).path = r.path /\ MarkedRow(r).trashed = r.trashed
  BY RowMarked DEF Table
<1>2. new \in SUBSET ImageRow /\ Placed(new)
  BY <1>1 DEF Table, Placed
<1>3. \A x, y \in new : x # y => x.id # y.id /\ x.path # y.path
  <2>1. SUFFICES ASSUME NEW x \in new, NEW y \in new, x.id = y.id \/ x.path = y.path
                 PROVE  x = y
    OBVIOUS
  <2>2. PICK r \in table \ gone : x = IF r \in lost THEN MarkedRow(r) ELSE r
    OBVIOUS
  <2>3. PICK q \in table \ gone : y = IF q \in lost THEN MarkedRow(q) ELSE q
    OBVIOUS
  <2>4. x.id = r.id /\ x.path = r.path /\ y.id = q.id /\ y.path = q.path
    BY <1>1, <2>2, <2>3
  <2>5. r = q
    BY <2>1, <2>4 DEF Table
  <2>6. QED
    BY <2>2, <2>3, <2>5
<1>4. left \subseteq {x.id : x \in new}
  <2>1. SUFFICES ASSUME NEW i \in left PROVE \E x \in new : x.id = i
    OBVIOUS
  <2>2. PICK r \in table : r.id = i /\ r \notin gone
    BY DEF Table
  <2>3. (IF r \in lost THEN MarkedRow(r) ELSE r) \in new
    BY <2>2
  <2>4. QED
    BY <1>1, <2>2, <2>3
<1>5. QED
  BY <1>2, <1>3, <1>4 DEF Table

(* What everything but the table keeps true: the scan's and the moves'.    *)
ScanFine == scan \in ScanJob /\ Reading /\ CalmScan /\ ScanAgrees
MoversFine == mover \in [Movers -> MoveJob] /\ BatchesFit

Whole ==
  /\ disk \in [Places -> Pics \cup {Nothing}]
  /\ Table(rows, held) /\ ScanFine /\ MoversFine
  /\ doomed \in [todo : SUBSET ImageRow, row : SUBSET ImageRow]
  /\ suspects \subseteq 1 .. MaxId
  /\ scans \in 0 .. MaxScans /\ batches \in 0 .. MaxBatches

LEMMA Parts == (LibraryInv <=> Whole) /\ (LibraryInv' <=> Whole')
  BY DEF LibraryInv, LibraryTypeOK, Table, ScanFine, MoversFine, Whole

(* Somebody else has touched a file or a row.                              *)
LEMMA DisturbedFine ==
  ASSUME ScanFine, scan' = Disturbed
  PROVE  ScanFine'
<1>1. PICK no \in BOOLEAN : no = FALSE
  OBVIOUS
<1>2. scan' = [scan EXCEPT !.calm = no]
  BY <1>1 DEF Disturbed
<1>3. /\ scan' \in ScanJob /\ scan'.calm = no /\ scan'.stage = scan.stage /\ scan'.cur = scan.cur
      /\ scan'.read = scan.read /\ scan'.todo = scan.todo
  BY <1>2 DEF ScanFine, ScanJob
<1>4. Reading'
  BY <1>3 DEF ScanFine, Reading
<1>5. QED
  BY <1>1, <1>3, <1>4 DEF ScanFine, CalmScan, ScanAgrees

LEMMA IdleFine == scan' = Idle => ScanFine'
<1> SUFFICES ASSUME scan' = Idle PROVE ScanFine'
  OBVIOUS
<1>1. /\ scan'.stage = "off" /\ scan'.cur = Nothing /\ scan'.todo = {} /\ ~scan'.calm
  BY DEF Idle
<1>2. scan' \in ScanJob
  BY DEF Idle, ScanJob
<1>3. QED
  BY <1>1, <1>2 DEF ScanFine, Reading, CalmScan, ScanAgrees

(* Nothing that a scan looks at has changed.                               *)
LEMMA UnseenFine ==
  ASSUME ScanFine, UNCHANGED <<disk, rows, held, scan>>
  PROVE  ScanFine'
  BY DEF ScanFine, Reading, CalmScan, ScanAgrees, Passed, Accounted, SameAreThere, SeenHaveFiles,
         InWork, At

LEMMA MoverFine ==
  ASSUME MoversFine, NEW m \in Movers, NEW b \in MoveJob, Fits(m, b), mover' = [mover EXCEPT ![m] = b]
  PROVE  MoversFine'
<1>1. mover' \in [Movers -> MoveJob] /\ \A n \in Movers : mover'[n] = IF n = m THEN b ELSE mover[n]
  BY DEF MoversFine
<1>2. QED
  BY <1>1 DEF MoversFine, BatchesFit

LEMMA RestFine == (mover' = mover /\ MoversFine) => MoversFine'
  BY DEF MoversFine, BatchesFit

LEMMA NoBatchFine == NoBatch \in MoveJob /\ \A m \in Movers : Fits(m, NoBatch)
  BY DEF NoBatch, MoveJob, Fits, Placed

-----------------------------------------------------------------------------
(* The scan's steps. *)

LEMMA ScanStartKeeps ==
  ASSUME Whole, NEW reconcile \in BOOLEAN, ScanStart(reconcile)
  PROVE  Whole'
<1> USE DEF Whole
<1>1. VanishedTrashed \in SUBSET rows
  BY DEF VanishedTrashed
<1>2. Table(rows', held')
  BY <1>1, SmallerTable DEF ScanStart, Drop
<1>3. PICK yes \in BOOLEAN : yes = TRUE
  OBVIOUS
<1>4. scan' = [stage |-> "walk", todo |-> Src, seen |-> {}, same |-> {}, cur |-> Nothing, old |-> {},
               read |-> Nothing, bad |-> {}, reconcile |-> reconcile, calm |-> yes]
  <2>1. PICK i : i = Idle
    OBVIOUS
  <2>2. scan' = [i EXCEPT !.stage = "walk", !.todo = Src, !.reconcile = reconcile, !.calm = yes]
    BY <1>3, <2>1 DEF ScanStart
  <2>3. PICK no \in BOOLEAN : no = FALSE
    OBVIOUS
  <2>4. i = [stage |-> "off", todo |-> {}, seen |-> {}, same |-> {}, cur |-> Nothing, old |-> {},
             read |-> Nothing, bad |-> {}, reconcile |-> no, calm |-> no]
    BY <2>1, <2>3 DEF Idle
  <2>5. QED
    BY <2>2, <2>4
<1>5. /\ scan' \in ScanJob /\ scan'.stage = "walk" /\ scan'.cur = Nothing /\ scan'.seen = {}
      /\ scan'.same = {} /\ scan'.todo = Src
  BY <1>4 DEF ScanJob
<1>6. ScanFine'
  BY <1>5 DEF ScanFine, Reading, CalmScan, ScanAgrees, Passed, SameAreThere, SeenHaveFiles, InWork
<1>7. MoversFine' /\ scans' \in 0 .. MaxScans
  BY RestFine DEF ScanStart
<1>8. QED
  BY <1>2, <1>6, <1>7 DEF ScanStart

LEMMA ScanReadKeeps ==
  ASSUME Whole, NEW p \in Src, ScanRead(p)
  PROVE  Whole'
<1> USE DEF Whole
<1> DEFINE old == {r.id : r \in At(p)}
<1>1. /\ scan.stage = "walk" /\ p \in scan.todo /\ scan.cur = Nothing
      /\ UNCHANGED <<disk, rows, held, mover, doomed, suspects, scans, batches>>
  BY DEF ScanRead, ScanFine, Reading
<1>2. PICK next : next = [scan EXCEPT !.todo = @ \ {p}]
  OBVIOUS
<1>3. /\ next \in ScanJob /\ next.stage = "walk" /\ next.todo = scan.todo \ {p}
      /\ next.seen = scan.seen /\ next.same = scan.same /\ next.cur = Nothing
      /\ next.bad = scan.bad /\ next.reconcile = scan.reconcile /\ next.calm = scan.calm
  BY <1>1, <1>2 DEF ScanFine, ScanJob
<1>4. old \in SUBSET (1 .. MaxId) /\ \A r \in At(p), q \in rows : q.id = r.id => q = r
  BY DEF Table, At, ImageRow
<1>5. scan' = IF disk[p] = Nothing THEN next
              ELSE IF Unchanged(p)
              THEN [next EXCEPT !.seen = @ \cup old, !.same = @ \cup {<<i, p>> : i \in old}]
              ELSE [next EXCEPT !.stage = "store", !.cur = p, !.old = old, !.read = disk[p]]
  BY <1>2 DEF ScanRead
<1> HIDE DEF old
<1>6. ScanFine'
  <2>1. CASE disk[p] = Nothing
    <3>1. scan' = next
      BY <1>5, <2>1
    <3>2. scan' \in ScanJob /\ Reading' /\ ScanAgrees'
      BY <3>1, <1>3 DEF Reading, ScanAgrees
    <3>3. CalmScan'
      BY <3>1, <1>1, <1>3, <2>1 DEF ScanFine, CalmScan, Passed, Accounted, SameAreThere,
        SeenHaveFiles, InWork, At
    <3>4. QED
      BY <3>2, <3>3 DEF ScanFine
  <2>2. CASE disk[p] # Nothing /\ Unchanged(p)
    <3>1. scan' = [next EXCEPT !.seen = @ \cup old, !.same = @ \cup {<<i, p>> : i \in old}]
      BY <1>5, <2>2
    <3>2. {<<i, p>> : i \in old} \in SUBSET ((1 .. MaxId) \X Src)
      <4>1. old \subseteq 1 .. MaxId /\ p \in Src
        BY <1>4
      <4>2. QED
        BY ONLY <4>1
    <3>3. /\ scan' \in ScanJob /\ scan'.stage = "walk" /\ scan'.todo = scan.todo \ {p}
          /\ scan'.seen = scan.seen \cup old /\ scan'.same = scan.same \cup {<<i, p>> : i \in old}
          /\ scan'.cur = Nothing /\ scan'.bad = scan.bad /\ scan'.calm = scan.calm
      BY <3>1, <3>2, <1>3, <1>4 DEF ScanJob
    <3>4. Reading' /\ ScanAgrees'
      BY <3>3 DEF Reading, ScanAgrees
    <3>5. PICK r \in At(p) : ~r.missing /\ r.pic = disk[p]
      BY <2>2 DEF Unchanged
    <3>6. r \in rows /\ r.path = p /\ At(p) = {r} /\ old = {r.id}
      BY <3>5 DEF At, Table, old
    <3>7. ASSUME scan'.calm PROVE Passed' /\ SameAreThere' /\ SeenHaveFiles'
      <4>1. Passed /\ SameAreThere /\ SeenHaveFiles
        BY <1>1, <3>3, <3>7 DEF ScanFine, CalmScan
      <4>2. Passed'
        BY <4>1, <1>1, <3>3, <3>5, <3>6 DEF Passed, Accounted, At
      <4>3. SameAreThere'
        BY <4>1, <1>1, <3>3, <3>6 DEF SameAreThere
      <4>4. SeenHaveFiles'
        BY <4>1, <1>1, <1>4, <2>2, <3>3, <3>5, <3>6 DEF SeenHaveFiles
      <4>5. QED
        BY <4>2, <4>3, <4>4
    <3>8. QED
      BY <3>3, <3>4, <3>7 DEF ScanFine, CalmScan, InWork
  <2>3. CASE disk[p] # Nothing /\ ~Unchanged(p)
    <3>1. scan' = [next EXCEPT !.stage = "store", !.cur = p, !.old = old, !.read = disk[p]]
      BY <1>5, <2>3
    <3>2. disk[p] \in Pics
      BY <2>3
    <3>3. /\ scan' \in ScanJob /\ scan'.stage = "store" /\ scan'.todo = scan.todo \ {p}
          /\ scan'.seen = scan.seen /\ scan'.same = scan.same
          /\ scan'.cur = p /\ scan'.bad = scan.bad /\ scan'.calm = scan.calm
          /\ scan'.old = old /\ scan'.read = disk[p]
      BY <3>1, <3>2, <1>3, <1>4 DEF ScanJob
    <3>4. Reading' /\ ScanAgrees' /\ InWork'
      BY <1>1, <3>2, <3>3 DEF Reading, ScanAgrees, InWork, At, old
    <3>5. CalmScan'
      BY <3>3, <3>4, <1>1 DEF ScanFine, CalmScan, Passed, Accounted, SameAreThere,
        SeenHaveFiles, At
    <3>6. QED
      BY <3>3, <3>4, <3>5 DEF ScanFine
  <2>4. QED
    BY <2>1, <2>2, <2>3
<1>7. Table(rows', held') /\ MoversFine'
  BY <1>1, RestFine
<1>8. QED
  BY <1>1, <1>6, <1>7

(* On with the walk. *)
LEMMA WalkOnFields ==
  ASSUME scan \in ScanJob, NEW ids \in SUBSET (1 .. MaxId), NEW bad \in SUBSET Src, WalkOn(ids, bad)
  PROVE  /\ scan' \in ScanJob /\ scan'.stage = "walk" /\ scan'.todo = scan.todo
         /\ scan'.seen = scan.seen \cup ids /\ scan'.bad = scan.bad \cup bad
         /\ scan'.same = scan.same /\ scan'.cur = Nothing /\ scan'.calm = scan.calm
  BY DEF WalkOn, ScanJob

LEMMA ScanFailsKeeps ==
  ASSUME Whole, ScanFails
  PROVE  Whole'
<1> USE DEF Whole
<1>1. /\ scan.stage = "store" /\ scan.cur \in Src /\ WalkOn(scan.old, {scan.cur})
      /\ scan \in ScanJob /\ scan.old \in SUBSET (1 .. MaxId) /\ {scan.cur} \in SUBSET Src
      /\ UNCHANGED <<disk, rows, held, mover, doomed, suspects, scans, batches>>
  BY DEF ScanFails, ScanFine, Reading, ScanJob
<1>2. /\ scan' \in ScanJob /\ scan'.stage = "walk" /\ scan'.todo = scan.todo
      /\ scan'.seen = scan.seen \cup scan.old /\ scan'.bad = scan.bad \cup {scan.cur}
      /\ scan'.same = scan.same /\ scan'.cur = Nothing /\ scan'.calm = scan.calm
  BY <1>1, WalkOnFields
<1>3. Reading' /\ ScanAgrees'
  BY <1>2 DEF Reading, ScanAgrees
<1>4. ASSUME scan'.calm PROVE Passed' /\ SameAreThere' /\ SeenHaveFiles'
  <2>1. Passed /\ SameAreThere /\ SeenHaveFiles /\ scan.old = {r.id : r \in At(scan.cur)}
    BY <1>1, <1>2, <1>4 DEF ScanFine, CalmScan, InWork
  <2>2. Passed'
    BY <2>1, <1>1, <1>2 DEF Passed, Accounted, At
  <2>3. SameAreThere'
    BY <2>1, <1>1, <1>2 DEF SameAreThere
  <2>4. \A r \in rows : r.id \in scan.old => r.path = scan.cur
    BY <2>1 DEF At, Table
  <2>5. SeenHaveFiles'
    BY <2>1, <2>4, <1>1, <1>2 DEF SeenHaveFiles
  <2>6. QED
    BY <2>2, <2>3, <2>5
<1>5. ScanFine'
  BY <1>2, <1>3, <1>4 DEF ScanFine, CalmScan, InWork
<1>6. QED
  BY <1>1, <1>5, RestFine

LEMMA NextIdIsNew ==
  ASSUME Table(rows, held)
  PROVE  NextId \in Nat \ {0} /\ \A r \in rows : r.id < NextId
<1>1. {r.id : r \in rows} \cup {0} \in SUBSET (0 .. MaxId) /\ {r.id : r \in rows} \cup {0} # {}
  BY DEF Table, ImageRow
<1>2. PICK top : top = Max({r.id : r \in rows} \cup {0})
  OBVIOUS
<1>3. /\ top \in {r.id : r \in rows} \cup {0}
      /\ \A x \in {r.id : r \in rows} \cup {0} : x <= top
  BY <1>1, <1>2, GreatestOfBounded
<1>4. top \in 0 .. MaxId /\ \A r \in rows : r.id \in Nat /\ r.id <= top
  BY <1>1, <1>3 DEF Table, ImageRow
<1>5. NextId = top + 1
  BY <1>2 DEF NextId
<1>6. QED
  BY <1>4, <1>5

(* The row of the file in the scan's hands: there is one afterwards, of    *)
(* the file that was read, and the other rows stay.                        *)
LEMMA UpsertedRow ==
  ASSUME Table(rows, held), NEW p \in Src, NEW pic \in Pics, scan.cur = p, scan.read = pic,
         At(p) # {} \/ NextId <= MaxId
  PROVE  \E x \in ImageRow :
           /\ Upserted = {x} /\ x.path = p /\ x.pic = pic /\ ~x.missing
           /\ \A r \in At(p) : r.id = x.id /\ (~x.trashed => ~r.trashed)
           /\ \A q \in rows \ At(p) : q.id # x.id
<1>1. CASE At(p) # {}
  <2>1. PICK r \in At(p) : TRUE
    BY <1>1
  <2>2. At(p) = {r} /\ r \in ImageRow /\ r.path = p /\ \A q \in rows \ {r} : q.id # r.id
    BY <2>1 DEF At, Table
  <2>3. PICK x : x = ReadAgain(r, pic)
    OBVIOUS
  <2>4. /\ x \in ImageRow /\ x.id = r.id /\ x.path = r.path /\ x.pic = pic
        /\ x.trashed = r.trashed /\ ~x.missing
    <3>1. r \in ImageRow
      BY <2>2
    <3>2. QED
      BY <3>1, <2>3, RowRead
  <2>5. Upserted = {x}
    <3>1. Upserted = {[q EXCEPT !.pic = pic, !.root = "src", !.missing = FALSE] : q \in At(p)}
      BY <1>1 DEF Upserted
    <3>2. Upserted = {ReadAgain(q, pic) : q \in At(p)}
      BY <3>1 DEF ReadAgain
    <3>3. QED
      BY <2>2, <2>3, <3>2
  <2>6. QED
    BY <2>2, <2>4, <2>5
<1>2. CASE At(p) = {}
  <2>1. PICK no \in BOOLEAN : no = FALSE
    OBVIOUS
  <2>2. PICK x : x = [id |-> NextId, path |-> p, pic |-> pic, root |-> "src",
                      missing |-> no, trashed |-> no, orig |-> Nothing]
    OBVIOUS
  <2>3. NextId \in 1 .. MaxId /\ \A r \in rows : r.id # NextId
    <3>1. NextId \in Nat \ {0} /\ \A r \in rows : r.id \in 1 .. MaxId /\ r.id < NextId
      BY NextIdIsNew DEF Table, ImageRow
    <3>2. QED
      BY <1>2, <3>1
  <2>4. x \in ImageRow /\ x.id = NextId /\ x.path = p /\ x.pic = pic /\ x.missing = no
    BY <2>2, <2>3 DEF ImageRow
  <2>5. Upserted = {x}
    BY <1>2, <2>1, <2>2 DEF Upserted
  <2>6. QED
    BY <1>2, <2>1, <2>3, <2>4, <2>5
<1>3. QED
  BY <1>1, <1>2

LEMMA ScanStoreKeeps ==
  ASSUME Whole, ScanStore
  PROVE  Whole'
<1> USE DEF Whole
<1>1. PICK p \in Src : scan.cur = p /\ scan.stage = "store"
  BY DEF ScanStore, ScanFine, Reading
<1>2. PICK pic \in Pics : scan.read = pic
  BY DEF ScanStore, ScanFine, Reading
<1>3. /\ At(p) # {} \/ NextId <= MaxId
      /\ rows' = (rows \ At(p)) \cup Upserted /\ WalkOn({r.id : r \in Upserted}, {})
      /\ UNCHANGED <<disk, held, mover, doomed, suspects, scans, batches>>
  BY <1>1 DEF ScanStore
<1>4. PICK x \in ImageRow :
        /\ Upserted = {x} /\ x.path = p /\ x.pic = pic /\ ~x.missing
        /\ \A r \in At(p) : r.id = x.id /\ (~x.trashed => ~r.trashed)
        /\ \A q \in rows \ At(p) : q.id # x.id
  BY <1>1, <1>2, <1>3, UpsertedRow
<1>5. rows' = (rows \ At(p)) \cup {x} /\ WalkOn({x.id}, {}) /\ x.id \in 1 .. MaxId
  <2>1. {r.id : r \in Upserted} = {x.id}
    BY <1>4
  <2>2. x.id \in 1 .. MaxId
    BY DEF ImageRow
  <2>3. QED
    BY <1>3, <1>4, <2>1, <2>2
<1>6. /\ scan' \in ScanJob /\ scan'.stage = "walk" /\ scan'.todo = scan.todo
      /\ scan'.seen = scan.seen \cup {x.id} /\ scan'.bad = scan.bad
      /\ scan'.same = scan.same /\ scan'.cur = Nothing /\ scan'.calm = scan.calm
  <2>1. {x.id} \in SUBSET (1 .. MaxId) /\ {} \in SUBSET Src /\ scan \in ScanJob
    BY <1>5 DEF ScanFine
  <2>2. scan.bad \cup {} = scan.bad
    OBVIOUS
  <2>3. QED
    BY <1>5, <2>1, <2>2, WalkOnFields
<1>7. Table(rows', held')
  <2>1. rows' \in SUBSET ImageRow /\ Placed(rows')
    BY <1>4, <1>5 DEF Table, Placed
  <2>2. \A r, q \in rows' : r # q => r.id # q.id /\ r.path # q.path
    BY <1>4, <1>5 DEF Table, At
  <2>3. held' \subseteq {r.id : r \in rows'}
    <3>1. SUFFICES ASSUME NEW i \in held PROVE \E r \in rows' : r.id = i
      BY <1>3
    <3>2. PICK r \in rows : r.id = i
      BY DEF Table
    <3>3. QED
      BY <1>4, <1>5, <3>2
  <2>4. QED
    BY <2>1, <2>2, <2>3 DEF Table
<1>8. Reading' /\ ScanAgrees'
  BY <1>6 DEF Reading, ScanAgrees
<1>9. ASSUME scan'.calm PROVE Passed' /\ SameAreThere' /\ SeenHaveFiles'
  <2>1. Passed /\ SameAreThere /\ SeenHaveFiles /\ disk[p] = pic
    BY <1>1, <1>2, <1>6, <1>9 DEF ScanFine, CalmScan, InWork
  <2>2. Passed'
    <3>1. SUFFICES ASSUME NEW s \in Src \ scan.todo, disk[s] # Nothing
                   PROVE  s \in scan.bad \/ \E r \in rows' :
                            r.path = s /\ r.pic = disk[s] /\ ~r.missing /\ r.id \in scan'.seen
      BY <1>3, <1>6 DEF Passed, Accounted, At
    <3>2. CASE s = p
      BY <1>4, <1>5, <1>6, <2>1, <3>2
    <3>3. CASE s # p
      BY <1>1, <1>5, <1>6, <2>1, <3>1, <3>3 DEF Passed, Accounted, At
    <3>4. QED
      BY <3>2, <3>3
  <2>3. SameAreThere'
    <3>1. SUFFICES ASSUME NEW s \in scan.same PROVE \E r \in rows' : r.id = s[1] /\ r.path = s[2]
      BY <1>6 DEF SameAreThere
    <3>2. PICK r \in rows : r.id = s[1] /\ r.path = s[2]
      BY <2>1 DEF SameAreThere
    <3>3. CASE r \in At(p)
      BY <1>4, <1>5, <3>2, <3>3 DEF At
    <3>4. CASE r \notin At(p)
      BY <1>5, <3>2, <3>4
    <3>5. QED
      BY <3>3, <3>4
  <2>4. SeenHaveFiles'
    <3>1. \A r \in rows' : r = x \/ (r \in rows /\ r.id # x.id)
      BY <1>4, <1>5
    <3>2. disk[x.path] # Nothing
      BY <1>4, <2>1
    <3>3. QED
      BY <1>3, <1>4, <1>6, <2>1, <3>1, <3>2 DEF SeenHaveFiles
  <2>5. QED
    BY <2>2, <2>3, <2>4
<1>10. ScanFine'
  BY <1>6, <1>8, <1>9 DEF ScanFine, CalmScan, InWork
<1>11. QED
  BY <1>3, <1>7, <1>10, RestFine

(* mark_seen_many changes paths only; nothing, if nobody disturbed.        *)
SeenPath(r) == IF \E s \in scan.same : s[1] = r.id
               THEN (CHOOSE s \in scan.same : s[1] = r.id)[2] ELSE r.path

LEMMA SeenPathPlaced ==
  ASSUME Table(rows, held), scan \in ScanJob, NEW r \in rows
  PROVE  /\ SeenPath(r) \in Places /\ (~r.trashed => SeenPath(r) \notin Bin)
         /\ SameAreThere => SeenPath(r) = r.path
<1>1. r \in ImageRow /\ (~r.trashed => r.path \notin Bin)
  BY DEF Table, Placed
<1>2. CASE \E s \in scan.same : s[1] = r.id
  <2>1. PICK s : s = CHOOSE t \in scan.same : t[1] = r.id
    OBVIOUS
  <2>2. s \in scan.same /\ s[1] = r.id /\ SeenPath(r) = s[2]
    BY <1>2, <2>1 DEF SeenPath
  <2>3. s[2] \in Src
    BY <2>2 DEF ScanJob
  <2>4. SameAreThere => s[2] = r.path
    BY <2>2 DEF SameAreThere, Table
  <2>5. QED
    BY <2>2, <2>3, <2>4
<1>3. CASE ~ \E s \in scan.same : s[1] = r.id
  BY <1>1, <1>3 DEF SeenPath, ImageRow
<1>4. QED
  BY <1>2, <1>3

LEMMA MarkedSeenTable ==
  ASSUME Table(rows, held), scan \in ScanJob, PathsUnique(MarkedSeen)
  PROVE  Table(MarkedSeen, held) /\ (SameAreThere => MarkedSeen = rows)
<1> DEFINE Seen(r) == [r EXCEPT !.path = SeenPath(r)]
<1>1. MarkedSeen = {Seen(r) : r \in rows}
  BY DEF MarkedSeen, SeenPath
<1>2. ASSUME NEW r \in rows
      PROVE  /\ Seen(r) \in ImageRow /\ Seen(r).id = r.id
             /\ ~Seen(r).trashed => Seen(r).path \notin Bin
             /\ SameAreThere => Seen(r) = r
  <2>1. PICK x : x = Seen(r)
    OBVIOUS
  <2>2. r \in ImageRow /\ SeenPath(r) \in Places
    BY SeenPathPlaced DEF Table
  <2>3. x \in ImageRow /\ x.id = r.id /\ x.path = SeenPath(r) /\ x.trashed = r.trashed
    BY <2>1, <2>2, RowSeen
  <2>4. SameAreThere => x = r
    BY <2>1, <2>2, SeenPathPlaced DEF ImageRow
  <2> HIDE DEF Seen
  <2>5. QED
    BY <2>1, <2>3, <2>4, SeenPathPlaced
<1> HIDE DEF Seen
<1>3. MarkedSeen \in SUBSET ImageRow /\ Placed(MarkedSeen)
  BY <1>1, <1>2 DEF Placed
<1>4. \A x, y \in MarkedSeen : x # y => x.id # y.id /\ x.path # y.path
  BY <1>1, <1>2 DEF PathsUnique, Table
<1>5. held \subseteq {x.id : x \in MarkedSeen}
  BY <1>1, <1>2 DEF Table
<1>6. SameAreThere => MarkedSeen = rows
  BY <1>1, <1>2
<1>7. QED
  BY <1>3, <1>4, <1>5, <1>6 DEF Table

LEMMA ScanMarkSeenKeeps ==
  ASSUME Whole, NEW stop \in BOOLEAN, ScanMarkSeen(stop)
  PROVE  Whole'
<1> USE DEF Whole
<1>1. /\ scan.stage = "walk" /\ (scan.todo = {} \/ stop) /\ scan.cur = Nothing /\ scan \in ScanJob
      /\ UNCHANGED <<disk, held, mover, doomed, suspects, scans, batches>>
  BY DEF ScanMarkSeen, ScanFine, Reading
<1>2. CASE ~PathsUnique(MarkedSeen)
  <2>1. rows' = rows /\ scan' = Idle
    BY <1>2 DEF ScanMarkSeen
  <2>2. QED
    BY <1>1, <2>1, IdleFine, RestFine
<1>3. CASE PathsUnique(MarkedSeen) /\ stop
  <2>1. rows' = MarkedSeen /\ scan' = Idle
    BY <1>3 DEF ScanMarkSeen
  <2>2. Table(rows', held')
    BY <1>1, <1>3, <2>1, MarkedSeenTable
  <2>3. QED
    BY <1>1, <2>1, <2>2, IdleFine, RestFine
<1>4. CASE PathsUnique(MarkedSeen) /\ ~stop
  <2>1. PICK st \in {"end", "done"} : st = IF scan.reconcile THEN "end" ELSE "done"
    OBVIOUS
  <2>2. rows' = MarkedSeen /\ scan' = [scan EXCEPT !.stage = st]
    BY <1>4, <2>1 DEF ScanMarkSeen
  <2>3. /\ scan' \in ScanJob /\ scan'.stage = st /\ scan'.todo = scan.todo
        /\ scan'.seen = scan.seen /\ scan'.bad = scan.bad /\ scan'.reconcile = scan.reconcile
        /\ scan'.same = scan.same /\ scan'.cur = Nothing /\ scan'.calm = scan.calm
    BY <1>1, <2>2 DEF ScanJob
  <2>4. Table(rows', held') /\ (SameAreThere => rows' = rows)
    BY <1>1, <1>4, <2>2, MarkedSeenTable
  <2>5. Reading'
    BY <1>1, <1>4, <2>1, <2>3 DEF Reading
  <2>6. ScanAgrees'
    BY <2>1, <2>3 DEF ScanAgrees
  <2>7. ASSUME scan'.calm PROVE Passed' /\ SameAreThere' /\ SeenHaveFiles'
    <3>1. Passed /\ SameAreThere /\ SeenHaveFiles
      BY <1>1, <2>3, <2>7 DEF ScanFine, CalmScan
    <3>2. rows' = rows
      BY <2>4, <3>1
    <3>3. QED
      BY <1>1, <2>3, <3>1, <3>2 DEF Passed, Accounted, At, SameAreThere, SeenHaveFiles
  <2>8. ScanFine'
    BY <2>1, <2>3, <2>5, <2>6, <2>7 DEF ScanFine, CalmScan, InWork
  <2>9. QED
    BY <1>1, <2>4, <2>8, RestFine
<1>5. QED
  BY <1>2, <1>3, <1>4

LEMMA ReconciledTable ==
  ASSUME Table(rows, held), NEW lost \in SUBSET rows, NEW gone,
         gone = {r \in lost : r.id \notin held},
         rows' = {IF r \in lost THEN [r EXCEPT !.missing = TRUE] ELSE r : r \in rows \ gone},
         held' = held \ {r.id : r \in gone}
  PROVE  /\ Table(rows', held')
         /\ rows' = {IF r \in lost THEN MarkedRow(r) ELSE r : r \in rows \ gone}
<1>1. rows' = {IF r \in lost THEN MarkedRow(r) ELSE r : r \in rows \ gone}
  BY DEF MarkedRow
<1>2. PICK new, left : new = rows' /\ left = held'
  OBVIOUS
<1>3. new = {IF r \in lost THEN MarkedRow(r) ELSE r : r \in rows \ gone}
  BY <1>1, <1>2
<1>4. left = held \ {r.id : r \in gone}
  BY <1>2
<1>5. Table(new, left)
  BY <1>3, <1>4, MarkedTable
<1>6. QED
  BY <1>1, <1>2, <1>5

LEMMA ScanReconcileKeeps ==
  ASSUME Whole, ScanReconcile
  PROVE  Whole'
<1> USE DEF Whole
<1> DEFINE gone == Removed(Unseen)
<1>1. /\ scan.stage = "end" /\ scan.todo = {} /\ scan.cur = Nothing /\ scan \in ScanJob
      /\ rows' = {IF r \in Unseen THEN [r EXCEPT !.missing = TRUE] ELSE r : r \in rows \ gone}
      /\ held' = held \ {r.id : r \in gone}
      /\ scan' = [scan EXCEPT !.stage = "done"]
      /\ UNCHANGED <<disk, mover, doomed, suspects, scans, batches>>
  BY DEF ScanReconcile, ScanFine, Reading
<1>2. Unseen \in SUBSET rows /\ gone = {r \in Unseen : r.id \notin held}
  BY DEF Unseen, Removed
<1> HIDE DEF gone
<1>3. /\ Table(rows', held')
      /\ rows' = {IF r \in Unseen THEN MarkedRow(r) ELSE r : r \in rows \ gone}
  BY <1>1, <1>2, ReconciledTable, Zenon
<1>4. /\ scan' \in ScanJob /\ scan'.stage = "done" /\ scan'.todo = {} /\ scan'.cur = Nothing
      /\ scan'.bad = scan.bad /\ scan'.seen = scan.seen /\ scan'.calm = scan.calm
  BY <1>1 DEF ScanJob
<1>5. Reading' /\ CalmScan'
  BY <1>4 DEF Reading, CalmScan
<1>6. ASSUME scan'.calm PROVE ScanAgrees'
  <2>1. Passed /\ SeenHaveFiles
    BY <1>1, <1>4, <1>6 DEF ScanFine, CalmScan
  <2>2. \A p \in Src \ scan.bad : disk[p] # Nothing =>
          \E r \in rows : r.path = p /\ r.pic = disk[p] /\ ~r.missing /\ r.id \in scan.seen
    BY <1>1, <2>1 DEF Passed, Accounted, At
  <2>3. ASSUME NEW p \in Src \ scan.bad, disk[p] # Nothing
        PROVE  \E r \in rows' : r.path = p /\ r.pic = disk[p] /\ ~r.missing
    <3>1. PICK r \in rows : r.path = p /\ r.pic = disk[p] /\ ~r.missing /\ r.id \in scan.seen
      BY <2>2, <2>3
    <3>2. r \notin Unseen /\ r \notin gone
      BY <1>2, <3>1 DEF Unseen
    <3>3. (IF r \in Unseen THEN MarkedRow(r) ELSE r) \in rows'
      BY <1>3, <3>1, <3>2
    <3>4. QED
      BY <3>1, <3>2, <3>3
  <2>4. ASSUME NEW x \in rows', x.root = "src", ~x.trashed, x.path \in Src \ scan.bad
        PROVE  IF x.missing THEN x.id \in held' /\ disk[x.path] = Nothing ELSE disk[x.path] # Nothing
    <3>1. PICK r \in rows \ gone :
            /\ x.id = r.id /\ x.path = r.path /\ x.root = r.root /\ x.trashed = r.trashed
            /\ IF r \in Unseen THEN x.missing ELSE x = r
      BY <1>3, RowMarked DEF Table
    <3>2. CASE r \in Unseen
      <4>1. r.id \in held' /\ x.missing
        BY <1>1, <1>2, <3>1, <3>2 DEF Table
      <4>2. disk[r.path] = Nothing
        <5>1. SUFFICES ASSUME disk[r.path] # Nothing PROVE FALSE
          OBVIOUS
        <5>2. PICK q \in rows : q.path = r.path /\ q.id \in scan.seen
          BY <2>2, <2>4, <3>1, <5>1
        <5>3. q = r
          BY <5>2 DEF Table
        <5>4. QED
          BY <3>2, <5>2, <5>3 DEF Unseen
      <4>3. QED
        BY <3>1, <4>1, <4>2
    <3>3. CASE r \notin Unseen
      <4>1. x = r /\ r.id \in scan.seen
        BY <2>4, <3>1, <3>3 DEF Unseen
      <4>2. ~r.missing /\ disk[r.path] # Nothing
        BY <2>1, <2>4, <3>1, <4>1 DEF SeenHaveFiles
      <4>3. QED
        BY <4>1, <4>2
    <3>4. QED
      BY <3>2, <3>3
  <2>5. QED
    BY <1>1, <1>4, <2>3, <2>4 DEF ScanAgrees, At
<1>7. ScanFine'
  BY <1>4, <1>5, <1>6 DEF ScanFine, ScanAgrees
<1>8. QED
  BY <1>1, <1>3, <1>7, RestFine

-----------------------------------------------------------------------------
(* The moves, the deletions and the others. *)

LEMMA BatchStartKeeps ==
  ASSUME Whole, NEW m \in Movers, NEW picked \in SUBSET rows, BatchStart(m, picked)
  PROVE  Whole'
<1> USE DEF Whole
<1>1. picked \in SUBSET ImageRow /\ Placed(picked)
  BY DEF Table, Placed
<1>2. PICK b : b = [NoBatch EXCEPT !.stage = "on", !.todo = picked]
  OBVIOUS
<1>3. b \in MoveJob /\ b.stage = "on" /\ b.todo = picked /\ b.row = {}
  BY <1>1, <1>2, NoBatchFine DEF MoveJob, NoBatch
<1>4. Fits(m, b)
  BY <1>1, <1>3 DEF Fits, Placed
<1>5. mover' = [mover EXCEPT ![m] = b]
  BY <1>2 DEF BatchStart
<1>6. MoversFine'
  BY <1>3, <1>4, <1>5, MoverFine
<1>7. ScanFine' /\ batches' \in 0 .. MaxBatches
  BY UnseenFine DEF BatchStart
<1>8. QED
  BY <1>6, <1>7 DEF BatchStart

LEMMA SkipFileKeeps ==
  ASSUME Whole, NEW m \in Movers, NEW r, SkipFile(m, r)
  PROVE  Whole'
<1> USE DEF Whole
<1>1. mover[m] \in MoveJob /\ Fits(m, mover[m])
  BY DEF MoversFine, BatchesFit
<1>2. PICK b : b = [mover[m] EXCEPT !.todo = mover[m].todo \ {r}]
  OBVIOUS
<1>3. /\ b \in MoveJob /\ b.stage = mover[m].stage /\ b.todo = mover[m].todo \ {r}
      /\ b.row = mover[m].row /\ b.to = mover[m].to
  BY <1>1, <1>2 DEF MoveJob
<1>4. Fits(m, b)
  BY <1>1, <1>3 DEF Fits, Placed
<1>5. mover' = [mover EXCEPT ![m] = b]
  BY <1>2 DEF SkipFile
<1>6. MoversFine'
  BY <1>3, <1>4, <1>5, MoverFine
<1>7. ScanFine'
  BY UnseenFine DEF SkipFile
<1>8. QED
  BY <1>6, <1>7 DEF SkipFile

LEMMA MoveFileFacts ==
  ASSUME MoversFine, disk \in [Places -> Pics \cup {Nothing}],
         NEW m \in Movers, NEW r, NEW to \in Places, MoveFile(m, r, to)
  PROVE  /\ r \in ImageRow /\ r.path \in Places /\ (~r.trashed => r.path \notin Bin)
         /\ disk[to] = Nothing /\ disk[r.path] \in Pics /\ to # r.path
         /\ IF m = "trash" THEN ~r.trashed ELSE to \notin Bin
<1>1. r \in mover[m].todo /\ to \in FreeTargets(m, r)
  BY DEF MoveFile
<1>2. r \in ImageRow /\ (~r.trashed => r.path \notin Bin)
  BY <1>1 DEF MoversFine, BatchesFit, Fits, Placed, MoveJob
<1>3. r.path \in Places /\ r.orig \in Src \cup Vault \cup {Nothing}
  BY <1>2 DEF ImageRow
<1>4. to \in Targets(m, r) /\ disk[to] = Nothing /\ disk[r.path] # Nothing
  BY <1>1 DEF FreeTargets
<1>5. IF m = "trash" THEN ~r.trashed ELSE to \notin Bin
  <2>1. CASE m = "trash"
    BY <1>4, <2>1 DEF Targets
  <2>2. CASE m = "archive"
    BY <1>4, <2>2 DEF Targets
  <2>3. CASE m = "restore"
    BY <1>3, <1>4, <2>3 DEF Targets
  <2>4. QED
    BY <2>1, <2>2, <2>3 DEF Movers
<1>6. QED
  BY <1>2, <1>3, <1>4, <1>5

LEMMA MoveFileKeeps ==
  ASSUME Whole, NEW m \in Movers, NEW r, NEW to \in Places, MoveFile(m, r, to)
  PROVE  Whole'
<1> USE DEF Whole
<1>1. /\ r \in ImageRow /\ r.path \in Places /\ (~r.trashed => r.path \notin Bin)
      /\ IF m = "trash" THEN ~r.trashed ELSE to \notin Bin
  BY MoveFileFacts
<1>2. mover[m] \in MoveJob /\ Fits(m, mover[m])
  BY DEF MoversFine, BatchesFit
<1>3. PICK b : b = [stage |-> "moved", todo |-> mover[m].todo \ {r}, row |-> {r}, to |-> to]
  OBVIOUS
<1>4. b \in MoveJob
  BY <1>1, <1>2, <1>3 DEF MoveJob
<1>5. Fits(m, b)
  BY <1>1, <1>2, <1>3 DEF Fits, Placed
<1>6. mover' = [mover EXCEPT ![m] = b]
  BY <1>3 DEF MoveFile
<1>7. MoversFine'
  BY <1>4, <1>5, <1>6, MoverFine
<1>8. ScanFine'
  BY DisturbedFine DEF MoveFile
<1>9. disk' \in [Places -> Pics \cup {Nothing}]
  BY <1>1 DEF MoveFile
<1>10. QED
  BY <1>7, <1>8, <1>9 DEF MoveFile

(* The row of a file that has been moved. *)
LEMMA RepointedTable ==
  ASSUME Table(rows, held), NEW m \in Movers, NEW r \in ImageRow, NEW to \in Places,
         ~r.trashed => r.path \notin Bin, IF m = "trash" THEN ~r.trashed ELSE to \notin Bin,
         At(to) \subseteq WithId(r.id),
         rows' = (rows \ WithId(r.id)) \cup {Repointed(m, q, r.path, to) : q \in WithId(r.id)},
         held' = held
  PROVE  Table(rows', held')
<1>1. r.path \in Places /\ (m = "trash" => r.path \notin Bin)
  BY DEF ImageRow
<1>2. \A q \in WithId(r.id) : q \in ImageRow /\ q.id = r.id
  BY DEF WithId, Table
<1>3. \A q \in WithId(r.id) :
        /\ Repointed(m, q, r.path, to) \in ImageRow /\ Repointed(m, q, r.path, to).id = r.id
        /\ Repointed(m, q, r.path, to).path = to
        /\ m = "trash" => Repointed(m, q, r.path, to).trashed
  BY <1>1, <1>2, RowRepointed
<1>4. rows' \in SUBSET ImageRow /\ Placed(rows')
  BY <1>3 DEF Table, Placed
<1>5. \A q, s \in WithId(r.id) : q = s
  BY DEF WithId, Table
<1>6. \A q \in rows \ WithId(r.id) : q.id # r.id /\ q.path # to
  BY DEF WithId, At
<1>7. \A x, y \in rows' : x # y => x.id # y.id /\ x.path # y.path
  BY <1>3, <1>5, <1>6 DEF Table
<1>8. held' \subseteq {x.id : x \in rows'}
  <2>1. SUFFICES ASSUME NEW i \in held PROVE \E x \in rows' : x.id = i
    OBVIOUS
  <2>2. PICK q \in rows : q.id = i
    BY DEF Table
  <2>3. CASE q \in WithId(r.id)
    <3>1. Repointed(m, q, r.path, to) \in rows'
      BY <2>3
    <3>2. QED
      BY <1>2, <1>3, <2>2, <2>3, <3>1
  <2>4. CASE q \notin WithId(r.id)
    BY <2>2, <2>4
  <2>5. QED
    BY <2>3, <2>4
<1>9. QED
  BY <1>4, <1>7, <1>8 DEF Table

LEMMA CommitMoveKeeps ==
  ASSUME Whole, NEW m \in Movers, CommitMove(m)
  PROVE  Whole'
<1> USE DEF Whole
<1>1. mover[m] \in MoveJob /\ Fits(m, mover[m]) /\ mover[m].stage = "moved"
  BY DEF MoversFine, BatchesFit, CommitMove
<1>2. PICK r : r = CHOOSE x \in mover[m].row : TRUE
  OBVIOUS
<1>3. r \in mover[m].row
  BY <1>1, <1>2 DEF Fits
<1>4. PICK to : to = mover[m].to
  OBVIOUS
<1>5. /\ r \in ImageRow /\ (~r.trashed => r.path \notin Bin) /\ r.path \in Places /\ to \in Places
      /\ IF m = "trash" THEN ~r.trashed ELSE to \notin Bin
  BY <1>1, <1>3, <1>4 DEF Fits, Placed, MoveJob, ImageRow
<1>6. IF WithId(r.id) # {} /\ At(to) \subseteq WithId(r.id)
      THEN /\ rows' = (rows \ WithId(r.id)) \cup {Repointed(m, q, r.path, to) : q \in WithId(r.id)}
           /\ disk' = disk
      ELSE rows' = rows /\ disk' = PutBack(disk, r.path, to)
  BY ONLY CommitMove(m), <1>2, <1>4, Zenon DEF CommitMove
<1>7. /\ scan' = Disturbed
      /\ UNCHANGED <<held, doomed, suspects, scans, batches>>
  BY DEF CommitMove
<1>8. Table(rows', held')
  <2>1. CASE WithId(r.id) # {} /\ At(to) \subseteq WithId(r.id)
    BY <1>5, <1>6, <1>7, <2>1, RepointedTable
  <2>2. CASE ~(WithId(r.id) # {} /\ At(to) \subseteq WithId(r.id))
    BY <1>6, <1>7, <2>2
  <2>3. QED
    BY <2>1, <2>2
<1>9. disk' \in [Places -> Pics \cup {Nothing}]
  BY <1>5, <1>6 DEF PutBack
<1>10. PICK b : b = [mover[m] EXCEPT !.stage = "on", !.row = {}, !.to = Nothing]
  OBVIOUS
<1>11. b \in MoveJob /\ b.stage = "on" /\ b.todo = mover[m].todo /\ b.row = {}
  BY <1>1, <1>10 DEF MoveJob
<1>12. Fits(m, b)
  BY <1>1, <1>11 DEF Fits, Placed
<1>13. mover' = [mover EXCEPT ![m] = b]
  <2>1. mover' = [mover EXCEPT ![m].stage = "on", ![m].row = {}, ![m].to = Nothing]
    BY DEF CommitMove
  <2>2. QED
    BY <1>1, <1>10, <2>1 DEF MoversFine, MoveJob
<1>14. MoversFine' /\ ScanFine'
  BY <1>7, <1>11, <1>12, <1>13, MoverFine, DisturbedFine
<1>15. QED
  BY <1>7, <1>8, <1>9, <1>14

LEMMA BatchEndKeeps ==
  ASSUME Whole, NEW m \in Movers, BatchEnd(m)
  PROVE  Whole'
<1> USE DEF Whole
<1>1. MoversFine'
  BY NoBatchFine, MoverFine DEF BatchEnd
<1>2. ScanFine'
  BY UnseenFine DEF BatchEnd
<1>3. QED
  BY <1>1, <1>2 DEF BatchEnd

LEMMA DeletionKeeps ==
  ASSUME Whole,
         \/ \E picked \in SUBSET rows : DeletePlan(picked)
         \/ \E r \in doomed.todo : Unlink(r) \/ Spare(r)
         \/ DeleteRow
  PROVE  Whole'
<1> USE DEF Whole
<1>1. ASSUME NEW picked \in SUBSET rows, DeletePlan(picked) PROVE Whole'
  <2>1. doomed' \in [todo : SUBSET ImageRow, row : SUBSET ImageRow]
    BY <1>1 DEF DeletePlan, Table
  <2>2. QED
    BY <1>1, <2>1, UnseenFine, RestFine DEF DeletePlan
<1>2. ASSUME NEW r \in doomed.todo, Unlink(r) PROVE Whole'
  <2>1. doomed' \in [todo : SUBSET ImageRow, row : SUBSET ImageRow]
    BY <1>2 DEF Unlink
  <2>2. disk' \in [Places -> Pics \cup {Nothing}]
    BY <1>2 DEF Unlink
  <2>3. QED
    BY <1>2, <2>1, <2>2, DisturbedFine, RestFine DEF Unlink
<1>3. ASSUME NEW r \in doomed.todo, Spare(r) PROVE Whole'
  <2>1. doomed' \in [todo : SUBSET ImageRow, row : SUBSET ImageRow]
    BY <1>3 DEF Spare
  <2>2. QED
    BY <1>3, <2>1, UnseenFine, RestFine DEF Spare
<1>4. ASSUME DeleteRow PROVE Whole'
  <2>1. doomed' \in [todo : SUBSET ImageRow, row : SUBSET ImageRow]
    BY <1>4 DEF DeleteRow
  <2>2. PICK gone \in SUBSET rows : Drop(gone)
    BY <1>4 DEF DeleteRow
  <2>3. Table(rows', held')
    BY <2>2, SmallerTable DEF Drop
  <2>4. QED
    BY <1>4, <2>1, <2>3, DisturbedFine, RestFine DEF DeleteRow
<1>5. QED
  BY <1>1, <1>2, <1>3, <1>4

LEMMA VanishedKeeps ==
  ASSUME Whole, (\E picked \in SUBSET rows : FindVanished(picked)) \/ ForgetVanished
  PROVE  Whole'
<1> USE DEF Whole
<1>1. ASSUME NEW picked \in SUBSET rows, FindVanished(picked) PROVE Whole'
  <2>1. suspects' \subseteq 1 .. MaxId
    BY <1>1 DEF FindVanished, Table, ImageRow
  <2>2. QED
    BY <1>1, <2>1, UnseenFine, RestFine DEF FindVanished
<1>2. ASSUME ForgetVanished PROVE Whole'
  <2> DEFINE lost == {r \in rows : r.id \in suspects}
             gone == Removed(lost)
  <2>1. lost \in SUBSET rows
    OBVIOUS
  <2>2. gone = {r \in lost : r.id \notin held}
    BY DEF Removed
  <2>3. /\ rows' = {IF r \in lost THEN [r EXCEPT !.missing = TRUE] ELSE r : r \in rows \ gone}
        /\ held' = held \ {r.id : r \in gone}
    BY <1>2 DEF ForgetVanished
  <2>4. Table(rows, held)
    OBVIOUS
  <2> HIDE DEF lost, gone
  <2>5. Table(rows', held')
    BY ONLY <2>1, <2>2, <2>3, <2>4, ReconciledTable, Zenon
  <2>6. scan' = Disturbed /\ suspects' = {} /\ UNCHANGED <<disk, mover, doomed, scans, batches>>
    BY <1>2 DEF ForgetVanished
  <2>7. QED
    BY <2>5, <2>6, DisturbedFine, RestFine
<1>3. QED
  BY <1>1, <1>2

LEMMA OthersKeep ==
  ASSUME Whole,
         \/ \E r \in rows : Hold(r)
         \/ \E id \in held : Release(id)
         \/ \E p \in Src, pic \in Pics : Appear(p, pic)
         \/ \E p \in Src : Vanish(p)
         \/ Crash
  PROVE  Whole'
<1> USE DEF Whole
<1>1. ASSUME NEW r \in rows, Hold(r) PROVE Whole'
  <2>1. Table(rows', held')
    BY <1>1 DEF Hold, Table, Placed
  <2>2. QED
    BY <1>1, <2>1, DisturbedFine, RestFine DEF Hold
<1>2. ASSUME NEW id \in held, Release(id) PROVE Whole'
  <2>1. Table(rows', held')
    BY <1>2 DEF Release, Table, Placed
  <2>2. QED
    BY <1>2, <2>1, DisturbedFine, RestFine DEF Release
<1>3. ASSUME NEW p \in Src, NEW pic \in Pics, Appear(p, pic) PROVE Whole'
  <2>1. disk' \in [Places -> Pics \cup {Nothing}]
    BY <1>3 DEF Appear
  <2>2. QED
    BY <1>3, <2>1, DisturbedFine, RestFine DEF Appear
<1>4. ASSUME NEW p \in Src, Vanish(p) PROVE Whole'
  <2>1. disk' \in [Places -> Pics \cup {Nothing}]
    BY <1>4 DEF Vanish
  <2>2. QED
    BY <1>4, <2>1, DisturbedFine, RestFine DEF Vanish
<1>5. ASSUME Crash PROVE Whole'
  <2>1. MoversFine'
    BY <1>5, NoBatchFine DEF Crash, MoversFine, BatchesFit
  <2>2. QED
    BY <1>5, <2>1, IdleFine DEF Crash
<1>6. QED
  BY <1>1, <1>2, <1>3, <1>4, <1>5

LEMMA LibraryStarts == LibraryInit => Whole
<1> SUFFICES ASSUME LibraryInit PROVE Whole
  OBVIOUS
<1>1. PICK lying \in [Src -> Pics \cup {Nothing}], ids \in [Src -> 1 .. Cardinality(Src)] :
        /\ \A p, q \in Src : p # q => ids[p] # ids[q]
        /\ disk = [p \in Places |-> IF p \in Src THEN lying[p] ELSE Nothing]
        /\ rows = Scanned(lying, ids)
  BY DEF LibraryInit
<1>2. PICK no \in BOOLEAN : no = FALSE
  OBVIOUS
<1>3. rows = {[id |-> ids[p], path |-> p, pic |-> lying[p], root |-> "src", missing |-> no,
               trashed |-> no, orig |-> Nothing] : p \in {q \in Src : lying[q] # Nothing}}
  BY <1>1, <1>2 DEF Scanned
<1>4. 1 .. Cardinality(Src) \subseteq 1 .. MaxId
  OBVIOUS
<1>5. \A r \in rows : \E p \in Src :
        /\ r = [id |-> ids[p], path |-> p, pic |-> lying[p], root |-> "src", missing |-> no,
                trashed |-> no, orig |-> Nothing]
        /\ lying[p] \in Pics /\ ids[p] \in 1 .. MaxId
  BY <1>3, <1>4
<1>6. \A r \in rows : /\ r \in ImageRow /\ r.path \notin Bin
                      /\ \A q \in rows : r # q => r.id # q.id /\ r.path # q.path
  BY <1>1, <1>5 DEF ImageRow
<1>7. held = {} /\ scan = Idle /\ mover = [m \in Movers |-> NoBatch]
      /\ doomed = [todo |-> {}, row |-> {}] /\ suspects = {} /\ scans = 0 /\ batches = 0
  BY DEF LibraryInit
<1>8. Table(rows, held)
  BY <1>6, <1>7 DEF Table, Placed
<1>9. disk \in [Places -> Pics \cup {Nothing}]
  BY <1>1
<1>10. scan \in ScanJob /\ scan.stage = "off" /\ scan.cur = Nothing
  BY <1>7 DEF Idle, ScanJob
<1>11. ScanFine
  BY <1>10 DEF ScanFine, Reading, CalmScan, ScanAgrees
<1>12. MoversFine
  BY <1>7, NoBatchFine DEF MoversFine, BatchesFit
<1>13. QED
  BY <1>7, <1>8, <1>9, <1>11, <1>12 DEF Whole

LEMMA LibraryStutters == Whole /\ UNCHANGED libraryVars => Whole'
  BY UnseenFine, RestFine DEF Whole, libraryVars

LEMMA LibraryKept == Whole /\ [LibraryNext]_libraryVars => Whole'
<1> SUFFICES ASSUME Whole, [LibraryNext]_libraryVars PROVE Whole'
  OBVIOUS
<1>1. ASSUME NEW reconcile \in BOOLEAN, ScanStart(reconcile) PROVE Whole'
  BY <1>1, ScanStartKeeps
<1>2. ASSUME ScanStep PROVE Whole'
  BY <1>2, ScanReadKeeps, ScanStoreKeeps, ScanFailsKeeps, ScanMarkSeenKeeps, ScanReconcileKeeps
    DEF ScanStep
<1>3. ASSUME NEW m \in Movers, MoverStep(m) PROVE Whole'
  BY <1>3, SkipFileKeeps, MoveFileKeeps, CommitMoveKeeps, BatchEndKeeps DEF MoverStep
<1>4. ASSUME NEW m \in Movers, NEW picked \in SUBSET rows, BatchStart(m, picked) PROVE Whole'
  BY <1>4, BatchStartKeeps
<1>5. QED
  BY <1>1, <1>2, <1>3, <1>4, DeletionKeeps, VanishedKeeps, OthersKeep, LibraryStutters
    DEF LibraryNext

(* The library's invariant: the types, what the batches may move, what an  *)
(* undisturbed scan has noted, and what it says in the end.                *)
THEOREM LibraryInvariant == LibrarySpec => []LibraryInv
<1>1. LibraryInit => Whole
  BY LibraryStarts
<1>2. Whole /\ [LibraryNext]_libraryVars => Whole'
  BY LibraryKept
<1>3. Whole => LibraryInv
  BY Parts
<1>4. QED
  BY <1>1, <1>2, <1>3, PTL DEF LibrarySpec

(* After a full scan that nobody disturbed, the rows that point into the   *)
(* folder say what lies there (scan_roots with mark_seen_many and          *)
(* mark_missing).                                                          *)
THEOREM ScansAgree == LibrarySpec => []ScanAgrees
<1>1. LibraryInv => ScanAgrees
  BY DEF LibraryInv
<1>2. QED
  BY <1>1, LibraryInvariant, PTL

(* Where a file lies after a step that touches files.                      *)
LEMMA StillSomewhere ==
  ASSUME disk \in [Places -> Pics \cup {Nothing}], NEW from \in Places, NEW to \in Places,
         disk[to] = Nothing, from # to,
         disk' = [disk EXCEPT ![from] = Nothing, ![to] = disk[from]],
         NEW pic \in Pics, Somewhere(pic)
  PROVE  Somewhere(pic)'
<1>1. PICK p \in Places : disk[p] = pic
  BY DEF Somewhere
<1>2. p # to /\ disk'[to] = disk[from] /\ (p # from => disk'[p] = disk[p])
  BY <1>1
<1>3. QED
  BY <1>1, <1>2 DEF Somewhere

(* No step of a move, a restore or a scan takes a file off the disk, but a *)
(* move that is undone onto a place that was taken meanwhile               *)
(* (relocate.move_image and _put_back).                                    *)
THEOREM FilesAreKept == LibrarySpec => FileKept
<1> DEFINE PictureStays == \A pic \in Pics : Somewhere(pic) => Somewhere(pic)'
<1>1. ASSUME Whole, [LibraryNext]_libraryVars
      PROVE  \/ PictureStays
             \/ \E p \in Src : Vanish(p)
             \/ \E r \in doomed.todo : Unlink(r)
             \/ \E m \in Movers : Overwriting(m)
             \/ UNCHANGED libraryVars
  <2>1. ASSUME disk' = disk PROVE PictureStays
    BY <2>1 DEF Somewhere
  <2>2. ASSUME NEW m \in Movers, NEW r, NEW to \in Places, MoveFile(m, r, to) PROVE PictureStays
    <3>1. /\ r.path \in Places /\ disk[to] = Nothing /\ to # r.path
          /\ disk' = [disk EXCEPT ![r.path] = Nothing, ![to] = disk[r.path]]
      BY <1>1, <2>2, MoveFileFacts DEF Whole, MoveFile
    <3>2. disk \in [Places -> Pics \cup {Nothing}]
      BY <1>1 DEF Whole
    <3>3. QED
      BY <3>1, <3>2, StillSomewhere
  <2>3. ASSUME NEW m \in Movers, CommitMove(m), ~Overwriting(m) PROVE PictureStays
    <3>1. mover[m] \in MoveJob /\ Fits(m, mover[m]) /\ mover[m].stage = "moved"
      BY <1>1, <2>3 DEF Whole, MoversFine, BatchesFit, CommitMove
    <3>2. PICK r : r = CHOOSE x \in mover[m].row : TRUE
      OBVIOUS
    <3>3. r \in mover[m].row
      BY <3>1, <3>2 DEF Fits
    <3>4. PICK to : to = mover[m].to
      OBVIOUS
    <3>5. r.path \in Places /\ to \in Places /\ disk[r.path] = Nothing
      BY <2>3, <3>1, <3>3, <3>4 DEF Fits, MoveJob, ImageRow, Overwriting
    <3>6. disk' = disk \/ disk' = PutBack(disk, r.path, to)
      BY ONLY CommitMove(m), <3>2, <3>4, Zenon DEF CommitMove
    <3>7. CASE disk' = disk \/ disk[to] = Nothing
      BY <3>6, <3>7 DEF PutBack, Somewhere
    <3>8. CASE disk' = PutBack(disk, r.path, to) /\ disk[to] # Nothing
      <4>1. disk' = [disk EXCEPT ![to] = Nothing, ![r.path] = disk[to]] /\ to # r.path
        BY <3>5, <3>8 DEF PutBack
      <4>2. disk \in [Places -> Pics \cup {Nothing}]
        BY <1>1 DEF Whole
      <4>3. QED
        BY <3>5, <4>1, <4>2, StillSomewhere
    <3>9. QED
      BY <3>6, <3>7, <3>8
  <2>4. ASSUME NEW p \in Src, NEW pic \in Pics, Appear(p, pic) PROVE PictureStays
    BY <1>1, <2>4 DEF Whole, Appear, Somewhere
  <2>5. ASSUME NEW m \in Movers, MoverStep(m) PROVE PictureStays \/ Overwriting(m)
    <3>1. ASSUME NEW r, SkipFile(m, r) PROVE disk' = disk
      BY <3>1 DEF SkipFile
    <3>2. ASSUME BatchEnd(m) PROVE disk' = disk
      BY <3>2 DEF BatchEnd
    <3>3. QED
      BY <2>1, <2>2, <2>3, <2>5, <3>1, <3>2 DEF MoverStep
  <2>6. ASSUME \/ \E reconcile \in BOOLEAN : ScanStart(reconcile)
               \/ ScanStep
               \/ \E m \in Movers, picked \in SUBSET rows : BatchStart(m, picked)
               \/ \E picked \in SUBSET rows : DeletePlan(picked)
               \/ \E r \in doomed.todo : Spare(r)
               \/ DeleteRow
               \/ \E picked \in SUBSET rows : FindVanished(picked)
               \/ ForgetVanished
               \/ \E r \in rows : Hold(r)
               \/ \E id \in held : Release(id)
               \/ Crash
        PROVE  disk' = disk
    BY <2>6 DEF ScanStart, ScanStep, ScanRead, ScanStore, ScanFails, ScanMarkSeen, ScanReconcile,
      BatchStart, DeletePlan, Spare, DeleteRow, FindVanished, ForgetVanished, Hold, Release, Crash
  <2> HIDE DEF PictureStays
  <2>7. QED
    BY <1>1, <2>1, <2>4, <2>5, <2>6 DEF LibraryNext
<1>2. LibrarySpec => []Whole
  <2>1. LibraryInit => Whole
    BY LibraryStarts
  <2>2. Whole /\ [LibraryNext]_libraryVars => Whole'
    BY LibraryKept
  <2>3. QED
    BY <2>1, <2>2, PTL DEF LibrarySpec
<1>3. ASSUME Whole, [LibraryNext]_libraryVars
      PROVE  [\/ \A pic \in Pics : Somewhere(pic) => Somewhere(pic)'
              \/ \E p \in Src : Vanish(p)
              \/ \E r \in doomed.todo : Unlink(r)
              \/ \E m \in Movers : Overwriting(m)]_libraryVars
  BY <1>1, <1>3
<1>4. QED
  BY <1>2, <1>3, PTL DEF LibrarySpec, FileKept
-----------------------------------------------------------------------------
(* The components together (the run LibraryParts).                         *)

(* Each component stays well typed when it moves, whatever the library     *)
(* holds and whoever works on it.                                          *)
THEOREM LibraryPartsTypes == MCSpec => []LibraryPartsTypeOK
<1> DEFINE Typed == JobsTypeOK /\ Whole /\ GroupsTypeOK /\ MatchInv /\ HistoryTypeOK /\ TilesTyped
<1>1. MCInit => Typed
  <2>1. LibraryInit => Whole
    BY LibraryStarts
  <2>2. HistoryInit => HistoryTypeOK
    BY HistoryStart
  <2>3. QED
    BY <2>1, <2>2, JobsTypeStart, GroupsTypeStart, MatchStart, TilesTypedStart DEF MCInit
<1>2. Typed /\ [MCNext]_MCVars => Typed'
  <2>1. JobsTypeOK /\ [MCNext]_MCVars => JobsTypeOK'
    BY JobsTypeStep DEF MCNext, MCVars
  <2>2. Whole /\ [MCNext]_MCVars => Whole'
    BY LibraryKept DEF MCNext, MCVars
  <2>3. GroupsTypeOK /\ [MCNext]_MCVars => GroupsTypeOK'
    BY GroupsTypeStep DEF MCNext, MCVars
  <2>4. MatchInv /\ [MCNext]_MCVars => MatchInv'
    BY MatchStep DEF MCNext, MCVars
  <2>5. HistoryTypeOK /\ [MCNext]_MCVars => HistoryTypeOK'
    BY HistoryStep DEF MCNext, MCVars
  <2>6. TilesTyped /\ [MCNext]_MCVars => TilesTyped'
    BY TilesTypedStep DEF MCNext, MCVars
  <2>7. QED
    BY <2>1, <2>2, <2>3, <2>4, <2>5, <2>6
<1>3. Typed => LibraryPartsTypeOK
  BY Parts DEF LibraryPartsTypeOK, LibraryInv, MatchInv, TilesTyped
<1>4. QED
  BY <1>1, <1>2, <1>3, PTL DEF MCSpec
=============================================================================
