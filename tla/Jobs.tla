-------------------------------- MODULE Jobs --------------------------------
(***************************************************************************)
(* The job registry (backend/jobs.py, backend/api/jobs.py): one dict of    *)
(* jobs, each on a thread of its own or, when reserved, inside a request.  *)
(* The check for a conflicting job and the insert are one step under the   *)
(* lock; a job's status is written by its own thread without it.           *)
(* A browser polls with a cursor (frontend JobBar), and the shutdown waits *)
(* for the jobs that move files (main._lifespan).                          *)
(***************************************************************************)
EXTENDS Integers, FiniteSets, FiniteSetsExt

CONSTANTS
  JobKinds,
  WildKinds,     \* started with exclusive="*": move-data and restore
  ReservedKinds, \* run inside a request: restore
  FileKinds,     \* FILESYSTEM_MUTATING_KINDS
  WatchedKinds,  \* started by the scheduler's thread
  MaxRetained,   \* MAX_RETAINED
  MaxJobs        \* bounds the ids handed out

ASSUME JobKindsAssumption ==
  /\ JobKinds # {} /\ WildKinds \subseteq JobKinds /\ ReservedKinds \subseteq JobKinds
  /\ FileKinds \subseteq JobKinds \ ReservedKinds
  /\ WatchedKinds \subseteq JobKinds \ ReservedKinds
ASSUME JobBoundsAssumption == MaxRetained \in Nat /\ MaxJobs \in Nat

VARIABLES
  jobs,     \* _jobs: status "none" for an id not handed out, or dropped
  nextId,   \* _next_id
  threads,  \* _filesystem_threads
  closing,  \* the lifespan: "up", "waiting" in the shutdown, "late", "down"
  cursor, base, told \* browser: its cursor, where it began, jobs it was told of

registry == <<jobs, nextId, threads>>
browser  == <<cursor, base, told>>
jobsVars == <<registry, closing, browser>>

JobIds == 1 .. MaxJobs
(* done, error and cancelled are one status here: a cancellation is a note *)
(* for the target, and no property tells the ends apart.                   *)
Job == [kind : JobKinds, finished : Nat,
        status : {"none", "starting", "running", "ended"}]

JobsTypeOK ==
  /\ jobs \in [JobIds -> Job]
  /\ nextId \in 1 .. MaxJobs + 1
  /\ threads \in SUBSET JobIds
  /\ closing \in {"up", "waiting", "late", "down"}
  /\ cursor \in 0 .. MaxJobs /\ base \in 0 .. MaxJobs + 1
  /\ told \in SUBSET JobIds

Blank == [kind |-> CHOOSE k \in JobKinds : TRUE, status |-> "none", finished |-> 0]

JobsInit ==
  /\ jobs = [i \in JobIds |-> Blank]
  /\ nextId = 1 /\ threads = {} /\ closing = "up"
  /\ cursor = 0 /\ base = MaxJobs + 1 /\ told = {}

-----------------------------------------------------------------------------

Listed == {i \in JobIds : jobs[i].status # "none"}
Active == {i \in JobIds : jobs[i].status \in {"starting", "running"}}
Finished == {i \in JobIds : jobs[i].status = "ended"}

(* _active_locked: a job of this kind may not start beside that one.  The  *)
(* scope of either may cover the other.                                    *)
Covers(k, other) == k \in WildKinds \/ k = other
OwnScopeOnly(k, other) == Covers(k, other)
Conflicts(k, other) == Covers(k, other) \/ Covers(other, k)
Refused(k) == \E i \in Active : Conflicts(k, jobs[i].kind)

(* _prune_locked: of the finished jobs only the MaxRetained highest ids    *)
(* stay.                                                                   *)
Pruned(table) ==
  LET finished == {i \in JobIds : table[i].status = "ended"}
      Later(i) == {j \in finished : j > i}
  IN [i \in JobIds |-> IF i \in finished /\ Cardinality(Later(i)) >= MaxRetained
                       THEN Blank ELSE table[i]]

Inserted(k, status) ==
  Pruned([jobs EXCEPT ![nextId] =
            [kind |-> k, status |-> status, finished |-> 0]])

Registered(k) == IF k \in FileKinds THEN threads \cup {nextId} ELSE threads

(* start.  In the shutdown no request is left, only the scheduler's thread *)
(* may still be in a check.                                                *)
Start(k) ==
  /\ k \notin ReservedKinds /\ nextId <= MaxJobs
  /\ closing = "up" \/ (closing = "waiting" /\ k \in WatchedKinds)
  /\ ~Refused(k)
  /\ jobs' = Inserted(k, "starting")
  /\ nextId' = nextId + 1
  /\ threads' = Registered(k)
  /\ UNCHANGED <<closing, browser>>

(* reserve: the job runs at once, in the request. *)
Reserve(k) ==
  /\ k \in ReservedKinds /\ nextId <= MaxJobs /\ closing = "up"
  /\ ~Refused(k)
  /\ jobs' = Inserted(k, "running")
  /\ nextId' = nextId + 1
  /\ UNCHANGED <<threads, closing, browser>>

(* The runner's first line. *)
Run(i) ==
  /\ jobs[i].status = "starting" /\ closing # "down"
  /\ jobs' = [jobs EXCEPT ![i].status = "running"]
  /\ UNCHANGED <<nextId, threads, closing, browser>>

(* The target returns or raises. *)
Settle(i) ==
  /\ jobs[i].status = "running" /\ closing # "down"
  /\ jobs' = [jobs EXCEPT ![i].status = "ended"]
  /\ UNCHANGED <<nextId, threads, closing, browser>>

(* The `finally`: finished_at - here the rank of the end among the jobs    *)
(* listed - and the thread leaves _filesystem_threads, also when the job   *)
(* was dropped in between.                                                 *)
Rank == Max({jobs[i].finished : i \in JobIds}) + 1
Leave(i) ==
  /\ closing # "down"
  /\ \/ /\ jobs[i].status = "ended" /\ jobs[i].finished = 0
        /\ jobs' = [jobs EXCEPT ![i].finished = Rank]
     \/ jobs[i].status = "none" /\ i \in threads /\ UNCHANGED jobs
  /\ threads' = threads \ {i}
  /\ UNCHANGED <<nextId, closing, browser>>

-----------------------------------------------------------------------------

(* updates: everything after the cursor; with no cursor, or one of an      *)
(* earlier process that is still ahead, what is running now.  -1 is None.  *)
Newest == Max(Listed \cup {0})
OnlyActive(after) == Active
Selected(after) ==
  IF after = -1 \/ after > Newest THEN Active ELSE {i \in Listed : i > after}

(* The browser's poll.  With its bar occupied it keeps the cursor      *)
(* before the first running job it could not show.                         *)
Poll(after) ==
  /\ closing # "down" /\ after \in {cursor} \cup (IF base > MaxJobs THEN {-1} ELSE {})
  /\ LET got == Selected(after)
     IN /\ told' = told \cup got
        /\ \/ cursor' = Newest
           \/ \E i \in got \cap Active : cursor' = i - 1
        /\ base' = IF base > MaxJobs THEN Newest ELSE base
  /\ UNCHANGED <<registry, closing>>

-----------------------------------------------------------------------------

(* wait_for_filesystem_jobs: until none is alive, or the deadline.         *)
Shutdown ==
  /\ closing = "up" /\ ~\E i \in Active : jobs[i].kind \in ReservedKinds
  /\ closing' = "waiting"
  /\ UNCHANGED <<registry, browser>>

Deadline ==
  /\ closing = "waiting" /\ threads # {}
  /\ closing' = "late"
  /\ UNCHANGED <<registry, browser>>

NoWait == TRUE
FilesAtRest == threads = {}
Down ==
  /\ closing = "late" \/ (closing = "waiting" /\ FilesAtRest)
  /\ closing' = "down"
  /\ UNCHANGED <<registry, browser>>

(* The daemon threads die with the process; the browser outlives it.  The  *)
(* model restarts once its jobs are used up, and counts from one again.    *)
Restart ==
  /\ closing = "down"
  /\ jobs' = [i \in JobIds |-> Blank] /\ nextId' = 1 /\ threads' = {}
  /\ closing' = "up"
  /\ base' = MaxJobs + 1 /\ told' = {} /\ UNCHANGED cursor

JobStep(i) == Run(i) \/ Settle(i) \/ Leave(i)

JobsNext ==
  \/ \E k \in JobKinds : Start(k) \/ Reserve(k)
  \/ \E i \in JobIds : JobStep(i)
  \/ \E after \in -1 .. MaxJobs : Poll(after)
  \/ Shutdown \/ Deadline \/ Down \/ Restart

JobsSpec == JobsInit /\ [][JobsNext]_jobsVars

-----------------------------------------------------------------------------

(* No two jobs run whose scopes conflict, in either direction: two archive *)
(* runs never move the same files, and nothing runs beside a restore or a  *)
(* move of the data (jobs.start, reserve).                                 *)
NoConflictingJobs ==
  \A i, j \in Active : i # j => ~Covers(jobs[i].kind, jobs[j].kind)

(* Once the browser has its baseline, every job created since that is      *)
(* still listed and behind its cursor has been reported to it: a poll      *)
(* misses no short job (updates, api/jobs.py).                             *)
PollMissesNone ==
  \A i \in Listed : base < i /\ i <= cursor => i \in told

(* The process does not end under a job that moves files, unless the       *)
(* deadline of the shutdown has passed (main._lifespan).                   *)
NoFileJobCutOff ==
  [][closing = "waiting" /\ closing' = "down" =>
       \A i \in Active : jobs[i].kind \notin FileKinds]_jobsVars

(* Of the finished jobs the one that has been finished longest is dropped  *)
(* first ("past this many, the oldest finished ones are dropped", jobs.py  *)
(* 32-33), so that the browser can read a result after its last poll.      *)
DroppedIsOldest ==
  [][\A i, j \in Finished :
       jobs[i].finished > 0 /\ jobs[j].finished > 0
       /\ jobs'[i].status = "none" /\ jobs'[j].status # "none"
         => jobs[i].finished < jobs[j].finished]_jobsVars
=============================================================================
