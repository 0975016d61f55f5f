------------------------------- MODULE Watch -------------------------------
(***************************************************************************)
(* The check of remote posts on the scheduler's beat (backend/watchers.py, *)
(* backend/scheduler.py): which posts are due, the batch of a pass, and    *)
(* the retry bookkeeping in memory.  A pass is chosen on the scheduler's   *)
(* thread and worked off by a job, while the user goes on editing.         *)
(*                                                                         *)
(* Time is counted in beats of POST_CHECK_SECONDS; instants are kept as    *)
(* the beats since, or until, they happen.                                 *)
(***************************************************************************)
EXTENDS Integers, Sequences, FiniteSets

CONSTANTS
  WatchPosts,    \* local posts with a remote id
  Orphans,       \* remote posts only the usage history knows
  WatchBatch,    \* POST_CHECK_BATCH_SIZE
  Delays,        \* RETRY_DELAYS_SECONDS, in beats
  RefreshEvery,  \* RATING_REFRESH_SECONDS, ORPHAN_REFRESH_SECONDS, in beats
  MaxResets      \* bounds the user's own syncs of one post

MaxChecks == Len(Delays) + 1
Longest == CHOOSE d \in 0 .. 99 : (\A i \in DOMAIN Delays : Delays[i] <= d)
                                  /\ (d = 0 \/ \E i \in DOMAIN Delays : Delays[i] = d)
ASSUME WatchBoundsAssumption ==
  /\ WatchBatch \in Nat \ {0} /\ RefreshEvery \in Nat \ {0}
  /\ Delays \in Seq(Nat \ {0})
  /\ MaxResets \in Nat

VARIABLES
  \* board: "due" is a scheduled post whose publish time has passed, "other" a
  \* state that is not on the board; a rating of one of its images is missing
  place, unrated,
  \* _attempts, _next_attempt_at, _last_rating_check_at ("never": Oldest)
  attempts, until, since,
  \* orphans with active usage rows, those CivitAI has lost, _last_orphan_check_at
  held, lost, orphanSince,
  \* the watch-posts job: what it has yet to check, which of it for publication
  wanted, forPublication, wantedOrphans,
  resets

books     == <<attempts, until, since, orphanSince>>
board    == <<place, unrated, held, lost>>
pass      == <<wanted, forPublication, wantedOrphans>>
watchVars == <<board, books, pass, resets>>

(* An age that exceeds every interval and every other age that can be told *)
(* apart: with one pass per beat each of them is served once in so many.   *)
Oldest == RefreshEvery + Cardinality(WatchPosts) - 1
OldestOrphan == RefreshEvery + Cardinality(Orphans)

WatchTypeOK ==
  /\ place \in [WatchPosts -> {"planned", "due", "published", "other"}]
  /\ unrated \in SUBSET WatchPosts
  /\ attempts \in [WatchPosts -> 0 .. MaxChecks]
  /\ until \in [WatchPosts -> 0 .. Longest]
  /\ since \in [WatchPosts -> 0 .. Oldest]
  /\ held \in SUBSET Orphans /\ lost \in SUBSET Orphans
  /\ orphanSince \in [Orphans -> 0 .. OldestOrphan]
  /\ wanted \in SUBSET WatchPosts /\ forPublication \in SUBSET WatchPosts
  /\ wantedOrphans \in SUBSET Orphans /\ resets \in 0 .. MaxResets

WatchInit ==
  /\ place = [p \in WatchPosts |-> "planned"] /\ unrated = WatchPosts
  /\ attempts = [p \in WatchPosts |-> 0]
  /\ until = [p \in WatchPosts |-> 0]
  /\ since = [p \in WatchPosts |-> Oldest]
  /\ held = Orphans /\ lost = {}
  /\ orphanSince = [o \in Orphans |-> RefreshEvery]
  /\ wanted = {} /\ forPublication = {} /\ wantedOrphans = {}
  /\ resets = 0

-----------------------------------------------------------------------------

OnBoard(p) == place[p] # "other"
Passed(p) == place[p] \in {"due", "published"}

(* check_due_posts, for one candidate. *)
RatingDue(p) == since[p] >= IF p \in unrated THEN 1 ELSE RefreshEvery
PublicationDue(p) == Passed(p) /\ attempts[p] < MaxChecks /\ until[p] = 0
Eligible == {p \in WatchPosts : OnBoard(p) /\ (RatingDue(p) \/ PublicationDue(p))}

(* Missing ratings first, then a due publication, then the refresh; within *)
(* a group the oldest rating read.  Ties go by the publish time.           *)
Priority(p) == IF p \in unrated THEN 0 ELSE IF PublicationDue(p) THEN 1 ELSE 2
ByGroupOnly(p, q) == Priority(p) < Priority(q)
Before(p, q) ==
  Priority(p) < Priority(q) \/ (Priority(p) = Priority(q) /\ since[p] > since[q])
Least(a, b) == IF a < b THEN a ELSE b
Batches(queue, First(_, _)) ==
  {b \in SUBSET queue :
     /\ Cardinality(b) = Least(WatchBatch, Cardinality(queue))
     /\ \A p \in b : \A q \in queue \ b : ~First(q, p)}

OrphansDue == {o \in held : orphanSince[o] >= RefreshEvery}
OrphanBefore(o, q) == orphanSince[o] > orphanSince[q]

(* One beat of the scheduler: the clocks move on, then the check.  A pass  *)
(* still running refuses the new one; a post that left the board takes its *)
(* bookkeeping with it either way.                                         *)
Aged(age, oldest) == Least(age + 1, oldest)
Idle == wanted = {} /\ wantedOrphans = {}

AgedBooks ==
  /\ attempts' = [p \in WatchPosts |-> IF OnBoard(p) THEN attempts[p] ELSE 0]
  /\ until' = [p \in WatchPosts |->
       IF OnBoard(p) /\ until[p] > 0 THEN until[p] - 1 ELSE 0]
  /\ since' = [p \in WatchPosts |-> IF OnBoard(p) THEN Aged(since[p], Oldest) ELSE Oldest]
  /\ orphanSince' = [o \in Orphans |->
       IF o \in held THEN Aged(orphanSince[o], OldestOrphan) ELSE RefreshEvery]

Beat ==
  /\ AgedBooks
  /\ UNCHANGED <<board, resets>>
  /\ IF ~Idle THEN UNCHANGED pass
     ELSE /\ wanted' \in Batches(Eligible, Before)
          /\ forPublication' = {p \in wanted' : PublicationDue(p)}
          /\ wantedOrphans' \in Batches(OrphansDue, OrphanBefore)

-----------------------------------------------------------------------------
(* The job: run(job). *)

CheckedNow(p) == since' = [since EXCEPT ![p] = 0]
Done(p) == wanted' = wanted \ {p} /\ forPublication' = forPublication \ {p}

(* sync_one fails: the rating counts as read, the ladder stays.            *)
CheckFails(p) ==
  /\ p \in wanted
  /\ CheckedNow(p) /\ Done(p)
  /\ UNCHANGED <<board, attempts, until, orphanSince, wantedOrphans, resets>>

(* The post is gone, locally or on CivitAI, or it has left the board       *)
(* meanwhile.                                                              *)
CheckFindsNothing(p) ==
  /\ p \in wanted
  /\ place' = [place EXCEPT ![p] = "other"]
  /\ CheckedNow(p) /\ Done(p)
  /\ UNCHANGED <<unrated, held, lost, attempts, until, orphanSince, wantedOrphans, resets>>

(* It reads what CivitAI holds; then the facts still missing decide.       *)
StillMissing(p, now) == now = "due"
Check(p, now, rated) ==
  /\ p \in wanted /\ OnBoard(p)
  /\ now \in (CASE place[p] = "planned" -> {"planned", "published"}
                [] place[p] = "due" -> {"due", "published"}
                [] place[p] = "published" -> {"published"})
  /\ place' = [place EXCEPT ![p] = now]
  /\ unrated' = IF rated THEN unrated \ {p} ELSE unrated
  /\ CheckedNow(p) /\ Done(p)
  /\ IF p \notin forPublication
     THEN UNCHANGED <<attempts, until>>
     ELSE IF StillMissing(p, now)
     THEN /\ attempts' = [attempts EXCEPT ![p] = @ + 1]
          /\ until' = [until EXCEPT ![p] =
               IF attempts[p] + 1 >= MaxChecks THEN @ ELSE Delays[attempts[p] + 1]]
     ELSE /\ attempts' = [attempts EXCEPT ![p] = MaxChecks]
          /\ until' = [until EXCEPT ![p] = 0]
  /\ UNCHANGED <<held, lost, orphanSince, wantedOrphans, resets>>

(* check_orphaned_usage: withdrawn only when CivitAI says NotFound.        *)
Releases(o, answer) == answer = "missing"
CheckOrphan(o, answer) ==
  /\ o \in wantedOrphans /\ wanted = {}
  /\ answer \in {"error", IF o \in lost THEN "missing" ELSE "present"}
  /\ held' = IF Releases(o, answer) THEN held \ {o} ELSE held
  /\ orphanSince' = [orphanSince EXCEPT ![o] = 0]
  /\ wantedOrphans' = wantedOrphans \ {o}
  /\ UNCHANGED <<place, unrated, lost, attempts, until, since, wanted, forPublication, resets>>

-----------------------------------------------------------------------------
(* The world: publish times pass, the user takes posts off the board and   *)
(* back or asks for a sync of one (reset_post), CivitAI loses a post.      *)

TimePasses(p) ==
  /\ place[p] = "planned" /\ place' = [place EXCEPT ![p] = "due"]
  /\ UNCHANGED <<unrated, held, lost, books, pass, resets>>

Leaves(p) ==
  /\ OnBoard(p) /\ place' = [place EXCEPT ![p] = "other"]
  /\ UNCHANGED <<unrated, held, lost, books, pass, resets>>

ResetPost(p) ==
  /\ OnBoard(p) /\ resets < MaxResets /\ resets' = resets + 1
  /\ attempts' = [attempts EXCEPT ![p] = 0] /\ until' = [until EXCEPT ![p] = 0]
  /\ since' = [since EXCEPT ![p] = Oldest]
  /\ UNCHANGED <<board, orphanSince, pass>>

OrphanLost(o) ==
  /\ o \notin lost /\ lost' = lost \cup {o}
  /\ UNCHANGED <<place, unrated, held, books, pass, resets>>

JobStepWatch ==
  \/ \E p \in WatchPosts :
       \/ CheckFails(p) \/ CheckFindsNothing(p)
       \/ \E now \in {"planned", "due", "published"}, rated \in BOOLEAN : Check(p, now, rated)
  \/ \E o \in Orphans, answer \in {"error", "missing", "present"} : CheckOrphan(o, answer)

WatchNext ==
  \/ Beat \/ JobStepWatch
  \/ \E p \in WatchPosts : TimePasses(p) \/ Leaves(p) \/ ResetPost(p)
  \/ \E o \in Orphans : OrphanLost(o)

(* The scheduler beats and the job works; nobody else owes anything.       *)
WatchFairness == WF_watchVars(Beat) /\ WF_watchVars(JobStepWatch)
WatchSpec == WatchInit /\ [][WatchNext]_watchVars /\ WatchFairness

-----------------------------------------------------------------------------

(* A post whose rating is missing is read again and again while it is on   *)
(* the board: the bounded batch goes round among them (check_due_posts).   *)
RatingsGoRound ==
  \A p \in WatchPosts :
    [](OnBoard(p) /\ p \in unrated
         => <>(since[p] = 0 \/ ~OnBoard(p) \/ p \notin unrated))

(* "The oldest rating read wins within a group so the ten-post bound       *)
(* cannot starve later posts" (watchers.py 219-221): a publication that is *)
(* due is looked at in the end.                                            *)
DueIsLookedAt ==
  \A p \in WatchPosts :
    [](OnBoard(p) /\ PublicationDue(p)
         => <>(since[p] = 0 \/ ~OnBoard(p) \/ ~PublicationDue(p)))
=============================================================================
