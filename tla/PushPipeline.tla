--------------------------- MODULE PushPipeline ---------------------------
(***************************************************************************)
(* The push pipeline (backend/posts/push.py with store/runs.py,            *)
(* posts/reconcile.py, posts/sync.py and the user's operations on a post): *)
(* one worker thread takes the posts of a run to CivitAI, every step       *)
(* commit -> HTTP -> commit.  The process may die between any two steps;   *)
(* the site may lose a request or its answer; the user and the account's   *)
(* owner act on posts and drafts in between.                               *)
(*                                                                         *)
(* An HTTP call and the local commits before and after it are different    *)
(* actions wherever the world can change in between.  sync_one, a readback *)
(* followed by commits on the same post, is one action here.               *)
(***************************************************************************)
EXTENDS Lifecycle, Integers

CONSTANTS
  Posts,       \* local posts
  Images,      \* the images of each post
  Remotes,     \* ids CivitAI may give out: bounds the creations
  Modes,       \* publish modes in use
  MaxRuns,     \* bounds the number of push runs
  MixUps,      \* may another post's draft be taken for this post's one?
  TornDelete,  \* can something happen between the commits of delete_remote?
  NoPost, NoRemote, NoImage

ASSUME NoneAssumption ==
  NoPost \notin Posts /\ NoRemote \notin Remotes /\ NoImage \notin Images
ASSUME MaxRunsAssumption == MaxRuns \in Nat
ASSUME ModesAssumption == Modes \subseteq {"draft_only", "now", "schedule"}
ASSUME SwitchAssumption == MixUps \in BOOLEAN /\ TornDelete \in BOOLEAN

Runs == 1 .. MaxRuns

VARIABLES
  \* posts, post_images and the transient rows of post_tags
  mode, state, remoteId, pubAt, img, markers,
  \* push_runs and push_items.  `open`: the newest run has status 'running';
  \* `status`: of the newest run's items, no step reads an older one's;
  \* `item`: the create attempt each item records
  runs, open, status, item,
  \* the worker thread: its place, the post it works on, and what it read
  \* of that post before (remote id, has a publish time), the images it has
  \* planned, the one whose attachment was answered, was a time applied
  pc, cur, bound, dated, todo, shot, kept,
  \* a request of the user that is half way through
  usr,
  \* CivitAI: who a post was created for, which exist, the marker tag, the
  \* publish time, who set it, how often an image hangs on the post
  owner, live, siteTag, siteTime, setBy, att

local  == <<state, remoteId, pubAt, img, markers>>
table  == <<runs, open, status, item>>
thread == <<pc, cur, bound, dated, todo, shot, kept>>
site   == <<owner, live, siteTag, siteTime, setBy, att>>
vars   == <<mode, local, table, thread, usr, site>>

ItemStatus == {"none", "pending", "running", "done", "error", "skipped"}

(* push_items: `tag` is the run whose marker the recorded create attempt   *)
(* carried (reconcile_tag, with create_attempted_at), 0 for no attempt.    *)
Item == [tag : 0 .. MaxRuns, remote : Remotes \cup {NoRemote}]
NoItem == [tag |-> 0, remote |-> NoRemote]

Labels == {"idle", "down", "loop", "claim", "lookback", "find", "readopted",
           "preflight", "attempt", "create", "created", "tags", "upload",
           "attach", "attached", "publish", "stamp", "record", "confirm",
           "finish", "failing", "failed"}

IdleUser == [at |-> "idle", post |-> NoPost, remote |-> NoRemote]

LocalTypes ==
  /\ state \in [Posts -> ALL_STATES]
  /\ remoteId \in [Posts -> Remotes \cup {NoRemote}]
  /\ pubAt \in [Posts -> Times]
  /\ img \in [Posts -> [Images -> {"new", "staged", "attached"}]]
  /\ markers \in [Posts -> SUBSET Runs]

TableTypes ==
  /\ runs \in 0 .. MaxRuns
  /\ open \in BOOLEAN
  /\ status \in [Posts -> ItemStatus]
  /\ item \in [Runs -> [Posts -> Item]]

ThreadTypes ==
  /\ pc \in Labels
  /\ cur \in Posts \cup {NoPost}
  /\ bound \in Remotes \cup {NoRemote}
  /\ dated \in BOOLEAN
  /\ todo \in SUBSET Images
  /\ shot \in Images \cup {NoImage}
  /\ kept \in BOOLEAN

RequestType ==
  usr \in [at : {"idle", "fields", "clear", "draft"},
          post : Posts \cup {NoPost}, remote : Remotes \cup {NoRemote}]

SiteTypes ==
  /\ owner \in [Remotes -> Posts \cup {NoPost}]
  /\ live \in SUBSET Remotes
  /\ siteTag \in [Remotes -> 0 .. MaxRuns]
  /\ siteTime \in [Remotes -> Times]
  /\ setBy \in [Remotes -> {"nobody", "push", "reschedule", "owner"}]
  /\ att \in [Remotes -> [Images -> 0 .. 2]]

TypeOK ==
  /\ mode \in [Posts -> Modes]
  /\ LocalTypes /\ TableTypes /\ ThreadTypes /\ RequestType /\ SiteTypes

Init ==
  /\ mode \in [Posts -> Modes]
  /\ state = [p \in Posts |-> "ready"]
  /\ remoteId = [p \in Posts |-> NoRemote]
  /\ pubAt = [p \in Posts |-> "none"]
  /\ img = [p \in Posts |-> [i \in Images |-> "new"]]
  /\ markers = [p \in Posts |-> {}]
  /\ runs = 0 /\ open = FALSE
  /\ status = [p \in Posts |-> "none"]
  /\ item = [k \in Runs |-> [p \in Posts |-> NoItem]]
  /\ pc = "idle" /\ cur = NoPost /\ bound = NoRemote /\ dated = FALSE
  /\ todo = {} /\ shot = NoImage /\ kept = FALSE
  /\ usr = IdleUser
  /\ owner = [r \in Remotes |-> NoPost]
  /\ live = {}
  /\ siteTag = [r \in Remotes |-> 0]
  /\ siteTime = [r \in Remotes |-> "none"]
  /\ setBy = [r \in Remotes |-> "nobody"]
  /\ att = [r \in Remotes |-> [i \in Images |-> 0]]

-----------------------------------------------------------------------------
(* What several operations share. *)

(* The thread's variables go back to nothing between posts, so that a      *)
(* value no step reads again does not tell states apart.                   *)
Rest(label) ==
  /\ pc' = label /\ cur' = NoPost /\ bound' = NoRemote /\ dated' = FALSE
  /\ todo' = {} /\ shot' = NoImage /\ kept' = FALSE

(* Only the place of the thread changes. *)
Goto(label) ==
  /\ pc' = label
  /\ UNCHANGED <<cur, bound, dated, todo, shot, kept>>

(* An exception leaves push_one; push_posts hands the post to _fail. *)
Abandon ==
  /\ pc' = "failing" /\ cur' = cur /\ bound' = NoRemote /\ dated' = FALSE
  /\ todo' = {} /\ shot' = NoImage /\ kept' = FALSE

(* The images of post p no run has attached yet. *)
Unattached(p) == {i \in Images : img[p][i] # "attached"}

(* _map_image_ids: an uploaded image found on the site is an attached one. *)
Learned(p, r) ==
  [i \in Images |-> IF owner[r] = p /\ img[p][i] = "staged" /\ att[r][i] > 0
                    THEN "attached" ELSE img[p][i]]

(* sync_one for post p after a read of r that shows publish time `time`.   *)
(* The list of images is a second request: it may fail, and then no image  *)
(* id is learned.                                                          *)
Synced(p, r, time) ==
  /\ pubAt' = [pubAt EXCEPT ![p] = time]
  /\ state' = [state EXCEPT ![p] = Moved(@, StateFor(time))]
  /\ img' \in {img, [img EXCEPT ![p] = Learned(p, r)]}

(* sync_one when the site answers that the post does not exist. *)
MarkedMissing(p) ==
  /\ state' = [state EXCEPT ![p] = Moved(@, "remote_missing")]
  /\ UNCHANGED <<pubAt, img>>

(* sync_one(p): no remote id or no answer changes nothing the model keeps. *)
SyncOne(p) ==
  \/ UNCHANGED <<state, pubAt, img>>
  \/ remoteId[p] \in live /\ Synced(p, remoteId[p], siteTime[remoteId[p]])
  \/ remoteId[p] \in Remotes \ live /\ MarkedMissing(p)

(* set_item on the item the newest run has for p. *)
WithTag(p, tag)  == [item EXCEPT ![runs][p] = [tag |-> tag, remote |-> @.remote]]
WithRemote(p, r) == [item EXCEPT ![runs][p] = [tag |-> @.tag, remote |-> r]]

(* The item of run j says an attempt at p is open. *)
OpenAttempt(p, j) == item[j][p].tag # 0 /\ item[j][p].remote = NoRemote

(* unresolved_attempt: other runs than k with an open attempt at post p. *)
UnresolvedOwnRunOnly(p, k) == {j \in {k} : OpenAttempt(p, j)}
Unresolved(p, k) == {j \in Runs \ {k} : OpenAttempt(p, j)}

(* No local post holds remote id r. *)
Unknown(r) == \A p \in Posts : remoteId[p] # r

-----------------------------------------------------------------------------
(* push_posts: the run and its posts. *)

(* create_run: a row for the run and a fresh, pending item for each post. *)
(* The exclusive job "push" admits no second run.                         *)
StartRun(S) ==
  /\ pc = "idle" /\ runs < MaxRuns /\ S # {}
  /\ runs' = runs + 1
  /\ open' = TRUE
  /\ status' = [p \in Posts |-> IF p \in S THEN "pending" ELSE "none"]
  /\ Rest("loop")
  /\ UNCHANGED <<mode, item, local, usr, site>>

(* The next post of the list; push_one sets its item running. *)
TakePost(p) ==
  /\ pc = "loop" /\ status[p] = "pending"
  /\ status' = [status EXCEPT ![p] = "running"]
  /\ pc' = "claim" /\ cur' = p
  /\ UNCHANGED <<bound, dated, todo, shot, kept, runs, open, item, mode, local, usr, site>>

(* job.should_stop(): the posts left are marked skipped. *)
CancelRest ==
  /\ pc = "loop" /\ \E p \in Posts : status[p] = "pending"
  /\ status' = [p \in Posts |-> IF status[p] = "pending" THEN "skipped" ELSE status[p]]
  /\ UNCHANGED <<thread, runs, open, item, mode, local, usr, site>>

(* finish_run after the last post. *)
FinishRun ==
  /\ pc = "loop" /\ \A p \in Posts : status[p] # "pending"
  /\ open' = FALSE
  /\ Rest("idle")
  /\ UNCHANGED <<runs, status, item, mode, local, usr, site>>

-----------------------------------------------------------------------------
(* push_one, up to the moment the post exists on CivitAI. *)

(* The post is read, then moved to PUSHING; a refused edge ends it here. *)
Claim ==
  /\ pc = "claim"
  /\ IF Allowed(state[cur], "pushing")
     THEN /\ state' = [state EXCEPT ![cur] = "pushing"]
          /\ bound' = remoteId[cur]
          /\ dated' = (pubAt[cur] # "none")
          /\ pc' = "lookback"
          /\ UNCHANGED <<cur, todo, shot, kept>>
     ELSE Abandon /\ UNCHANGED state
  /\ UNCHANGED <<remoteId, pubAt, img, markers, table, mode, usr, site>>

(* Without a remote id, the latest attempt another run left open is taken  *)
(* over into this run's item, and the post must be found, not created.     *)
LookBack ==
  LET earlier == Unresolved(cur, runs) IN
  /\ pc = "lookback"
  /\ IF bound = NoRemote /\ earlier # {}
     THEN /\ \E k \in earlier : /\ \A j \in earlier : j <= k
                                /\ item' = WithTag(cur, item[k][cur].tag)
          /\ Goto("find")
     ELSE /\ pc' = "preflight" /\ todo' = Unattached(cur)
          /\ UNCHANGED <<item, cur, bound, dated, shot, kept>>
  /\ UNCHANGED <<runs, open, status, local, mode, usr, site>>

(* What auto_adopt may take for the post: a draft in the listing that no   *)
(* local post holds and that carries the marker - or, with MixUps, one     *)
(* whose title and time of creation are close enough (candidates).         *)
Candidates(p) ==
  {r \in live : /\ Unknown(r) /\ siteTime[r] # "past"
                /\ \/ owner[r] = p /\ siteTag[r] = item[runs][p].tag
                   \/ MixUps}

(* auto_adopt binds the candidate and reads it back. *)
FindAdopts(r) ==
  /\ pc = "find" /\ r \in Candidates(cur)
  /\ remoteId' = [remoteId EXCEPT ![cur] = r]
  /\ \/ Synced(cur, r, siteTime[r])
     \/ UNCHANGED <<state, pubAt, img>>
  /\ Goto("readopted")
  /\ UNCHANGED <<markers, table, mode, usr, site>>

(* The listing cannot be read, or shows none or several: the account's own *)
(* drafts usually do not appear in it.                                     *)
FindNothing ==
  /\ pc = "find"
  /\ state' = [state EXCEPT ![cur] = "needs_reconcile"]
  /\ Abandon
  /\ UNCHANGED <<remoteId, pubAt, img, markers, table, mode, usr, site>>

(* adopt raises: the candidate is known by now, gone, or unreadable. *)
FindFails ==
  /\ pc = "find" /\ Abandon
  /\ UNCHANGED <<local, table, mode, usr, site>>

(* After an adoption the post goes back to PUSHING and is read again; only *)
(* this run's item learns the remote id.                                   *)
Readopted ==
  /\ pc = "readopted"
  /\ IF Allowed(state[cur], "pushing")
     THEN /\ state' = [state EXCEPT ![cur] = "pushing"]
          /\ item' = WithRemote(cur, remoteId[cur])
          /\ pc' = "preflight" /\ bound' = remoteId[cur]
          /\ dated' = (pubAt[cur] # "none")
          /\ todo' = Unattached(cur)
          /\ UNCHANGED <<cur, shot, kept>>
     ELSE Abandon /\ UNCHANGED <<state, item>>
  /\ UNCHANGED <<runs, open, status, remoteId, pubAt, img, markers, mode, usr, site>>

(* The first step the post still needs: the cursor of a new run starts     *)
(* before the tags, whatever an earlier run has done.                      *)
TrustRemoteId == IF bound = NoRemote THEN "attempt" ELSE "publish"
AfterPreflight == IF bound = NoRemote THEN "attempt" ELSE "tags"

PreflightPasses ==
  /\ pc = "preflight"
  /\ Goto(AfterPreflight)
  /\ UNCHANGED <<local, table, mode, usr, site>>

(* A validation error, an unacknowledged warning or a changed file. *)
PreflightFails ==
  /\ pc = "preflight" /\ Abandon
  /\ UNCHANGED <<local, table, mode, usr, site>>

(* ratelimit.check holds: PushAborted ends the whole run.  The post stays  *)
(* in PUSHING and the posts behind it keep a pending item.                 *)
PreflightHolds ==
  /\ pc = "preflight"
  /\ status' = [status EXCEPT ![cur] = "skipped"]
  /\ open' = FALSE
  /\ Rest("idle")
  /\ UNCHANGED <<runs, item, local, mode, usr, site>>

(* create_attempted_at and reconcile_tag in this run's item. *)
NotAttempted == item
Attempted == WithTag(cur, runs)

(* _create, the commit before the call: the attempt and its marker. *)
RecordAttempt ==
  /\ pc = "attempt"
  /\ item' = Attempted
  /\ markers' = [markers EXCEPT ![cur] = @ \cup {runs}]
  /\ Goto("create")
  /\ UNCHANGED <<runs, open, status, state, remoteId, pubAt, img, mode, usr, site>>

(* post.create did not land.  The call is never repeated. *)
CreateFails ==
  /\ pc = "create" /\ Abandon
  /\ UNCHANGED <<local, table, mode, usr, site>>

(* post.create landed: a new, empty draft with the marker on it.  The      *)
(* answer arrives or is lost.                                              *)
CreateLands(r) ==
  /\ pc = "create" /\ owner[r] = NoPost
  /\ owner' = [owner EXCEPT ![r] = cur]
  /\ live' = live \cup {r}
  /\ siteTag' = [siteTag EXCEPT ![r] = runs]
  /\ \/ Abandon
     \/ /\ pc' = "created" /\ bound' = r
        /\ UNCHANGED <<cur, dated, todo, shot, kept>>
  /\ UNCHANGED <<siteTime, setBy, att, local, table, mode, usr>>

(* _create, the commit after the call.  posts.remote_post_id is UNIQUE. *)
RecordCreated ==
  /\ pc = "created"
  /\ IF Unknown(bound)
     THEN /\ remoteId' = [remoteId EXCEPT ![cur] = bound]
          /\ pubAt' = [pubAt EXCEPT ![cur] = "none"]
          /\ item' = WithRemote(cur, bound)
          /\ pc' = "tags" /\ dated' = FALSE
          /\ UNCHANGED <<cur, bound, todo, shot, kept>>
     ELSE Abandon /\ UNCHANGED <<remoteId, pubAt, item>>
  /\ UNCHANGED <<runs, open, status, state, img, markers, mode, usr, site>>

-----------------------------------------------------------------------------
(* push_one, from the empty draft to the confirmed post. *)

(* The marker may still be on the post: the push must not go on. *)
LeaveMarker == Goto("upload")
MarkerStuck == Abandon

(* _sync_tags without a marker row: only ordinary tags, best effort. *)
TagsPlain ==
  /\ pc = "tags" /\ markers[cur] = {}
  /\ Goto("upload")
  /\ UNCHANGED <<local, table, mode, usr, site>>

(* The remote tags cannot be read, or a marker cannot be removed: the push *)
(* stops.  Markers dealt with before are dropped; one whose removal landed *)
(* without an answer keeps its row.                                        *)
TagsFail(dropped, removed) ==
  /\ pc = "tags" /\ markers[cur] # {}
  /\ dropped \subseteq markers[cur] /\ dropped # markers[cur]
  /\ dropped # {} \/ removed => bound \in live
  /\ siteTag' = IF /\ owner[bound] = cur
                   /\ siteTag[bound] \in (IF removed THEN markers[cur] ELSE dropped)
                THEN [siteTag EXCEPT ![bound] = 0] ELSE siteTag
  /\ markers' = [markers EXCEPT ![cur] = @ \ dropped]
  /\ MarkerStuck
  /\ UNCHANGED <<state, remoteId, pubAt, img, owner, live, siteTime, setBy, att,
                 table, mode, usr>>

(* Every marker of this post is off the remote post: removed now, or       *)
(* confirmed absent.  A marker of another post has another name.           *)
TagsCleared ==
  /\ pc = "tags" /\ markers[cur] # {} /\ bound \in live
  /\ siteTag' = IF owner[bound] = cur /\ siteTag[bound] \in markers[cur]
                THEN [siteTag EXCEPT ![bound] = 0] ELSE siteTag
  /\ markers' = [markers EXCEPT ![cur] = {}]
  /\ Goto("upload")
  /\ UNCHANGED <<state, remoteId, pubAt, img, owner, live, siteTime, setBy, att,
                 table, mode, usr>>

(* _upload_images: one image the plan still lacks is staged and recorded;  *)
(* one staged by an earlier attempt and still fresh is taken as it is.     *)
Upload(i) ==
  /\ pc = "upload" /\ i \in todo
  /\ img' = [img EXCEPT ![cur][i] = IF @ = "new" THEN "staged" ELSE @]
  /\ todo' = todo \ {i}
  /\ UNCHANGED <<pc, cur, bound, dated, shot, kept, state, remoteId, pubAt, markers,
                 table, mode, usr, site>>

UploadFails ==
  /\ pc = "upload" /\ todo # {} /\ Abandon
  /\ UNCHANGED <<local, table, mode, usr, site>>

(* All staged; the images are read again for the attaching. *)
Uploaded ==
  /\ pc = "upload" /\ todo = {}
  /\ pc' = "attach" /\ todo' = Unattached(cur)
  /\ UNCHANGED <<cur, bound, dated, shot, kept, local, table, mode, usr, site>>

(* post.addImage lands, once or - the client repeats it - more often.      *)
(* Its answer arrives, or the last one is lost.                            *)
AttachLands(i, times) ==
  /\ pc = "attach" /\ i \in todo /\ bound \in live
  /\ img[cur][i] # "new"
  /\ att' = [att EXCEPT ![bound][i] = IF @ + times > 2 THEN 2 ELSE @ + times]
  /\ \/ Abandon
     \/ /\ pc' = "attached" /\ shot' = i
        /\ UNCHANGED <<cur, bound, dated, todo, kept>>
  /\ UNCHANGED <<owner, live, siteTag, siteTime, setBy, local, table, mode, usr>>

(* The commit after the call: record_attachment. *)
RecordAttachment ==
  /\ pc = "attached"
  /\ img' = [img EXCEPT ![cur][shot] = "attached"]
  /\ todo' = todo \ {shot}
  /\ pc' = "attach" /\ shot' = NoImage
  /\ UNCHANGED <<cur, bound, dated, kept, state, remoteId, pubAt, markers,
                 table, mode, usr, site>>

(* No answer and nothing landed, an image without upload key, or - after   *)
(* the last one - an image setting that could not be applied.              *)
AttachFails ==
  /\ pc = "attach" /\ Abandon
  /\ UNCHANGED <<local, table, mode, usr, site>>

(* The loop over the images ends when none is left. *)
SomeAttached == todo # Images
NoneLeft == todo = {}

AttachedAll ==
  /\ pc = "attach" /\ NoneLeft
  /\ Goto("publish")
  /\ UNCHANGED <<local, table, mode, usr, site>>

(* _apply_publish: nothing to do for a draft, or the time is known. *)
PublishNothing ==
  /\ pc = "publish"
  /\ mode[cur] = "draft_only" \/ (mode[cur] = "schedule" /\ dated)
  /\ pc' = "confirm" /\ kept' = (mode[cur] = "schedule")
  /\ UNCHANGED <<cur, bound, dated, todo, shot, local, table, mode, usr, site>>

(* publish_post(): the post goes live; the answer arrives or is lost. *)
PublishNow ==
  /\ pc = "publish" /\ mode[cur] = "now" /\ bound \in live
  /\ siteTime' = [siteTime EXCEPT ![bound] = "past"]
  /\ setBy' = [setBy EXCEPT ![bound] = IF siteTime[bound] = "past" THEN @ ELSE "push"]
  /\ \/ Abandon
     \/ /\ pc' = "confirm" /\ kept' = TRUE
        /\ UNCHANGED <<cur, bound, dated, todo, shot>>
  /\ UNCHANGED <<owner, live, siteTag, att, local, table, mode, usr>>

(* Scheduling reads first: a time that is there already is only recorded. *)
ReadTime ==
  /\ pc = "publish" /\ mode[cur] = "schedule" /\ ~dated /\ bound \in live
  /\ Goto(IF siteTime[bound] = "none" THEN "stamp" ELSE "record")
  /\ UNCHANGED <<local, table, mode, usr, site>>

(* post.update with the time, sent once and read back. *)
SendTime ==
  /\ pc = "stamp" /\ bound \in live /\ siteTime[bound] # "past"
  /\ siteTime' = [siteTime EXCEPT ![bound] = "future"]
  /\ setBy' = [setBy EXCEPT ![bound] = "push"]
  /\ \/ Abandon
     \/ Goto("record")
  /\ UNCHANGED <<owner, live, siteTag, att, local, table, mode, usr>>

(* No answer, the post is gone, no time is set, or it is too near. *)
PublishFails ==
  /\ \/ pc = "publish" /\ (mode[cur] = "now" \/ (mode[cur] = "schedule" /\ ~dated))
     \/ pc = "stamp"
  /\ Abandon
  /\ UNCHANGED <<local, table, mode, usr, site>>

(* _record_publish_time: time and state in one commit; a refused edge      *)
(* rolls it back.                                                          *)
RecordTime ==
  LET target == StateFor(siteTime[bound]) IN
  /\ pc = "record"
  /\ IF Allowed(state[cur], target)
     THEN /\ pubAt' = [pubAt EXCEPT ![cur] = siteTime[bound]]
          /\ state' = [state EXCEPT ![cur] = target]
          /\ pc' = "confirm" /\ kept' = TRUE
          /\ UNCHANGED <<cur, bound, dated, todo, shot>>
     ELSE Abandon /\ UNCHANGED <<pubAt, state>>
  /\ UNCHANGED <<remoteId, img, markers, table, mode, usr, site>>

(* Confirming: the post is read back.  A scheduled post must show the time *)
(* that was set; someone else may have moved it since.                     *)
ConfirmReads ==
  /\ pc = "confirm" /\ remoteId[cur] \in live
  /\ Synced(cur, remoteId[cur], siteTime[remoteId[cur]])
  /\ \/ Goto("finish")
     \/ mode[cur] = "schedule" /\ setBy[remoteId[cur]] # "push" /\ Abandon
  /\ UNCHANGED <<remoteId, markers, table, mode, usr, site>>

(* The readback fails or finds no post: sync_one reports that and does not *)
(* raise.  Only a scheduled post is checked against the answer.            *)
ConfirmFails ==
  /\ pc = "confirm"
  /\ \/ UNCHANGED <<state, pubAt, img>>
     \/ remoteId[cur] \in Remotes \ live /\ MarkedMissing(cur)
  /\ IF mode[cur] = "schedule" /\ kept THEN Abandon ELSE Goto("finish")
  /\ UNCHANGED <<remoteId, markers, table, mode, usr, site>>

(* VERIFIED, snapshot_pushed, DONE. *)
FinishPost ==
  /\ pc = "finish"
  /\ status' = [status EXCEPT ![cur] = "done"]
  /\ Rest("loop")
  /\ UNCHANGED <<runs, open, item, local, mode, usr, site>>

-----------------------------------------------------------------------------
(* A push that failed, and a process that died. *)

(* _fail reads the post back first: an attachment whose answer was lost is *)
(* learned here.                                                           *)
FailSync ==
  /\ pc = "failing"
  /\ SyncOne(cur)
  /\ Goto("failed")
  /\ UNCHANGED <<remoteId, markers, table, mode, usr, site>>

(* A failed post does not stop the run, and it is not tried again. *)
TryAgain ==
  /\ pc' = "claim" /\ cur' = cur
  /\ UNCHANGED <<bound, dated, todo, shot, kept>>
OnToTheNext == Rest("loop")

(* Then the item is an error, and a post still PUSHING gets the state its  *)
(* remote id and its publish time call for.                                *)
FailRecords ==
  LET target == IF remoteId[cur] = NoRemote THEN "failed" ELSE StateFor(pubAt[cur]) IN
  /\ pc = "failed"
  /\ status' = [status EXCEPT ![cur] = "error"]
  /\ state' = IF state[cur] = "pushing" THEN [state EXCEPT ![cur] = target] ELSE state
  /\ OnToTheNext
  /\ UNCHANGED <<runs, open, item, remoteId, pubAt, img, markers, mode, usr, site>>

(* The process dies: the thread and a half-done request are gone. *)
Crash ==
  /\ pc # "down" /\ (pc # "idle" \/ usr # IdleUser)
  /\ Rest("down")
  /\ usr' = IdleUser
  /\ UNCHANGED <<mode, local, table, site>>

(* recover_interrupted at the next start, in one transaction: posts left   *)
(* in PUSHING get a resumable state, running items become errors.          *)
RecoveredUnnamed(p) ==
  IF remoteId[p] # NoRemote THEN StateFor(pubAt[p]) ELSE "interrupted"
RecoveredState(p) ==
  IF remoteId[p] # NoRemote THEN StateFor(pubAt[p])
  ELSE IF open /\ item[runs][p].tag # 0 /\ item[runs][p].remote = NoRemote
       THEN "needs_reconcile" ELSE "failed"

Recover ==
  /\ pc = "down"
  /\ state' = [p \in Posts |-> IF state[p] = "pushing" THEN RecoveredState(p)
                                                      ELSE state[p]]
  /\ status' = [p \in Posts |-> IF status[p] = "running" THEN "error" ELSE status[p]]
  /\ open' = FALSE
  /\ Rest("idle")
  /\ UNCHANGED <<runs, item, remoteId, pubAt, img, markers, mode, usr, site>>

-----------------------------------------------------------------------------
(* The user's operations.  Each request is refused with 409 while the post *)
(* is PUSHING (guard_post_mutation), whatever the thread is doing; the     *)
(* interface sends one at a time.                                          *)
UserMay(p) == pc # "down" /\ usr = IdleUser /\ state[p] # "pushing"

(* ready, unready and archive: bare transitions. *)
MarkState(p, target) ==
  /\ UserMay(p)
  /\ \/ target \in {"ready", "draft"} /\ target \in TRANSITIONS[state[p]]
     \/ target = "archived" /\ state[p] # target /\ Archivable(state[p], pubAt[p])
  /\ state' = [state EXCEPT ![p] = target]
  /\ UNCHANGED <<mode, remoteId, pubAt, img, markers, table, thread, usr, site>>

(* The reconcile panel, shown in needs_reconcile only: the user names the  *)
(* draft - this post's own one, or with MixUps a wrong one.  reconcile.    *)
(* adopt refuses an id another post holds and a published post.            *)
AdoptByHand(p, r) ==
  /\ UserMay(p) /\ state[p] = "needs_reconcile"
  /\ r \in live /\ siteTime[r] # "past"
  /\ \A q \in Posts \ {p} : remoteId[q] # r
  /\ owner[r] = p \/ MixUps
  /\ remoteId' = [remoteId EXCEPT ![p] = r]
  /\ \/ Synced(p, r, siteTime[r])
     \/ UNCHANGED <<state, pubAt, img>>
  /\ UNCHANGED <<mode, markers, table, thread, usr, site>>

SyncByHand(p) ==
  /\ UserMay(p)
  /\ SyncOne(p)
  /\ UNCHANGED <<mode, remoteId, markers, table, thread, usr, site>>

(* operations.reschedule on a post that is on CivitAI: post.update, then   *)
(* sync_one.  The answer may be lost, then nothing local changes.          *)
Reschedule(p) ==
  LET r == remoteId[p] IN
  /\ UserMay(p)
  /\ state[p] # "published" /\ pubAt[p] # "past"
  /\ r \in live /\ siteTime[r] # "past"
  /\ siteTime' = [siteTime EXCEPT ![r] = "future"]
  /\ setBy' = [setBy EXCEPT ![r] = "reschedule"]
  /\ \/ Synced(p, r, "future")
     \/ UNCHANGED <<state, pubAt, img>>
  /\ UNCHANGED <<mode, remoteId, markers, table, thread, usr, owner, live, siteTag, att>>

(* mcp.delete_post went through: CivitAI no longer holds the post. *)
StillThere(r) == live
Gone(r) == live \ {r}

(* clear_uploads: nothing is staged or attached any more. *)
Cleared(p) == [img EXCEPT ![p] = [i \in Images |-> "new"]]

(* delete_remote, also as the first half of rebuild: the post goes on      *)
(* CivitAI - or is gone already -, and the answer arrives or is lost.      *)
DeleteRemote(p) ==
  /\ UserMay(p) /\ remoteId[p] # NoRemote
  /\ live' = Gone(remoteId[p])
  /\ \/ UNCHANGED <<state, remoteId, pubAt, img, usr>>
     \/ /\ TornDelete
        /\ usr' = [at |-> "fields", post |-> p, remote |-> remoteId[p]]
        /\ UNCHANGED <<state, remoteId, pubAt, img>>
     \/ /\ ~TornDelete
        /\ remoteId' = [remoteId EXCEPT ![p] = NoRemote]
        /\ pubAt' = [pubAt EXCEPT ![p] = "none"]
        /\ img' = Cleared(p)
        /\ state' = [state EXCEPT ![p] = Moved(@, "draft")]
        /\ UNCHANGED usr
  /\ UNCHANGED <<mode, markers, table, thread, owner, siteTag, siteTime, setBy, att>>

DeleteFields ==
  /\ usr.at = "fields"
  /\ remoteId' = [remoteId EXCEPT ![usr.post] = NoRemote]
  /\ pubAt' = [pubAt EXCEPT ![usr.post] = "none"]
  /\ usr' = [usr EXCEPT !.at = "clear"]
  /\ UNCHANGED <<mode, state, img, markers, table, thread, site>>

DeleteUploads ==
  /\ usr.at = "clear"
  /\ img' = Cleared(usr.post)
  /\ usr' = [usr EXCEPT !.at = "draft"]
  /\ UNCHANGED <<mode, state, remoteId, pubAt, markers, table, thread, site>>

DeleteState ==
  /\ usr.at = "draft"
  /\ state' = [state EXCEPT ![usr.post] = Moved(@, "draft")]
  /\ usr' = IdleUser
  /\ UNCHANGED <<mode, remoteId, pubAt, img, markers, table, thread, site>>

-----------------------------------------------------------------------------
(* The site and its owner, outside the program. *)

(* A publish time passes, on the site and in the row of the post.  A draft *)
(* the owner deleted keeps its time.                                       *)
TimePasses(r) ==
  /\ siteTime[r] = "future" \/ \E p \in Posts : remoteId[p] = r /\ pubAt[p] = "future"
  /\ siteTime' = [siteTime EXCEPT ![r] = "past"]
  /\ pubAt' = [p \in Posts |-> IF remoteId[p] = r /\ pubAt[p] = "future"
                              THEN "past" ELSE pubAt[p]]
  /\ UNCHANGED <<mode, state, remoteId, img, markers, table, thread, usr,
                 owner, live, siteTag, setBy, att>>

(* The owner publishes a draft on the site. *)
OwnerPublishes(r) ==
  /\ r \in live /\ siteTime[r] # "past"
  /\ siteTime' = [siteTime EXCEPT ![r] = "past"]
  /\ setBy' = [setBy EXCEPT ![r] = "owner"]
  /\ UNCHANGED <<mode, local, table, thread, usr, owner, live, siteTag, att>>

(* The owner deletes a post on the site. *)
OwnerDeletes(r) ==
  /\ r \in live
  /\ live' = live \ {r}
  /\ UNCHANGED <<mode, local, table, thread, usr, owner, siteTag, siteTime, setBy, att>>

-----------------------------------------------------------------------------
(* push_posts and push_one, from the start of the run to its end. *)
ThreadStep ==
  \/ \E p \in Posts : TakePost(p)
  \/ CancelRest \/ FinishRun
  \/ Claim \/ LookBack
  \/ \E r \in Remotes : FindAdopts(r)
  \/ FindNothing \/ FindFails \/ Readopted
  \/ PreflightPasses \/ PreflightFails \/ PreflightHolds
  \/ RecordAttempt \/ CreateFails
  \/ \E r \in Remotes : CreateLands(r)
  \/ RecordCreated
  \/ TagsPlain \/ TagsCleared
  \/ \E dropped \in SUBSET Runs, removed \in BOOLEAN : TagsFail(dropped, removed)
  \/ \E i \in Images : Upload(i)
  \/ UploadFails \/ Uploaded
  \/ \E i \in Images, times \in 1 .. 2 : AttachLands(i, times)
  \/ RecordAttachment \/ AttachFails \/ AttachedAll
  \/ PublishNothing \/ PublishNow \/ ReadTime \/ SendTime \/ PublishFails \/ RecordTime
  \/ ConfirmReads \/ ConfirmFails \/ FinishPost
  \/ FailSync \/ FailRecords

UserStep ==
  \/ \E S \in SUBSET Posts : StartRun(S)
  \/ \E p \in Posts, target \in {"ready", "draft", "archived"} : MarkState(p, target)
  \/ \E p \in Posts, r \in Remotes : AdoptByHand(p, r)
  \/ \E p \in Posts : SyncByHand(p)
  \/ \E p \in Posts : Reschedule(p)
  \/ \E p \in Posts : DeleteRemote(p)

RequestStep == DeleteFields \/ DeleteUploads \/ DeleteState

SiteStep ==
  \E r \in Remotes : TimePasses(r) \/ OwnerPublishes(r) \/ OwnerDeletes(r)

Next == ThreadStep \/ UserStep \/ RequestStep \/ SiteStep \/ Crash \/ Recover

Spec == Init /\ [][Next]_vars

(* The thread always has a next step and its HTTP calls time out, so it is *)
(* scheduled again and again; and the user starts the program again after  *)
(* a crash.  Nothing is assumed of what the user or the site does.         *)
FairSpec == Spec /\ WF_vars(ThreadStep) /\ WF_vars(Recover)

-----------------------------------------------------------------------------
(* Properties. *)

(* What r shows is what the post was meant to be: every image hangs on it, *)
(* the internal marker does not.                                           *)
Whole(r) == siteTag[r] = 0 /\ \A i \in Images : att[r][i] > 0

LivePosts(p) == {r \in live : owner[r] = p}

(* "A retry must not create a second post": whatever answers are lost,     *)
(* whenever the process dies and however often the post is pushed,         *)
(* CivitAI never holds two posts created for the same local post.          *)
AtMostOneRemotePost ==
  \A p \in Posts : \A r, s \in LivePosts(p) : r = s

(* A post created on CivitAI is never lost: the local post holds its id,   *)
(* or some run's item still says that an attempt is open.                  *)
Traceable ==
  \A p \in Posts : \A r \in LivePosts(p) :
    remoteId[p] = r \/ \E k \in Runs : OpenAttempt(p, k)

(* The id of a post that exists on CivitAI is not dropped or replaced:     *)
(* deleting it there comes first.                                          *)
LiveBindingKept ==
  [][\A p \in Posts : remoteId[p] \in live /\ remoteId'[p] # remoteId[p]
       => remoteId[p] \notin live']_vars

(* "Better an invisible draft than a public post carrying an internal      *)
(* marker tag": a publish time set by a push is set on a post without one. *)
MarkerNeverPublic ==
  \A r \in Remotes : setBy[r] = "push" => siteTag[r] = 0

(* The same of every publish time the program sets, the reschedule too.    *)
NoPublicMarker ==
  \A r \in Remotes : setBy[r] \in {"push", "reschedule"} => siteTag[r] = 0

(* "An interrupted upload can never leave a half-filled post scheduled to  *)
(* go public": a push sets the time of a post that has all its images.     *)
NeverHalfFilled ==
  \A r \in Remotes : setBy[r] = "push" => \A i \in Images : att[r][i] > 0

(* An item that ends as `done` stands for a complete post: all images on   *)
(* it, the marker off, and a publish time unless it was to stay a draft.   *)
DoneMeansComplete ==
  [][\A p \in Posts : status[p] = "running" /\ status'[p] = "done"
       => Whole(bound) /\ (mode[p] # "draft_only" => siteTime[bound] # "none")]_vars

(* "a push run owns this post right now" (lifecycle.PUSHING): no post is   *)
(* left in PUSHING when the run is over.                                   *)
PushingIsOwned ==
  \A p \in Posts : state[p] = "pushing" => open

(* "it goes to needs_reconcile and the next run looks for it" (runs.       *)
(* recover_interrupted): a run that takes such a post up searches for it.  *)
NextRunLooks ==
  [][pc = "claim" /\ state[cur] = "needs_reconcile" /\ Unresolved(cur, runs) # {}
       => pc' # "failing"]_vars

(* A run that has begun comes to its end, if the process survives: no      *)
(* answer that fails to come and no state of a post holds it up for ever.  *)
RunEnds == pc \notin {"idle", "down"} ~> pc \in {"idle", "down"}

-----------------------------------------------------------------------------
(* What the pipeline promises of each post on CivitAI. *)
Shown(p) ==
  LET mine == LivePosts(p) IN
  [copies |-> IF mine = {} THEN 0 ELSE IF \A r, s \in mine : r = s THEN 1 ELSE 2,
   whole  |-> \E r \in mine : Whole(r),
   timed  |-> CASE \E r \in mine : setBy[r] = "push" -> "push"
                [] \E r \in mine : setBy[r] \in {"reschedule", "owner"} -> "hand"
                [] OTHER -> "no"]

Promise == INSTANCE Publication WITH shown <- [p \in Posts |-> Shown(p)]
PublicationSpec == Promise!Spec
=============================================================================
