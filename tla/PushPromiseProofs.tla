------------------------ MODULE PushPromiseProofs ------------------------
(***************************************************************************)
(* What a push promises of the posts on CivitAI: no publish time on a post *)
(* that carries the marker or lacks an image, no item `done` for less than *)
(* a complete post, and the whole of Publication, which PushPipeline       *)
(* implements.  For any number of posts, images, remote ids and runs, as   *)
(* long as a draft is adopted only by the post it was created for          *)
(* (~MixUps); all but the first also without a torn deletion (~TornDelete).*)
(***************************************************************************)
EXTENDS PushBindingProofs

-----------------------------------------------------------------------------
(* MarkerInv. *)

LEMMA MarkerInit == Init => MarkerInv
<1> SUFFICES ASSUME Init PROVE MarkerInv
  OBVIOUS
<1>1. IInv
  BY BindingInit
<1>2. OwnDraft /\ KnownMarkers /\ Clean
  BY DEF Init, OwnDraft, KnownMarkers, Clean, AfterTags
<1>3. Untouched /\ MarkerNeverPublic
  BY DEF Init, Untouched, MarkerNeverPublic
<1>4. QED
  BY <1>1, <1>2, <1>3 DEF MarkerInv

(* No marker moves, no post appears, and a push sets times on posts        *)
(* without a marker only.                                                  *)
LEMMA MarkerKept ==
  ASSUME MarkerInv, IInv', UNCHANGED <<markers, owner, siteTag>>, live' \subseteq live,
         \/ bound' = NoRemote
         \/ bound' = bound /\ cur' = cur /\ (pc' \in AtWork \/ pc' = pc),
         pc' = "create" => pc = "create" /\ UNCHANGED <<cur, runs>>,
         pc' \in AfterTags => pc \in AfterTags /\ bound' = bound,
         \A r \in Remotes : setBy'[r] # setBy[r] =>
           owner[r] # NoPost /\ (setBy'[r] = "push" => siteTag[r] = 0)
  PROVE  MarkerInv'
<1> USE DEF MarkerInv
<1>1. OwnDraft'
  BY DEF OwnDraft
<1>2. KnownMarkers'
  BY DEF KnownMarkers
<1>3. Clean'
  BY DEF Clean
<1>4. Untouched' /\ MarkerNeverPublic'
  BY DEF Untouched, MarkerNeverPublic
<1>5. QED
  BY <1>1, <1>2, <1>3, <1>4

(* The thread takes the remote id of its post in hand. *)
LEMMA MarkerTakes ==
  ASSUME MarkerInv, IInv', UNCHANGED <<markers, site, cur>>, cur \in Posts,
         pc' \in AtWork \ (AfterTags \cup {"create"}),
         bound' \in {NoRemote, remoteId[cur]}
  PROVE  MarkerInv'
<1> USE DEF MarkerInv, site
<1>1. OwnDraft'
  BY DEF OwnDraft, IInv, OwnIds
<1>2. KnownMarkers' /\ Clean'
  BY DEF KnownMarkers, Clean
<1>3. Untouched' /\ MarkerNeverPublic'
  BY DEF Untouched, MarkerNeverPublic
<1>4. QED
  BY <1>1, <1>2, <1>3

LEMMA MarkerClaims ==
  ASSUME MarkerInv, IInv', Claim \/ Readopted
  PROVE  MarkerInv'
<1>1. cur \in Posts /\ pc \in AtWork
  BY AtPost DEF Claim, Readopted, AtWork, Labels, MarkerInv
<1>2. pc' \in {"lookback", "preflight", "failing"} /\ cur' = cur
  BY DEF Claim, Readopted, Abandon
<1>3. bound' \in {NoRemote, remoteId[cur]} /\ UNCHANGED <<markers, site>>
  BY DEF Claim, Readopted, Abandon
<1>4. QED
  BY <1>1, <1>2, <1>3, MarkerTakes DEF AtWork, Labels, AfterTags

(* The row of the marker is written before the call that sets it. *)
LEMMA MarkerRecords ==
  ASSUME MarkerInv, IInv', RecordAttempt
  PROVE  MarkerInv'
<1> USE DEF MarkerInv
<1>1. /\ pc = "attempt" /\ pc' = "create" /\ cur' = cur /\ bound' = bound /\ runs' = runs
      /\ markers' = [markers EXCEPT ![cur] = @ \cup {runs}] /\ UNCHANGED site
  BY DEF RecordAttempt, Goto
<1>2. cur \in Posts /\ markers \in [Posts -> SUBSET Runs]
  BY <1>1, AtPost DEF AtWork, Labels, IInv, TypeOK, LocalTypes
<1>3. OwnDraft' /\ Clean'
  BY <1>1 DEF OwnDraft, Clean, AfterTags, AtWork, Labels, site
<1>4. KnownMarkers'
  <2>1. runs \in markers'[cur]
    BY <1>1, <1>2
  <2>2. \A p \in Posts : markers[p] \subseteq markers'[p]
    BY <1>1, <1>2
  <2>3. \A r \in live : owner[r] \in Posts
    BY DEF IInv, OwnIds, TypeOK, SiteTypes
  <2>4. QED
    BY <1>1, <2>1, <2>2, <2>3 DEF KnownMarkers, site
<1>5. Untouched' /\ MarkerNeverPublic'
  BY <1>1 DEF Untouched, MarkerNeverPublic, site
<1>6. QED
  BY <1>3, <1>4, <1>5

LEMMA MarkerCreates ==
  ASSUME MarkerInv, IInv', NEW r \in Remotes, CreateLands(r)
  PROVE  MarkerInv'
<1> USE DEF MarkerInv
<1>1. /\ pc = "create" /\ owner[r] = NoPost /\ cur' = cur /\ runs' = runs
      /\ owner' = [owner EXCEPT ![r] = cur] /\ live' = live \cup {r}
      /\ siteTag' = [siteTag EXCEPT ![r] = runs]
      /\ \/ pc' = "failing" /\ bound' = NoRemote
         \/ pc' = "created" /\ bound' = r
      /\ UNCHANGED <<markers, setBy>>
  BY DEF CreateLands, Abandon, local, table
<1>2. /\ cur \in Posts /\ owner \in [Remotes -> Posts \cup {NoPost}]
      /\ siteTag \in [Remotes -> 0 .. MaxRuns] /\ NoPost \notin Posts /\ live \subseteq Remotes
  BY <1>1, AtPost, NoneAssumption DEF AtWork, Labels, IInv, TypeOK, SiteTypes
<1>3. OwnDraft' /\ Clean'
  BY <1>1, <1>2 DEF OwnDraft, Clean, AfterTags, AtWork, Labels
<1>4. KnownMarkers'
  BY <1>1, <1>2 DEF KnownMarkers
<1>5. Untouched' /\ MarkerNeverPublic'
  BY <1>1, <1>2 DEF Untouched, MarkerNeverPublic
<1>6. QED
  BY <1>3, <1>4, <1>5

(* The only post CivitAI holds for the one in hand is the bound one: a     *)
(* marker that is taken off it may go from the rows.                       *)
LEMMA OnlyBound ==
  ASSUME MarkerInv, pc = "tags"
  PROVE  /\ cur \in Posts /\ bound \in Remotes /\ owner[bound] = cur
         /\ bound \in live => LivePosts(cur) = {bound}
         /\ markers \in [Posts -> SUBSET Runs] /\ siteTag \in [Remotes -> 0 .. MaxRuns]
         /\ \A r \in live : owner[r] \in Posts
<1> USE DEF MarkerInv
<1>1. cur \in Posts /\ bound \in Remotes
  BY AtPost DEF AtWork, Labels, IInv, Located, OnPost
<1>2. owner[bound] = cur
  BY <1>1, NoneAssumption DEF OwnDraft
<1>3. bound \in live => LivePosts(cur) = {bound}
  BY <1>1, <1>2 DEF IInv, AtMostOneRemotePost, LivePosts
<1>4. QED
  BY <1>1, <1>2, <1>3 DEF IInv, OwnIds, TypeOK, SiteTypes, LocalTypes

LEMMA MarkerTags ==
  ASSUME MarkerInv, IInv'
  PROVE  /\ TagsPlain => MarkerInv'
         /\ TagsCleared => MarkerInv'
         /\ \A dropped \in SUBSET Runs, removed \in BOOLEAN :
              TagsFail(dropped, removed) => MarkerInv'
<1> USE DEF MarkerInv
<1>1. ASSUME TagsPlain PROVE MarkerInv'
  <2>1. /\ pc = "tags" /\ pc' = "upload" /\ UNCHANGED <<cur, bound, runs, markers, site>>
        /\ markers[cur] = {}
    BY <1>1 DEF TagsPlain, Goto, local, table
  <2>2. bound \in live => siteTag[bound] = 0
    BY <2>1, OnlyBound DEF KnownMarkers
  <2>3. OwnDraft' /\ KnownMarkers' /\ Clean'
    BY <2>1, <2>2 DEF OwnDraft, KnownMarkers, Clean, AtWork, Labels, site
  <2>4. QED
    BY <2>1, <2>3 DEF Untouched, MarkerNeverPublic, site
<1>2. ASSUME TagsCleared PROVE MarkerInv'
  <2>1. /\ pc = "tags" /\ pc' = "upload" /\ UNCHANGED <<cur, bound, runs, owner, live, setBy>>
        /\ bound \in live /\ markers' = [markers EXCEPT ![cur] = {}]
        /\ siteTag' = IF owner[bound] = cur /\ siteTag[bound] \in markers[cur]
                      THEN [siteTag EXCEPT ![bound] = 0] ELSE siteTag
    BY <1>2 DEF TagsCleared, Goto, table
  <2>2. /\ cur \in Posts /\ bound \in Remotes /\ owner[bound] = cur
        /\ LivePosts(cur) = {bound} /\ siteTag \in [Remotes -> 0 .. MaxRuns]
        /\ markers \in [Posts -> SUBSET Runs] /\ \A r \in live : owner[r] \in Posts
    BY <2>1, OnlyBound
  <2>3. siteTag'[bound] = 0 /\ \A r \in Remotes \ {bound} : siteTag'[r] = siteTag[r]
    BY <2>1, <2>2 DEF KnownMarkers
  <2>4. \A r \in live \ {bound} : markers'[owner[r]] = markers[owner[r]]
    BY <2>1, <2>2 DEF LivePosts
  <2>5. live \subseteq Remotes
    BY DEF IInv, TypeOK, SiteTypes
  <2>6. KnownMarkers'
    BY <2>1, <2>3, <2>4, <2>5 DEF KnownMarkers
  <2>7. OwnDraft' /\ Clean'
    BY <2>1, <2>3 DEF OwnDraft, Clean, AtWork, Labels
  <2>8. Untouched' /\ MarkerNeverPublic'
    BY <2>1, <2>3 DEF Untouched, MarkerNeverPublic
  <2>9. QED
    BY <2>6, <2>7, <2>8
<1>3. ASSUME NEW dropped \in SUBSET Runs, NEW removed \in BOOLEAN, TagsFail(dropped, removed)
      PROVE  MarkerInv'
  <2>1. /\ pc = "tags" /\ pc' = "failing" /\ bound' = NoRemote /\ cur' = cur
        /\ UNCHANGED <<owner, live, setBy>>
        /\ dropped # {} => bound \in live
        /\ markers' = [markers EXCEPT ![cur] = @ \ dropped]
        /\ dropped \subseteq markers[cur]
        /\ siteTag' = IF /\ owner[bound] = cur
                         /\ siteTag[bound] \in (IF removed THEN markers[cur] ELSE dropped)
                      THEN [siteTag EXCEPT ![bound] = 0] ELSE siteTag
    BY <1>3 DEF TagsFail, MarkerStuck, Abandon
  <2>2. /\ cur \in Posts /\ bound \in Remotes /\ owner[bound] = cur
        /\ bound \in live => LivePosts(cur) = {bound}
        /\ siteTag \in [Remotes -> 0 .. MaxRuns]
        /\ markers \in [Posts -> SUBSET Runs] /\ \A r \in live : owner[r] \in Posts
    BY <2>1, OnlyBound
  <2>3. /\ siteTag'[bound] # 0 => siteTag'[bound] = siteTag[bound] /\ siteTag[bound] \notin dropped
        /\ \A r \in Remotes \ {bound} : siteTag'[r] = siteTag[r]
    BY <2>1, <2>2
  <2>4. \A r \in live \ {bound} : markers'[owner[r]] = markers[owner[r]]
    BY <2>1, <2>2 DEF LivePosts
  <2>5. live \subseteq Remotes
    BY DEF IInv, TypeOK, SiteTypes
  <2>6. KnownMarkers'
    BY <2>1, <2>2, <2>3, <2>4, <2>5 DEF KnownMarkers
  <2>7. OwnDraft' /\ Clean'
    BY <2>1 DEF OwnDraft, Clean, AfterTags
  <2>8. Untouched' /\ MarkerNeverPublic'
    BY <2>1, <2>3 DEF Untouched, MarkerNeverPublic
  <2>9. QED
    BY <2>6, <2>7, <2>8
<1>4. QED
  BY <1>1, <1>2, <1>3

(* The steps that set a publish time set it on the post in hand, after the *)
(* tags step; no other step of the thread touches the site's times.        *)
LEMMA MarkerPublishes ==
  ASSUME MarkerInv, IInv'
  PROVE  /\ PublishNow => MarkerInv'
         /\ SendTime => MarkerInv'
<1> USE DEF MarkerInv
<1>1. ASSUME PublishNow \/ SendTime PROVE MarkerInv'
  <2>1. /\ pc \in {"publish", "stamp"} /\ bound \in live /\ pc' \in {"failing", "confirm", "record"}
        /\ UNCHANGED <<cur, runs, markers, owner, siteTag, live>>
        /\ \/ bound' = NoRemote /\ pc' = "failing"
           \/ bound' = bound /\ pc' \in {"confirm", "record"}
        /\ \A r \in Remotes \ {bound} : setBy'[r] = setBy[r]
    BY <1>1 DEF PublishNow, SendTime, Abandon, Goto, local, table, IInv, TypeOK, SiteTypes
  <2>2. bound \in Remotes /\ owner[bound] # NoPost /\ siteTag[bound] = 0
    BY <2>1 DEF IInv, OwnIds, Located, OnPost, Clean, AfterTags
  <2>3. QED
    BY <2>1, <2>2, MarkerKept DEF AtWork, Labels, AfterTags
<1>2. QED
  BY <1>1

LEMMA MarkerQuiet ==
  ASSUME MarkerInv, IInv'
  PROVE  /\ (\E p \in Posts : TakePost(p)) => MarkerInv'
         /\ CancelRest \/ FinishRun \/ LookBack => MarkerInv'
         /\ (\E r \in Remotes : FindAdopts(r)) => MarkerInv'
         /\ FindNothing \/ FindFails \/ PreflightPasses \/ PreflightFails => MarkerInv'
         /\ PreflightHolds \/ CreateFails \/ RecordCreated => MarkerInv'
         /\ (\E i \in Images : Upload(i)) => MarkerInv'
         /\ UploadFails \/ Uploaded => MarkerInv'
         /\ (\E i \in Images, times \in 1 .. 2 : AttachLands(i, times)) => MarkerInv'
         /\ RecordAttachment \/ AttachFails \/ AttachedAll => MarkerInv'
         /\ PublishNothing \/ ReadTime \/ PublishFails \/ RecordTime => MarkerInv'
         /\ ConfirmReads \/ ConfirmFails \/ FinishPost => MarkerInv'
         /\ FailSync \/ FailRecords \/ Crash \/ Recover => MarkerInv'
<1> USE DEF Rest, Goto, Abandon, AtWork, Labels, AfterTags, local, table, site
<1>0. bound # NoRemote => pc \in AtWork
  BY DEF MarkerInv, OwnDraft
<1>1. (\E p \in Posts : TakePost(p)) => MarkerInv'
  BY <1>0, MarkerKept DEF TakePost
<1>2. CancelRest \/ FinishRun \/ LookBack => MarkerInv'
  BY MarkerKept DEF CancelRest, FinishRun, LookBack, thread
<1>3. (\E r \in Remotes : FindAdopts(r)) => MarkerInv'
  BY MarkerKept DEF FindAdopts
<1>4. FindNothing \/ FindFails \/ PreflightPasses \/ PreflightFails => MarkerInv'
  BY MarkerKept DEF FindNothing, FindFails, PreflightPasses, PreflightFails, AfterPreflight
<1>5. PreflightHolds \/ CreateFails \/ RecordCreated => MarkerInv'
  BY MarkerKept DEF PreflightHolds, CreateFails, RecordCreated
<1>6. (\E i \in Images : Upload(i)) => MarkerInv'
  BY MarkerKept DEF Upload
<1>7. UploadFails \/ Uploaded => MarkerInv'
  BY MarkerKept DEF UploadFails, Uploaded
<1>8. (\E i \in Images, times \in 1 .. 2 : AttachLands(i, times)) => MarkerInv'
  BY MarkerKept DEF AttachLands
<1>9. RecordAttachment \/ AttachFails \/ AttachedAll => MarkerInv'
  BY MarkerKept DEF RecordAttachment, AttachFails, AttachedAll
<1>10. PublishNothing \/ ReadTime \/ PublishFails \/ RecordTime => MarkerInv'
  BY MarkerKept DEF PublishNothing, ReadTime, PublishFails, RecordTime
<1>11. ConfirmReads \/ ConfirmFails \/ FinishPost => MarkerInv'
  BY MarkerKept DEF ConfirmReads, ConfirmFails, FinishPost
<1>12. FailSync \/ FailRecords \/ Crash \/ Recover => MarkerInv'
  BY MarkerKept DEF FailSync, FailRecords, OnToTheNext, Crash, Recover
<1>13. QED
  BY <1>1, <1>2, <1>3, <1>4, <1>5, <1>6, <1>7, <1>8, <1>9, <1>10, <1>11, <1>12

LEMMA MarkerOutside ==
  ASSUME MarkerInv, IInv', UserStep \/ RequestStep \/ SiteStep
  PROVE  MarkerInv'
<1> USE DEF MarkerInv
<1>1. ASSUME NEW r \in Remotes, TimePasses(r) \/ OwnerPublishes(r) \/ OwnerDeletes(r)
      PROVE  MarkerInv'
  <2>1. \A s \in Remotes : setBy'[s] # setBy[s] => owner[s] # NoPost /\ setBy'[s] # "push"
    BY <1>1 DEF TimePasses, OwnerPublishes, OwnerDeletes, IInv, OwnIds, TypeOK, SiteTypes
  <2>2. UNCHANGED <<markers, owner, siteTag, thread, table>> /\ live' \subseteq live
    BY <1>1 DEF TimePasses, OwnerPublishes, OwnerDeletes, local
  <2>3. QED
    BY <2>1, <2>2, MarkerKept DEF thread, table
<1>2. ASSUME NEW p \in Posts, Reschedule(p) PROVE MarkerInv'
  <2>1. /\ UNCHANGED <<markers, owner, siteTag, live, thread, table>>
        /\ setBy' = [setBy EXCEPT ![remoteId[p]] = "reschedule"] /\ remoteId[p] \in live
    BY <1>2 DEF Reschedule
  <2>2. \A s \in Remotes : setBy'[s] # setBy[s] => owner[s] # NoPost /\ setBy'[s] # "push"
    BY <2>1 DEF IInv, OwnIds, TypeOK, SiteTypes
  <2>3. QED
    BY <2>1, <2>2, MarkerKept DEF thread, table
<1>3. ASSUME NEW p \in Posts, DeleteRemote(p) PROVE MarkerInv'
  BY <1>3, MarkerKept DEF DeleteRemote, Gone, thread, table
<1>4. ASSUME NEW S \in SUBSET Posts, StartRun(S) PROVE MarkerInv'
  BY <1>4, MarkerKept DEF StartRun, Rest, local, site, AfterTags
<1>5. ASSUME NEW p \in Posts, \/ \E target \in {"ready", "draft", "archived"} : MarkState(p, target)
                              \/ \E r \in Remotes : AdoptByHand(p, r)
                              \/ SyncByHand(p)
      PROVE  MarkerInv'
  BY <1>5, MarkerKept DEF MarkState, AdoptByHand, SyncByHand, thread, table, site
<1>6. CASE RequestStep
  BY <1>6, MarkerKept DEF RequestStep, DeleteFields, DeleteUploads, DeleteState, thread, table, site
<1>7. QED
  BY <1>1, <1>2, <1>3, <1>4, <1>5, <1>6 DEF UserStep, SiteStep

LEMMA MarkerNext ==
  ASSUME ~MixUps, MarkerInv, [Next]_vars
  PROVE  MarkerInv'
<1>0. IInv'
  BY BindingNext DEF MarkerInv
<1>1. CASE ThreadStep
  BY <1>0, <1>1, MarkerClaims, MarkerRecords, MarkerCreates, MarkerTags, MarkerPublishes,
     MarkerQuiet DEF ThreadStep
<1>2. CASE UserStep \/ RequestStep \/ SiteStep
  BY <1>0, <1>2, MarkerOutside
<1>3. CASE Crash \/ Recover
  BY <1>0, <1>3, MarkerQuiet
<1>4. CASE UNCHANGED vars
  BY <1>0, <1>4, MarkerKept DEF vars, local, table, thread, site
<1>5. QED
  BY <1>1, <1>2, <1>3, <1>4 DEF Next

THEOREM MarkerInvariant ==
  ASSUME ~MixUps
  PROVE  Spec => []MarkerInv
<1>1. Init => MarkerInv
  BY MarkerInit
<1>2. MarkerInv /\ [Next]_vars => MarkerInv'
  BY MarkerNext
<1>3. QED
  BY <1>1, <1>2, PTL DEF Spec

(* "Better an invisible draft than a public post carrying an internal      *)
(* marker tag": a publish time set by a push is set on a post that carries *)
(* none, whatever answers are lost and whenever the process dies.          *)
THEOREM NoMarkerPublished ==
  ASSUME ~MixUps
  PROVE  Spec => []MarkerNeverPublic
<1>1. MarkerInv => MarkerNeverPublic
  BY DEF MarkerInv
<1>2. QED
  BY <1>1, MarkerInvariant, PTL

-----------------------------------------------------------------------------
(* FillInv. *)

LEMMA FillInit == Init => FillInv
<1> SUFFICES ASSUME Init PROVE FillInv
  OBVIOUS
<1>1. MarkerInv
  BY MarkerInit
<1>2. NoRequest /\ Lone /\ OnSite
  BY DEF Init, NoRequest, Lone, OnSite
<1>3. KnownBound /\ Timed /\ NeverHalfFilled
  BY DEF Init, KnownBound, Timed, NeverHalfFilled
<1>4. StillHeld /\ Filled /\ InHand
  BY DEF Init, StillHeld, Filled, InHand, Settled, AfterTags
<1>5. QED
  BY <1>1, <1>2, <1>3, <1>4 DEF FillInv, RowsTrue, ThreadTrue

(* The types FillInv rests on. *)
LEMMA FillTypes ==
  ASSUME FillInv
  PROVE  /\ remoteId \in [Posts -> Remotes \cup {NoRemote}] /\ NoRemote \notin Remotes
         /\ state \in [Posts -> ALL_STATES] /\ pubAt \in [Posts -> Times]
         /\ img \in [Posts -> [Images -> {"new", "staged", "attached"}]]
         /\ markers \in [Posts -> SUBSET Runs]
         /\ owner \in [Remotes -> Posts \cup {NoPost}] /\ live \subseteq Remotes
         /\ siteTag \in [Remotes -> 0 .. MaxRuns] /\ siteTime \in [Remotes -> Times]
         /\ setBy \in [Remotes -> {"nobody", "push", "reschedule", "owner"}]
         /\ att \in [Remotes -> [Images -> 0 .. 2]]
         /\ bound \in Remotes \cup {NoRemote} /\ dated \in BOOLEAN
         /\ pc \in AtWork => cur \in Posts
  BY NoneAssumption
     DEF FillInv, MarkerInv, IInv, TypeOK, LocalTypes, ThreadTypes, SiteTypes, Located

(* Where the thread relies on the remote id of its post. *)
Holding == BeforePost \cup {"tags"} \cup AfterTags

LEMMA Untouchable ==
  ASSUME FillInv, NEW p \in Posts, UserMay(p)
  PROVE  pc \in Holding => cur # p
<1>1. pc \in BeforePost => state[cur] = "pushing"
  BY DEF FillInv, MarkerInv, IInv, Owned
<1>2. pc \in {"tags"} \cup AfterTags => state[cur] = "pushing"
  BY DEF FillInv, ThreadTrue, StillHeld
<1>3. QED
  BY <1>1, <1>2 DEF UserMay, Holding

(* A readback learns of images that hang on the post read, and takes the   *)
(* time it was given, for one post.                                        *)
LEMMA SyncedRows ==
  ASSUME FillInv, NEW p \in Posts, NEW r \in Remotes, NEW t, Synced(p, r, t)
  PROVE  /\ \A q \in Posts, i \in Images : img'[q][i] = "attached" =>
              img[q][i] = "attached" \/ (q = p /\ att[r][i] > 0)
         /\ \A q \in Posts : pubAt'[q] # "none" =>
              (q # p /\ pubAt[q] # "none") \/ (q = p /\ t # "none")
         /\ \A q \in Posts \ {p} : state'[q] = state[q]
<1>1. /\ state \in [Posts -> ALL_STATES] /\ pubAt \in [Posts -> Times]
      /\ img \in [Posts -> [Images -> {"new", "staged", "attached"}]]
  BY FillTypes
<1>2. \A i \in Images : Learned(p, r)[i] = "attached" => img[p][i] = "attached" \/ att[r][i] > 0
  BY DEF Learned
<1>3. img' = img \/ img' = [img EXCEPT ![p] = Learned(p, r)]
  BY DEF Synced
<1>4. QED
  BY <1>1, <1>2, <1>3 DEF Synced

(* What a step leaves as it is: no remote id, marker or owner changes, a   *)
(* post on CivitAI only gains images and a time, a row only learns what is *)
(* so, and a push sets times on full posts.                                *)
LEMMA RowsKept ==
  ASSUME FillInv, usr' = usr \/ usr' = IdleUser,
         UNCHANGED <<remoteId, owner, siteTag, markers>>, live' \subseteq live,
         \A r \in Remotes, i \in Images : att[r][i] > 0 => att'[r][i] > 0,
         \A p \in Posts, i \in Images : img'[p][i] = "attached" =>
           \/ img[p][i] = "attached"
           \/ remoteId[p] # NoRemote /\ att'[remoteId[p]][i] > 0,
         \A r \in Remotes : siteTime'[r] = "none" => siteTime[r] = "none",
         \A p \in Posts : pubAt'[p] # "none" =>
           \/ pubAt[p] # "none"
           \/ remoteId[p] # NoRemote /\ siteTime'[remoteId[p]] # "none",
         \A r \in Remotes : setBy'[r] = "push" =>
           setBy[r] = "push" \/ \A i \in Images : att[r][i] > 0
  PROVE  RowsTrue'
<1> USE FillTypes DEF FillInv, RowsTrue
<1>1. NoRequest' /\ Lone'
  BY DEF NoRequest, Lone, LivePosts
<1>2. OnSite'
  BY DEF OnSite
<1>3. KnownBound'
  BY DEF KnownBound
<1>4. Timed'
  BY DEF Timed
<1>5. NeverHalfFilled'
  BY DEF NeverHalfFilled
<1>6. QED
  BY <1>1, <1>2, <1>3, <1>4, <1>5

(* The thread has no post of CivitAI in hand. *)
LEMMA ThreadEmpty ==
  ASSUME FillInv, bound' = NoRemote,
         dated' = FALSE \/ (dated' = dated /\ bound = NoRemote),
         pc' \notin {"lookback", "preflight", "tags"} \cup Settled
  PROVE  ThreadTrue'
<1>1. dated' = FALSE
  BY DEF FillInv, ThreadTrue, InHand
<1>2. StillHeld' /\ Filled'
  BY DEF StillHeld, Filled, Settled, AfterTags
<1>3. InHand'
  BY <1>1 DEF InHand, Settled, AfterTags
<1>4. QED
  BY <1>2, <1>3 DEF ThreadTrue

(* The thread goes on with the post in hand. *)
LEMMA ThreadGoes ==
  ASSUME FillInv, StillHeld', Filled',
         UNCHANGED <<cur, bound, dated, mode, siteTag>>,
         bound # NoRemote /\ siteTag[bound] # 0 => siteTag[bound] \in markers'[cur],
         \A r \in Remotes : siteTime'[r] = "none" => siteTime[r] = "none",
         pc' \in Settled => pc \in Settled \/ siteTag[bound] = 0,
         \/ pc' = "record"
         \/ pc' \in {"confirm", "finish"} /\ mode[cur] # "draft_only"
         => siteTime'[bound] # "none"
  PROVE  ThreadTrue'
<1>1. InHand'
  BY FillTypes DEF FillInv, ThreadTrue, InHand
<1>2. QED
  BY <1>1 DEF ThreadTrue

(* The thread stands still while somebody else acts. *)
LEMMA ThreadStays ==
  ASSUME FillInv, UNCHANGED <<thread, mode, markers, siteTag>>,
         pc \in Holding => remoteId'[cur] = remoteId[cur] /\ state'[cur] = state[cur],
         \A r \in Remotes, i \in Images : att[r][i] > 0 => att'[r][i] > 0,
         \A r \in Remotes : siteTime'[r] = "none" => siteTime[r] = "none"
  PROVE  ThreadTrue'
<1> USE FillTypes DEF FillInv, ThreadTrue, thread
<1>1. StillHeld'
  BY DEF StillHeld, Holding, BeforePost
<1>2. Filled'
  <2>1. pc \in Settled => bound \in Remotes
    BY DEF StillHeld
  <2>2. pc = "attached" => shot \in Images
    BY DEF MarkerInv, IInv, Located
  <2>3. QED
    BY <2>1, <2>2 DEF Filled, Settled, AfterTags
<1>3. InHand'
  <2>1. pc \in Settled => bound \in Remotes
    BY DEF StillHeld
  <2>2. QED
    BY <2>1 DEF InHand, Settled, AfterTags
<1>4. QED
  BY <1>1, <1>2, <1>3

-----------------------------------------------------------------------------
(* The thread between posts, before a creation, or giving a post up. *)

LEMMA FillGivesUp ==
  ASSUME FillInv, MarkerInv', UNCHANGED <<remoteId, pubAt, img, markers, site>>,
         usr' = usr \/ usr' = IdleUser,
         bound' = NoRemote, dated' = FALSE \/ (dated' = dated /\ bound = NoRemote),
         pc' \notin {"lookback", "preflight", "tags"} \cup Settled
  PROVE  FillInv'
<1>1. RowsTrue'
  BY RowsKept DEF site
<1>2. ThreadTrue'
  BY ThreadEmpty
<1>3. QED
  BY <1>1, <1>2 DEF FillInv

LEMMA FillQuiet ==
  ASSUME FillInv, MarkerInv'
  PROVE  /\ (\E S \in SUBSET Posts : StartRun(S)) => FillInv'
         /\ (\E p \in Posts : TakePost(p)) => FillInv'
         /\ CancelRest \/ FinishRun => FillInv'
         /\ FindNothing \/ FindFails \/ PreflightFails \/ PreflightHolds => FillInv'
         /\ CreateFails \/ UploadFails \/ AttachFails \/ PublishFails => FillInv'
         /\ FailRecords \/ Crash \/ Recover => FillInv'
<1> USE DEF Rest, Abandon, local, Settled, AfterTags
<1>0. pc = "loop" => bound = NoRemote
  BY DEF FillInv, MarkerInv, OwnDraft, AtWork
<1>1. (\E S \in SUBSET Posts : StartRun(S)) => FillInv'
  BY FillGivesUp DEF StartRun
<1>2. (\E p \in Posts : TakePost(p)) => FillInv'
  BY <1>0, FillGivesUp DEF TakePost
<1>3. CancelRest \/ FinishRun => FillInv'
  BY <1>0, FillGivesUp DEF CancelRest, FinishRun, thread
<1>4. FindNothing \/ FindFails \/ PreflightFails \/ PreflightHolds => FillInv'
  BY FillGivesUp DEF FindNothing, FindFails, PreflightFails, PreflightHolds
<1>5. CreateFails \/ UploadFails \/ AttachFails \/ PublishFails => FillInv'
  BY FillGivesUp DEF CreateFails, UploadFails, AttachFails, PublishFails
<1>6. FailRecords \/ Crash \/ Recover => FillInv'
  BY FillGivesUp DEF FailRecords, OnToTheNext, Crash, Recover
<1>7. QED
  BY <1>1, <1>2, <1>3, <1>4, <1>5, <1>6

(* The readback of a failed push. *)
LEMMA SyncOneRows ==
  ASSUME FillInv, MarkerInv', NEW p \in Posts, SyncOne(p), usr' = usr,
         UNCHANGED <<remoteId, markers, site>>
  PROVE  RowsTrue' /\ \A q \in Posts \ {p} : state'[q] = state[q]
<1> USE FillTypes DEF site
<1>1. CASE UNCHANGED <<state, pubAt, img>>
  BY <1>1, RowsKept
<1>2. CASE remoteId[p] \in live /\ Synced(p, remoteId[p], siteTime[remoteId[p]])
  <2>1. remoteId[p] \in Remotes
    BY <1>2
  <2>2. /\ \A q \in Posts, i \in Images : img'[q][i] = "attached" =>
             img[q][i] = "attached" \/ (q = p /\ att[remoteId[p]][i] > 0)
        /\ \A q \in Posts : pubAt'[q] # "none" =>
             (q # p /\ pubAt[q] # "none") \/ (q = p /\ siteTime[remoteId[p]] # "none")
        /\ \A q \in Posts \ {p} : state'[q] = state[q]
    BY <1>2, <2>1, SyncedRows
  <2>3. RowsTrue'
    BY <2>1, <2>2, RowsKept
  <2>4. QED
    BY <2>2, <2>3
<1>3. CASE MarkedMissing(p)
  BY <1>3, RowsKept DEF MarkedMissing
<1>4. QED
  BY <1>1, <1>2, <1>3 DEF SyncOne

LEMMA FillFailSync ==
  ASSUME FillInv, MarkerInv', FailSync
  PROVE  FillInv'
<1>1. /\ pc = "failing" /\ pc' = "failed" /\ SyncOne(cur)
      /\ UNCHANGED <<cur, bound, dated, mode, remoteId, markers, usr, site>>
  BY DEF FailSync, Goto
<1>2. cur \in Posts
  BY <1>1, FillTypes DEF AtWork, Labels
<1>3. RowsTrue'
  BY <1>1, <1>2, SyncOneRows
<1>4. StillHeld' /\ Filled'
  BY <1>1 DEF StillHeld, Filled, Settled, AfterTags
<1>5. ThreadTrue'
  BY <1>1, <1>4, ThreadGoes DEF site, Settled, AfterTags, FillInv, ThreadTrue, InHand
<1>6. QED
  BY <1>3, <1>5 DEF FillInv

(* The thread takes the remote id of its post in hand, and trusts the      *)
(* publish time of the row.                                                *)
LEMMA FillClaims ==
  ASSUME FillInv, MarkerInv', Claim \/ Readopted
  PROVE  FillInv'
<1>1. /\ pc \in {"claim", "readopted"} /\ cur' = cur
      /\ UNCHANGED <<remoteId, pubAt, img, markers, usr, site, mode>>
  BY DEF Claim, Readopted, Abandon
<1>2. CASE pc' = "failing"
  BY <1>1, <1>2, FillGivesUp DEF Claim, Readopted, Abandon, Settled, AfterTags
<1>3. CASE pc' # "failing"
  <2>1. /\ pc' \in {"lookback", "preflight"} /\ bound' = remoteId[cur]
        /\ dated' = (pubAt[cur] # "none")
    BY <1>1, <1>3 DEF Claim, Readopted, Abandon
  <2>2. cur \in Posts
    BY <1>1, FillTypes DEF AtWork, Labels
  <2>3. RowsTrue'
    BY <1>1, RowsKept DEF site
  <2>4. StillHeld' /\ Filled'
    BY <1>1, <2>1 DEF StillHeld, Filled, Settled, AfterTags
  <2>5. KnownBound /\ Timed
    BY DEF FillInv, RowsTrue
  <2>6. InHand'
    BY <1>1, <2>1, <2>2, <2>5 DEF InHand, KnownBound, Timed, Settled, AfterTags, site
  <2>7. QED
    BY <2>3, <2>4, <2>6 DEF FillInv, ThreadTrue
<1>4. QED
  BY <1>2, <1>3

LEMMA FillPreflight ==
  ASSUME FillInv, MarkerInv'
  PROVE  /\ LookBack => FillInv'
         /\ PreflightPasses => FillInv'
<1>1. ASSUME LookBack \/ PreflightPasses PROVE FillInv'
  <2>1. /\ pc \in {"lookback", "preflight"} /\ pc' \in {"find", "preflight", "attempt", "tags"}
        /\ UNCHANGED <<cur, bound, dated, mode, local, usr, site>>
        /\ pc' = "tags" => pc = "preflight"
    BY <1>1 DEF LookBack, PreflightPasses, AfterPreflight, Goto
  <2>2. RowsTrue'
    BY <2>1, RowsKept DEF local, site
  <2>3. bound = remoteId[cur] /\ state[cur] = "pushing"
    BY <2>1 DEF FillInv, ThreadTrue, StillHeld, MarkerInv, IInv, Owned, BeforePost
  <2>4. StillHeld' /\ Filled'
    BY <2>1, <2>3 DEF StillHeld, Filled, Settled, AfterTags, local
  <2>5. ThreadTrue'
    BY <2>1, <2>4, ThreadGoes
       DEF site, local, Settled, AfterTags, FillInv, ThreadTrue, InHand
  <2>6. QED
    BY <2>2, <2>5 DEF FillInv
<1>2. QED
  BY <1>1

-----------------------------------------------------------------------------
(* The creation, the adoption and the deletion of a post on CivitAI: the   *)
(* steps that change whom it belongs to.                                   *)

LEMMA FillRecordsAttempt ==
  ASSUME FillInv, MarkerInv', RecordAttempt
  PROVE  FillInv'
<1> USE FillTypes
<1>1. /\ pc = "attempt" /\ pc' = "create" /\ bound' = bound /\ dated' = dated
      /\ markers' = [markers EXCEPT ![cur] = @ \cup {runs}]
      /\ UNCHANGED <<remoteId, pubAt, img, usr, site>>
  BY DEF RecordAttempt, Goto
<1>2. bound = NoRemote
  BY <1>1 DEF FillInv, MarkerInv, IInv, Unbound
<1>3. NoRequest' /\ Lone' /\ OnSite' /\ Timed' /\ NeverHalfFilled'
  BY <1>1 DEF FillInv, RowsTrue, NoRequest, Lone, LivePosts, OnSite, Timed, NeverHalfFilled, site
<1>4. KnownBound'
  <2>1. \A p \in Posts : markers[p] \subseteq markers'[p]
    BY <1>1
  <2>2. KnownBound
    BY DEF FillInv, RowsTrue
  <2>3. QED
    BY <1>1, <2>1, <2>2 DEF KnownBound, site
<1>5. ThreadTrue'
  BY <1>1, <1>2, ThreadEmpty DEF Settled, AfterTags
<1>6. QED
  BY <1>3, <1>4, <1>5 DEF FillInv, RowsTrue

LEMMA FillCreates ==
  ASSUME FillInv, MarkerInv', NEW r \in Remotes, CreateLands(r)
  PROVE  FillInv'
<1> USE FillTypes
<1>1. /\ pc = "create" /\ owner[r] = NoPost /\ cur \in Posts /\ cur' = cur
      /\ owner' = [owner EXCEPT ![r] = cur] /\ live' = live \cup {r}
      /\ siteTag' = [siteTag EXCEPT ![r] = runs]
      /\ UNCHANGED <<remoteId, pubAt, img, markers, usr, siteTime, setBy, att, runs>>
  BY DEF CreateLands, Abandon, local, table, AtWork, Labels
<1>2. /\ bound = NoRemote /\ remoteId[cur] = NoRemote /\ runs \in markers[cur]
      /\ \A p \in Posts : remoteId[p] # r
  BY <1>1, NoneAssumption DEF FillInv, MarkerInv, IInv, Unbound, KnownMarkers, OwnIds
<1>3. NoRequest' /\ OnSite' /\ Timed' /\ NeverHalfFilled'
  BY <1>1 DEF FillInv, RowsTrue, NoRequest, OnSite, Timed, NeverHalfFilled
<1>4. Lone'
  <2>1. \A p \in Posts \ {cur} : LivePosts(p)' \subseteq LivePosts(p)
    BY <1>1 DEF LivePosts
  <2>2. Lone
    BY DEF FillInv, RowsTrue
  <2>3. QED
    BY <1>1, <1>2, <2>1, <2>2 DEF Lone
<1>5. KnownBound'
  BY <1>1, <1>2 DEF FillInv, RowsTrue, KnownBound
<1>6. CASE pc' = "failing"
  <2>1. bound' = NoRemote /\ dated' = FALSE
    BY <1>1, <1>6 DEF CreateLands, Abandon
  <2>2. ThreadTrue'
    BY <1>6, <2>1, ThreadEmpty DEF Settled, AfterTags
  <2>3. QED
    BY <1>3, <1>4, <1>5, <2>2 DEF FillInv, RowsTrue
<1>7. CASE pc' # "failing"
  <2>1. pc' = "created" /\ bound' = r /\ dated' = dated
    BY <1>1, <1>7 DEF CreateLands, Abandon
  <2>2. dated = FALSE
    BY <1>2 DEF FillInv, ThreadTrue, InHand
  <2>3. StillHeld' /\ Filled'
    BY <2>1 DEF StillHeld, Filled, Settled, AfterTags
  <2>4. InHand'
    BY <1>1, <1>2, <2>1, <2>2 DEF InHand, Settled, AfterTags
  <2>5. QED
    BY <1>3, <1>4, <1>5, <2>3, <2>4 DEF FillInv, RowsTrue, ThreadTrue
<1>8. QED
  BY <1>6, <1>7

(* A post takes the id of the one post CivitAI holds for it.  It had none  *)
(* before, or that one already.                                            *)
LEMMA RowsBound ==
  ASSUME FillInv, NEW p \in Posts, NEW r \in Remotes, owner[r] = p,
         LivePosts(p) \subseteq {r}, siteTag[r] # 0 => siteTag[r] \in markers[p],
         remoteId' = [remoteId EXCEPT ![p] = r],
         UNCHANGED <<markers, usr, site>>, OnSite', Timed'
  PROVE  RowsTrue'
<1> USE FillTypes DEF FillInv, RowsTrue, site
<1>1. remoteId'[p] = r /\ \A q \in Posts \ {p} : remoteId'[q] = remoteId[q]
  OBVIOUS
<1>2. NoRequest' /\ NeverHalfFilled'
  BY DEF NoRequest, NeverHalfFilled
<1>3. Lone'
  BY <1>1 DEF Lone, LivePosts
<1>4. KnownBound'
  BY <1>1 DEF KnownBound
<1>5. QED
  BY <1>2, <1>3, <1>4

(* A draft that is adopted is the only one, and its marker has a row. *)
LEMMA Adoptable ==
  ASSUME FillInv, NEW p \in Posts, NEW r \in live, owner[r] = p
  PROVE  /\ r \in Remotes /\ LivePosts(p) \subseteq {r}
         /\ remoteId[p] = NoRemote \/ remoteId[p] = r
         /\ siteTag[r] # 0 => siteTag[r] \in markers[p]
<1>1. r \in LivePosts(p) /\ r \in Remotes
  BY FillTypes DEF LivePosts
<1>2. LivePosts(p) \subseteq {r}
  BY <1>1 DEF FillInv, MarkerInv, IInv, AtMostOneRemotePost
<1>3. remoteId[p] = NoRemote \/ remoteId[p] = r
  BY <1>1 DEF FillInv, RowsTrue, Lone
<1>4. QED
  BY <1>1, <1>2, <1>3 DEF FillInv, MarkerInv, KnownMarkers

LEMMA RowsAdopted ==
  ASSUME FillInv, NEW p \in Posts, NEW r \in live, owner[r] = p,
         remoteId' = [remoteId EXCEPT ![p] = r],
         UNCHANGED <<markers, usr, site>>,
         Synced(p, r, siteTime[r]) \/ UNCHANGED <<state, pubAt, img>>
  PROVE  RowsTrue'
<1>1. /\ LivePosts(p) \subseteq {r} /\ r \in Remotes
      /\ siteTag[r] # 0 => siteTag[r] \in markers[p]
  BY Adoptable
<1>2. /\ remoteId'[p] = r /\ r # NoRemote
      /\ \A q \in Posts : remoteId[q] = NoRemote \/ remoteId'[q] = remoteId[q]
  BY <1>1, Adoptable, FillTypes
<1>3. OnSite'
  <2>1. SUFFICES ASSUME NEW q \in Posts, NEW i \in Images, img'[q][i] = "attached"
                 PROVE  remoteId'[q] # NoRemote /\ att[remoteId'[q]][i] > 0
    BY DEF OnSite, site
  <2>2. img[q][i] = "attached" \/ (q = p /\ att[r][i] > 0)
    BY <1>1, <2>1, SyncedRows
  <2>3. QED
    BY <1>2, <2>2 DEF FillInv, RowsTrue, OnSite
<1>4. Timed'
  <2>1. \A q \in Posts : pubAt'[q] # "none" =>
          pubAt[q] # "none" \/ (q = p /\ siteTime[r] # "none")
    BY <1>1, SyncedRows
  <2>2. QED
    BY <1>2, <2>1 DEF FillInv, RowsTrue, Timed, site
<1>5. QED
  BY <1>1, <1>3, <1>4, RowsBound

LEMMA FillFinds ==
  ASSUME ~MixUps, FillInv, MarkerInv', NEW r \in Remotes, FindAdopts(r)
  PROVE  FillInv'
<1>1. /\ pc = "find" /\ pc' = "readopted" /\ bound' = bound /\ dated' = dated
      /\ r \in live /\ owner[r] = cur /\ remoteId' = [remoteId EXCEPT ![cur] = r]
      /\ UNCHANGED <<markers, usr, site>>
  BY DEF FindAdopts, Goto, Candidates
<1>2. Synced(cur, r, siteTime[r]) \/ UNCHANGED <<state, pubAt, img>>
  BY DEF FindAdopts
<1>3. cur \in Posts /\ bound = NoRemote
  BY <1>1, FillTypes DEF AtWork, Labels, FillInv, MarkerInv, IInv, Unbound
<1>4. RowsTrue'
  BY <1>1, <1>2, <1>3, RowsAdopted
<1>5. ThreadTrue'
  BY <1>1, <1>3, ThreadEmpty DEF Settled, AfterTags
<1>6. QED
  BY <1>4, <1>5 DEF FillInv

LEMMA FillRecordsCreated ==
  ASSUME FillInv, MarkerInv', RecordCreated
  PROVE  FillInv'
<1> USE FillTypes
<1>1. /\ pc = "created" /\ cur' = cur /\ UNCHANGED <<mode, state, img, markers, usr, site>>
      /\ cur \in Posts /\ bound \in Remotes
  BY DEF RecordCreated, Abandon, FillInv, MarkerInv, IInv, Located, OnPost, AtWork, Labels
<1>2. CASE ~Unknown(bound)
  BY <1>2, FillGivesUp DEF RecordCreated, Abandon, Settled, AfterTags
<1>3. CASE Unknown(bound)
  <2>1. /\ pc' = "tags" /\ bound' = bound /\ dated' = FALSE
        /\ remoteId' = [remoteId EXCEPT ![cur] = bound]
        /\ pubAt' = [pubAt EXCEPT ![cur] = "none"]
    BY <1>3 DEF RecordCreated
  <2>2. /\ LivePosts(cur) \subseteq {bound} /\ owner[bound] = cur /\ remoteId[cur] = NoRemote
        /\ state[cur] = "pushing"
    BY <1>1 DEF FillInv, MarkerInv, IInv, NothingThere, Unbound, Owned, BeforePost
  <2>3. siteTag[bound] # 0 => siteTag[bound] \in markers[cur]
    BY <1>1 DEF FillInv, ThreadTrue, InHand
  <2>4. RowsTrue'
    <3>1. \A q \in Posts : remoteId'[q] = IF q = cur THEN bound ELSE remoteId[q]
      BY <1>1, <2>1
    <3>2. OnSite' /\ Timed'
      BY <1>1, <2>1, <2>2, <3>1 DEF FillInv, RowsTrue, OnSite, Timed, site
    <3>3. QED
      BY <1>1, <2>1, <2>2, <2>3, <3>2, RowsBound
  <2>5. StillHeld' /\ Filled'
    BY <1>1, <2>1, <2>2 DEF StillHeld, Filled, Settled, AfterTags
  <2>6. InHand'
    BY <1>1, <2>1, <2>3 DEF InHand, Settled, AfterTags, site
  <2>7. QED
    BY <2>4, <2>5, <2>6 DEF FillInv, ThreadTrue
<1>4. QED
  BY <1>2, <1>3

-----------------------------------------------------------------------------
(* The tags step, the uploads and the attachments. *)

(* A marker that leaves the rows of the post in hand has left the post. *)
LEMMA RowsCleaned ==
  ASSUME FillInv, pc = "tags",
         UNCHANGED <<remoteId, pubAt, img, owner, live, siteTime, setBy, att, usr>>,
         NEW dropped \in SUBSET Runs, markers' = [markers EXCEPT ![cur] = @ \ dropped],
         \A r \in Remotes \ {bound} : siteTag'[r] = siteTag[r],
         siteTag'[bound] # 0 => siteTag'[bound] = siteTag[bound] /\ siteTag[bound] \notin dropped
  PROVE  RowsTrue'
<1> USE FillTypes
<1>1. cur \in Posts /\ bound = remoteId[cur] /\ owner[bound] = cur /\ bound \in Remotes
  BY OnlyBound DEF FillInv, ThreadTrue, StillHeld
<1>2. NoRequest' /\ Lone' /\ OnSite' /\ Timed' /\ NeverHalfFilled'
  BY DEF FillInv, RowsTrue, NoRequest, Lone, LivePosts, OnSite, Timed, NeverHalfFilled
<1>3. KnownBound'
  <2>1. SUFFICES ASSUME NEW p \in Posts, remoteId[p] # NoRemote, siteTag'[remoteId[p]] # 0
                 PROVE  siteTag'[remoteId[p]] \in markers'[p]
    BY DEF KnownBound
  <2>2. remoteId[p] \in Remotes /\ owner[remoteId[p]] = p
    BY <2>1 DEF FillInv, MarkerInv, IInv, OwnIds
  <2>3. siteTag'[remoteId[p]] = siteTag[remoteId[p]]
    BY <2>1, <2>2
  <2>4. siteTag[remoteId[p]] \in markers[p]
    BY <2>1, <2>3 DEF FillInv, RowsTrue, KnownBound
  <2>5. CASE p = cur
    BY <1>1, <2>1, <2>3, <2>4, <2>5
  <2>6. CASE p # cur
    BY <1>1, <2>3, <2>4, <2>6
  <2>7. QED
    BY <2>5, <2>6
<1>4. QED
  BY <1>2, <1>3 DEF FillInv, RowsTrue

LEMMA FillTags ==
  ASSUME FillInv, MarkerInv'
  PROVE  /\ TagsPlain => FillInv'
         /\ TagsCleared => FillInv'
         /\ \A dropped \in SUBSET Runs, removed \in BOOLEAN :
              TagsFail(dropped, removed) => FillInv'
<1>0. pc = "tags" => /\ cur \in Posts /\ bound \in Remotes /\ owner[bound] = cur
                     /\ siteTag \in [Remotes -> 0 .. MaxRuns]
                     /\ markers \in [Posts -> SUBSET Runs]
                     /\ bound = remoteId[cur] /\ state[cur] = "pushing"
                     /\ siteTag[bound] # 0 => siteTag[bound] \in markers[cur]
  BY OnlyBound, FillTypes DEF FillInv, ThreadTrue, StillHeld, InHand
<1>1. ASSUME TagsPlain PROVE FillInv'
  <2>1. /\ pc = "tags" /\ pc' = "upload" /\ markers[cur] = {}
        /\ UNCHANGED <<cur, bound, dated, mode, local, usr, site>>
    BY <1>1 DEF TagsPlain, Goto
  <2>2. RowsTrue'
    BY <2>1, RowsKept DEF local, site
  <2>3. StillHeld' /\ Filled'
    BY <1>0, <2>1 DEF StillHeld, Filled, Settled, AfterTags, local
  <2>4. ThreadTrue'
    BY <1>0, <2>1, <2>3, ThreadGoes DEF local, site, Settled, AfterTags
  <2>5. QED
    BY <2>2, <2>4 DEF FillInv
<1>2. ASSUME TagsCleared PROVE FillInv'
  <2>1. /\ pc = "tags" /\ pc' = "upload" /\ markers' = [markers EXCEPT ![cur] = {}]
        /\ siteTag' = IF owner[bound] = cur /\ siteTag[bound] \in markers[cur]
                      THEN [siteTag EXCEPT ![bound] = 0] ELSE siteTag
        /\ UNCHANGED <<cur, bound, dated, mode, state, remoteId, pubAt, img, owner, live,
                       siteTime, setBy, att, usr>>
    BY <1>2 DEF TagsCleared, Goto
  <2>2. siteTag'[bound] = 0 /\ \A r \in Remotes \ {bound} : siteTag'[r] = siteTag[r]
    BY <1>0, <2>1
  <2>3. markers' = [markers EXCEPT ![cur] = @ \ Runs]
    BY <1>0, <2>1
  <2>4. RowsTrue'
    BY <2>1, <2>2, <2>3, RowsCleaned
  <2>5. StillHeld' /\ Filled'
    BY <1>0, <2>1 DEF StillHeld, Filled, Settled, AfterTags
  <2>6. InHand'
    BY <2>1, <2>2 DEF FillInv, ThreadTrue, InHand, Settled, AfterTags
  <2>7. QED
    BY <2>4, <2>5, <2>6 DEF FillInv, ThreadTrue
<1>3. ASSUME NEW dropped \in SUBSET Runs, NEW removed \in BOOLEAN, TagsFail(dropped, removed)
      PROVE  FillInv'
  <2>1. /\ pc = "tags" /\ pc' = "failing" /\ bound' = NoRemote /\ dated' = FALSE
        /\ markers' = [markers EXCEPT ![cur] = @ \ dropped]
        /\ dropped \subseteq markers[cur]
        /\ siteTag' = IF /\ owner[bound] = cur
                         /\ siteTag[bound] \in (IF removed THEN markers[cur] ELSE dropped)
                      THEN [siteTag EXCEPT ![bound] = 0] ELSE siteTag
        /\ UNCHANGED <<remoteId, pubAt, img, owner, live, siteTime, setBy, att, usr>>
    BY <1>3 DEF TagsFail, MarkerStuck, Abandon
  <2>2. /\ \A r \in Remotes \ {bound} : siteTag'[r] = siteTag[r]
        /\ siteTag'[bound] # 0 => siteTag'[bound] = siteTag[bound] /\ siteTag[bound] \notin dropped
    BY <1>0, <2>1
  <2>3. RowsTrue'
    BY <2>1, <2>2, RowsCleaned
  <2>4. ThreadTrue'
    BY <2>1, ThreadEmpty DEF Settled, AfterTags
  <2>5. QED
    BY <2>3, <2>4 DEF FillInv
<1>4. QED
  BY <1>1, <1>2, <1>3

(* Between two steps on the way from the tags to the publish time. *)
LEMMA FillWorks ==
  ASSUME FillInv, MarkerInv', RowsTrue', Filled',
         pc \in AfterTags, pc' \in AfterTags \ {"record"},
         UNCHANGED <<cur, bound, dated, mode, state, remoteId, markers, siteTag>>,
         \A r \in Remotes : siteTime'[r] = "none" => siteTime[r] = "none"
  PROVE  FillInv'
<1>1. StillHeld'
  BY DEF FillInv, ThreadTrue, StillHeld, Settled, AfterTags
<1>2. ThreadTrue'
  BY <1>1, ThreadGoes DEF FillInv, ThreadTrue, InHand, Settled, AfterTags
<1>3. QED
  BY <1>2 DEF FillInv

LEMMA FillUploads ==
  ASSUME FillInv, MarkerInv'
  PROVE  /\ \A i \in Images : Upload(i) => FillInv'
         /\ Uploaded => FillInv'
<1> USE FillTypes
<1>1. ASSUME NEW i \in Images, Upload(i) PROVE FillInv'
  <2>1. /\ pc = "upload" /\ pc' = "upload" /\ cur \in Posts
        /\ img' = [img EXCEPT ![cur][i] = IF @ = "new" THEN "staged" ELSE @]
        /\ UNCHANGED <<cur, bound, dated, mode, state, remoteId, pubAt, markers, usr, site>>
    BY <1>1 DEF Upload, AtWork, Labels
  <2>2. \A q \in Posts, j \in Images : img'[q][j] = "attached" => img[q][j] = "attached"
    BY <2>1
  <2>3. RowsTrue'
    BY <2>1, <2>2, RowsKept DEF site
  <2>4. Filled'
    BY <2>1 DEF Filled, Settled, AfterTags
  <2>5. QED
    BY <2>1, <2>3, <2>4, FillWorks DEF site, AfterTags
<1>2. ASSUME Uploaded PROVE FillInv'
  <2>1. /\ pc = "upload" /\ pc' = "attach" /\ todo' = Unattached(cur) /\ cur \in Posts
        /\ UNCHANGED <<cur, bound, dated, mode, local, usr, site>>
    BY <1>2 DEF Uploaded, AtWork, Labels
  <2>2. RowsTrue'
    BY <2>1, RowsKept DEF local, site
  <2>3. bound = remoteId[cur]
    BY <2>1 DEF FillInv, ThreadTrue, StillHeld, AfterTags
  <2>4. \A i \in Images \ Unattached(cur) : att[bound][i] > 0
    BY <2>1, <2>3 DEF FillInv, RowsTrue, OnSite, Unattached
  <2>5. Filled'
    BY <2>1, <2>4 DEF Filled, Settled, AfterTags, site
  <2>6. QED
    BY <2>1, <2>2, <2>5, FillWorks DEF local, site, AfterTags
<1>3. QED
  BY <1>1, <1>2

(* post.addImage never takes an image off a post. *)
LEMMA AttachGrows ==
  ASSUME FillInv, NEW i \in Images, NEW times \in 1 .. 2, AttachLands(i, times)
  PROVE  /\ bound \in Remotes /\ att'[bound][i] > 0
         /\ \A r \in Remotes, j \in Images : att[r][j] > 0 => att'[r][j] > 0
<1>1. bound \in Remotes /\ att \in [Remotes -> [Images -> 0 .. 2]]
  BY FillTypes DEF AttachLands
<1>2. att' = [att EXCEPT ![bound][i] = IF @ + times > 2 THEN 2 ELSE @ + times]
  BY DEF AttachLands
<1>3. att[bound][i] \in 0 .. 2
  BY <1>1
<1>4. att'[bound][i] = IF att[bound][i] + times > 2 THEN 2 ELSE att[bound][i] + times
  BY <1>1, <1>2
<1>5. att'[bound][i] > 0
  BY <1>3, <1>4
<1>6. \A r \in Remotes, j \in Images : r # bound \/ j # i => att'[r][j] = att[r][j]
  BY <1>1, <1>2
<1>7. QED
  BY <1>1, <1>5, <1>6

LEMMA FillAttaches ==
  ASSUME FillInv, MarkerInv'
  PROVE  /\ \A i \in Images, times \in 1 .. 2 : AttachLands(i, times) => FillInv'
         /\ RecordAttachment => FillInv'
         /\ AttachedAll => FillInv'
<1> USE FillTypes
<1>1. ASSUME NEW i \in Images, NEW times \in 1 .. 2, AttachLands(i, times) PROVE FillInv'
  <2>1. /\ pc = "attach" /\ UNCHANGED <<mode, local, usr, owner, live, siteTag, siteTime, setBy>>
        /\ \/ pc' = "failing" /\ bound' = NoRemote /\ dated' = FALSE
           \/ pc' = "attached" /\ shot' = i /\ UNCHANGED <<cur, bound, dated, todo>>
    BY <1>1 DEF AttachLands, Abandon
  <2>2. /\ bound \in Remotes /\ att'[bound][i] > 0
        /\ \A r \in Remotes, j \in Images : att[r][j] > 0 => att'[r][j] > 0
    BY <1>1, AttachGrows
  <2>3. RowsTrue'
    BY <2>1, <2>2, RowsKept DEF local
  <2>4. CASE pc' = "failing"
    BY <2>1, <2>3, <2>4, ThreadEmpty DEF FillInv, Settled, AfterTags
  <2>5. CASE pc' = "attached"
    <3>1. Filled'
      BY <2>1, <2>2, <2>5 DEF FillInv, ThreadTrue, Filled, Settled, AfterTags
    <3>2. QED
      BY <2>1, <2>3, <2>5, <3>1, FillWorks DEF local, AfterTags
  <2>6. QED
    BY <2>1, <2>4, <2>5
<1>2. ASSUME RecordAttachment PROVE FillInv'
  <2>1. /\ pc = "attached" /\ pc' = "attach" /\ todo' = todo \ {shot} /\ cur \in Posts
        /\ img' = [img EXCEPT ![cur][shot] = "attached"]
        /\ UNCHANGED <<cur, bound, dated, mode, state, remoteId, pubAt, markers, usr, site>>
    BY <1>2 DEF RecordAttachment, AtWork, Labels
  <2>2. shot \in Images /\ bound = remoteId[cur] /\ bound \in Remotes /\ att[bound][shot] > 0
    BY <2>1 DEF FillInv, ThreadTrue, StillHeld, Filled, MarkerInv, IInv, Located, AfterTags, OnPost
  <2>3. \A q \in Posts, j \in Images : img'[q][j] = "attached" =>
          img[q][j] = "attached" \/ (q = cur /\ j = shot)
    BY <2>1, <2>2
  <2>4. RowsTrue'
    <3>1. \A q \in Posts, j \in Images : img'[q][j] = "attached" =>
            \/ img[q][j] = "attached"
            \/ remoteId[q] # NoRemote /\ att'[remoteId[q]][j] > 0
      BY <2>1, <2>2, <2>3 DEF site
    <3>2. QED
      BY <2>1, <3>1, RowsKept DEF site
  <2>5. Filled'
    BY <2>1, <2>2 DEF FillInv, ThreadTrue, Filled, Settled, AfterTags, site
  <2>6. QED
    BY <2>1, <2>4, <2>5, FillWorks DEF site, AfterTags
<1>3. ASSUME AttachedAll PROVE FillInv'
  <2>1. /\ pc = "attach" /\ pc' = "publish" /\ todo = {}
        /\ UNCHANGED <<cur, bound, dated, mode, local, usr, site>>
    BY <1>3 DEF AttachedAll, NoneLeft, Goto
  <2>2. RowsTrue'
    BY <2>1, RowsKept DEF local, site
  <2>3. Filled'
    BY <2>1 DEF FillInv, ThreadTrue, Filled, Settled, AfterTags, site
  <2>4. QED
    BY <2>1, <2>2, <2>3, FillWorks DEF local, site, AfterTags
<1>4. QED
  BY <1>1, <1>2, <1>3

-----------------------------------------------------------------------------
(* The publish time: set on a full post, recorded and read back. *)

LEMMA FillPublishes ==
  ASSUME FillInv, MarkerInv'
  PROVE  /\ PublishNothing => FillInv'
         /\ PublishNow => FillInv'
         /\ ReadTime => FillInv'
         /\ SendTime => FillInv'
<1> USE FillTypes
<1>0. pc \in {"publish", "stamp"} =>
        /\ bound \in Remotes /\ bound = remoteId[cur] /\ state[cur] = "pushing"
        /\ siteTag[bound] = 0 /\ \A i \in Images : att[bound][i] > 0
  BY DEF FillInv, ThreadTrue, StillHeld, InHand, Filled, Settled, AfterTags
<1>1. ASSUME PublishNothing PROVE FillInv'
  <2>1. /\ pc = "publish" /\ pc' = "confirm" /\ (mode[cur] # "draft_only" => dated)
        /\ UNCHANGED <<cur, bound, dated, mode, local, usr, site>>
    BY <1>1 DEF PublishNothing
  <2>2. RowsTrue'
    BY <2>1, RowsKept DEF local, site
  <2>3. StillHeld' /\ Filled'
    BY <1>0, <2>1 DEF StillHeld, Filled, Settled, AfterTags, site
  <2>4. ThreadTrue'
    BY <1>0, <2>1, <2>3, ThreadGoes DEF local, site, FillInv, ThreadTrue, InHand
  <2>5. QED
    BY <2>2, <2>4 DEF FillInv
<1>2. ASSUME PublishNow PROVE FillInv'
  <2>1. /\ pc = "publish" /\ siteTime' = [siteTime EXCEPT ![bound] = "past"]
        /\ \A r \in Remotes : setBy'[r] = "push" => setBy[r] = "push" \/ r = bound
        /\ UNCHANGED <<mode, local, usr, owner, live, siteTag, att>>
        /\ \/ pc' = "failing" /\ bound' = NoRemote /\ dated' = FALSE
           \/ pc' = "confirm" /\ UNCHANGED <<cur, bound, dated>>
    BY <1>2 DEF PublishNow, Abandon
  <2>2. siteTime'[bound] # "none" /\ \A r \in Remotes : siteTime'[r] = "none" => siteTime[r] = "none"
    BY <1>0, <2>1
  <2>3. RowsTrue'
    BY <1>0, <2>1, <2>2, RowsKept DEF local
  <2>4. CASE pc' = "failing"
    BY <2>1, <2>3, <2>4, ThreadEmpty DEF FillInv, Settled, AfterTags
  <2>5. CASE pc' = "confirm"
    <3>1. StillHeld' /\ Filled'
      BY <1>0, <2>1, <2>5 DEF StillHeld, Filled, Settled, AfterTags
    <3>2. ThreadTrue'
      BY <1>0, <2>1, <2>2, <2>5, <3>1, ThreadGoes DEF local
    <3>3. QED
      BY <2>3, <3>2 DEF FillInv
  <2>6. QED
    BY <2>1, <2>4, <2>5
<1>3. ASSUME ReadTime PROVE FillInv'
  <2>1. /\ pc = "publish" /\ pc' = IF siteTime[bound] = "none" THEN "stamp" ELSE "record"
        /\ UNCHANGED <<cur, bound, dated, mode, local, usr, site>>
    BY <1>3 DEF ReadTime, Goto
  <2>2. RowsTrue'
    BY <2>1, RowsKept DEF local, site
  <2>3. StillHeld' /\ Filled'
    BY <1>0, <2>1 DEF StillHeld, Filled, Settled, AfterTags, local, site
  <2>4. ThreadTrue'
    BY <1>0, <2>1, <2>3, ThreadGoes DEF local, site
  <2>5. QED
    BY <2>2, <2>4 DEF FillInv
<1>4. ASSUME SendTime PROVE FillInv'
  <2>1. /\ pc = "stamp" /\ siteTime' = [siteTime EXCEPT ![bound] = "future"]
        /\ setBy' = [setBy EXCEPT ![bound] = "push"]
        /\ UNCHANGED <<mode, local, usr, owner, live, siteTag, att>>
        /\ \/ pc' = "failing" /\ bound' = NoRemote /\ dated' = FALSE
           \/ pc' = "record" /\ UNCHANGED <<cur, bound, dated>>
    BY <1>4 DEF SendTime, Abandon, Goto
  <2>2. /\ siteTime'[bound] # "none"
        /\ \A r \in Remotes : siteTime'[r] = "none" => siteTime[r] = "none"
        /\ \A r \in Remotes : setBy'[r] = "push" => setBy[r] = "push" \/ r = bound
    BY <1>0, <2>1
  <2>3. RowsTrue'
    BY <1>0, <2>1, <2>2, RowsKept DEF local
  <2>4. CASE pc' = "failing"
    BY <2>1, <2>3, <2>4, ThreadEmpty DEF FillInv, Settled, AfterTags
  <2>5. CASE pc' = "record"
    <3>1. StillHeld' /\ Filled'
      BY <1>0, <2>1, <2>5 DEF StillHeld, Filled, Settled, AfterTags, local
    <3>2. ThreadTrue'
      BY <1>0, <2>1, <2>2, <2>5, <3>1, ThreadGoes DEF local
    <3>3. QED
      BY <2>3, <3>2 DEF FillInv
  <2>6. QED
    BY <2>1, <2>4, <2>5
<1>5. QED
  BY <1>1, <1>2, <1>3, <1>4

LEMMA FillRecordsTime ==
  ASSUME FillInv, MarkerInv', RecordTime
  PROVE  FillInv'
<1> USE FillTypes
<1>1. /\ pc = "record" /\ cur \in Posts /\ bound \in Remotes /\ bound = remoteId[cur]
      /\ siteTag[bound] = 0 /\ siteTime[bound] # "none" /\ \A i \in Images : att[bound][i] > 0
      /\ UNCHANGED <<remoteId, img, markers, mode, usr, site>>
  BY DEF RecordTime, FillInv, ThreadTrue, StillHeld, InHand, Filled, Settled, AfterTags,
     AtWork, Labels
<1>2. CASE pc' = "failing"
  BY <1>2, FillGivesUp DEF RecordTime, Abandon, Settled, AfterTags
<1>3. CASE pc' # "failing"
  <2>1. /\ pc' = "confirm" /\ pubAt' = [pubAt EXCEPT ![cur] = siteTime[bound]]
        /\ UNCHANGED <<cur, bound, dated>>
    BY <1>3 DEF RecordTime, Abandon
  <2>2. \A q \in Posts : pubAt'[q] # "none" => pubAt[q] # "none" \/ q = cur
    BY <1>1, <2>1
  <2>3. RowsTrue'
    BY <1>1, <2>1, <2>2, RowsKept DEF site
  <2>4. StillHeld' /\ Filled'
    BY <1>1, <2>1 DEF StillHeld, Filled, Settled, AfterTags, site
  <2>5. ThreadTrue'
    BY <1>1, <2>1, <2>4, ThreadGoes DEF site
  <2>6. QED
    BY <2>3, <2>5 DEF FillInv
<1>4. QED
  BY <1>2, <1>3

LEMMA FillConfirms ==
  ASSUME FillInv, MarkerInv', ConfirmReads \/ ConfirmFails
  PROVE  FillInv'
<1> USE FillTypes
<1>1. /\ pc = "confirm" /\ cur \in Posts /\ bound \in Remotes
      /\ siteTag[bound] = 0 /\ \A i \in Images : att[bound][i] > 0
      /\ mode[cur] # "draft_only" => siteTime[bound] # "none"
      /\ UNCHANGED <<mode, remoteId, markers, usr, site>>
      /\ \/ pc' = "failing" /\ bound' = NoRemote /\ dated' = FALSE
         \/ pc' = "finish" /\ UNCHANGED <<cur, bound, dated>>
  BY DEF ConfirmReads, ConfirmFails, FillInv, ThreadTrue, StillHeld, InHand, Filled, Settled,
     AfterTags, AtWork, Labels, Goto, Abandon
<1>2. SyncOne(cur)
  BY DEF ConfirmReads, ConfirmFails, SyncOne
<1>3. RowsTrue'
  BY <1>1, <1>2, SyncOneRows
<1>4. CASE pc' = "failing"
  BY <1>1, <1>3, <1>4, ThreadEmpty DEF FillInv, Settled, AfterTags
<1>5. CASE pc' = "finish"
  <2>1. StillHeld' /\ Filled'
    BY <1>1, <1>5 DEF StillHeld, Filled, Settled, AfterTags, site
  <2>2. ThreadTrue'
    BY <1>1, <1>5, <2>1, ThreadGoes DEF site
  <2>3. QED
    BY <1>3, <2>2 DEF FillInv
<1>6. QED
  BY <1>1, <1>4, <1>5

LEMMA FillFinishes ==
  ASSUME FillInv, MarkerInv', FinishPost
  PROVE  FillInv'
  BY FillGivesUp DEF FinishPost, Rest, local, Settled, AfterTags

-----------------------------------------------------------------------------
(* The user, a request half way through, and the site. *)

LEMMA FillRow ==
  ASSUME FillInv, NEW p \in Posts, UserMay(p),
         \A q \in Posts \ {p} : state'[q] = state[q] /\ remoteId'[q] = remoteId[q]
  PROVE  pc \in Holding => remoteId'[cur] = remoteId[cur] /\ state'[cur] = state[cur]
  BY Untouchable, FillTypes DEF Holding, BeforePost, AfterTags, AtWork, Labels

LEMMA FillUser ==
  ASSUME ~TornDelete, ~MixUps, FillInv, MarkerInv', NEW p \in Posts
  PROVE  /\ \A target \in {"ready", "draft", "archived"} : MarkState(p, target) => FillInv'
         /\ \A r \in Remotes : AdoptByHand(p, r) => FillInv'
         /\ SyncByHand(p) => FillInv'
         /\ Reschedule(p) => FillInv'
         /\ DeleteRemote(p) => FillInv'
<1> USE FillTypes
<1>1. ASSUME NEW target \in {"ready", "draft", "archived"}, MarkState(p, target)
      PROVE  FillInv'
  <2>1. /\ UserMay(p) /\ state' = [state EXCEPT ![p] = target]
        /\ UNCHANGED <<mode, remoteId, pubAt, img, markers, thread, usr, site>>
    BY <1>1 DEF MarkState
  <2>2. pc \in Holding => remoteId'[cur] = remoteId[cur] /\ state'[cur] = state[cur]
    BY <2>1, FillRow
  <2>3. RowsTrue'
    BY <2>1, RowsKept DEF site
  <2>4. ThreadTrue'
    BY <2>1, <2>2, ThreadStays DEF site
  <2>5. QED
    BY <2>3, <2>4 DEF FillInv
<1>2. ASSUME NEW r \in Remotes, AdoptByHand(p, r) PROVE FillInv'
  <2>1. /\ UserMay(p) /\ remoteId' = [remoteId EXCEPT ![p] = r] /\ r \in live /\ owner[r] = p
        /\ UNCHANGED <<mode, markers, thread, usr, site>>
    BY <1>2 DEF AdoptByHand
  <2>2. Synced(p, r, siteTime[r]) \/ UNCHANGED <<state, pubAt, img>>
    BY <1>2 DEF AdoptByHand
  <2>3. \A q \in Posts \ {p} : state'[q] = state[q] /\ remoteId'[q] = remoteId[q]
    BY <2>1, <2>2, SyncedRows
  <2>4. pc \in Holding => remoteId'[cur] = remoteId[cur] /\ state'[cur] = state[cur]
    BY <2>1, <2>3, FillRow
  <2>5. RowsTrue'
    BY <2>1, <2>2, RowsAdopted
  <2>6. ThreadTrue'
    BY <2>1, <2>4, ThreadStays DEF site
  <2>7. QED
    BY <2>5, <2>6 DEF FillInv
<1>3. ASSUME SyncByHand(p) PROVE FillInv'
  <2>1. /\ UserMay(p) /\ SyncOne(p) /\ UNCHANGED <<mode, remoteId, markers, thread, usr, site>>
    BY <1>3 DEF SyncByHand
  <2>2. RowsTrue' /\ \A q \in Posts \ {p} : state'[q] = state[q]
    BY <2>1, SyncOneRows
  <2>3. pc \in Holding => remoteId'[cur] = remoteId[cur] /\ state'[cur] = state[cur]
    BY <2>1, <2>2, FillRow
  <2>4. ThreadTrue'
    BY <2>1, <2>3, ThreadStays DEF site
  <2>5. QED
    BY <2>2, <2>4 DEF FillInv
<1>4. ASSUME Reschedule(p) PROVE FillInv'
  <2>1. /\ UserMay(p) /\ remoteId[p] \in Remotes
        /\ siteTime' = [siteTime EXCEPT ![remoteId[p]] = "future"]
        /\ setBy' = [setBy EXCEPT ![remoteId[p]] = "reschedule"]
        /\ UNCHANGED <<mode, remoteId, markers, thread, usr, owner, live, siteTag, att>>
    BY <1>4 DEF Reschedule
  <2>2. Synced(p, remoteId[p], "future") \/ UNCHANGED <<state, pubAt, img>>
    BY <1>4 DEF Reschedule
  <2>3. /\ \A r \in Remotes : siteTime'[r] = "none" => siteTime[r] = "none"
        /\ \A r \in Remotes : setBy'[r] = "push" => setBy[r] = "push"
        /\ siteTime'[remoteId[p]] # "none"
    BY <2>1
  <2>4. \A q \in Posts, i \in Images : img'[q][i] = "attached" =>
          \/ img[q][i] = "attached"
          \/ remoteId[q] # NoRemote /\ att'[remoteId[q]][i] > 0
    BY <2>1, <2>2, SyncedRows
  <2>5. \A q \in Posts : pubAt'[q] # "none" => pubAt[q] # "none" \/ q = p
    BY <2>1, <2>2, SyncedRows
  <2>6. RowsTrue'
    BY <2>1, <2>3, <2>4, <2>5, RowsKept
  <2>7. \A q \in Posts \ {p} : state'[q] = state[q] /\ remoteId'[q] = remoteId[q]
    BY <2>1, <2>2, SyncedRows
  <2>8. pc \in Holding => remoteId'[cur] = remoteId[cur] /\ state'[cur] = state[cur]
    BY <2>1, <2>7, FillRow
  <2>9. ThreadTrue'
    BY <2>1, <2>3, <2>8, ThreadStays
  <2>10. QED
    BY <2>6, <2>9 DEF FillInv
<1>5. ASSUME DeleteRemote(p) PROVE FillInv'
  <2>1. /\ UserMay(p) /\ live' = live \ {remoteId[p]} /\ remoteId[p] \in Remotes
        /\ UNCHANGED <<mode, markers, thread, owner, siteTag, siteTime, setBy, att, usr>>
    BY <1>5 DEF DeleteRemote, Gone
  <2>2. CASE UNCHANGED <<state, remoteId, pubAt, img>>
    <3>1. RowsTrue'
      BY <2>1, <2>2, RowsKept
    <3>2. ThreadTrue'
      BY <2>1, <2>2, ThreadStays
    <3>3. QED
      BY <3>1, <3>2 DEF FillInv
  <2>3. CASE /\ remoteId' = [remoteId EXCEPT ![p] = NoRemote]
             /\ pubAt' = [pubAt EXCEPT ![p] = "none"]
             /\ img' = Cleared(p)
             /\ state' = [state EXCEPT ![p] = Moved(@, "draft")]
    <3>1. /\ remoteId'[p] = NoRemote /\ pubAt'[p] = "none"
          /\ \A i \in Images : img'[p][i] = "new"
          /\ \A q \in Posts \ {p} : /\ remoteId'[q] = remoteId[q] /\ pubAt'[q] = pubAt[q]
                                    /\ state'[q] = state[q] /\ img'[q] = img[q]
      BY <2>3 DEF Cleared
    <3>2. Lone'
      BY <2>1, <3>1 DEF FillInv, RowsTrue, Lone, LivePosts
    <3>3. NoRequest' /\ KnownBound' /\ NeverHalfFilled'
      BY <2>1, <3>1 DEF FillInv, RowsTrue, NoRequest, KnownBound, NeverHalfFilled
    <3>4. OnSite'
      <4>1. SUFFICES ASSUME NEW q \in Posts, NEW i \in Images, img'[q][i] = "attached"
                     PROVE  remoteId'[q] # NoRemote /\ att[remoteId'[q]][i] > 0
        BY <2>1 DEF OnSite
      <4>2. q # p
        BY <3>1, <4>1
      <4>3. QED
        BY <3>1, <4>1, <4>2 DEF FillInv, RowsTrue, OnSite
    <3>5. Timed'
      BY <2>1, <3>1 DEF FillInv, RowsTrue, Timed
    <3>6. pc \in Holding => remoteId'[cur] = remoteId[cur] /\ state'[cur] = state[cur]
      BY <2>1, <3>1, FillRow
    <3>7. ThreadTrue'
      BY <2>1, <3>6, ThreadStays
    <3>8. QED
      BY <3>2, <3>3, <3>4, <3>5, <3>7 DEF FillInv, RowsTrue
  <2>4. QED
    BY <1>5, <2>2, <2>3 DEF DeleteRemote
<1>6. QED
  BY <1>1, <1>2, <1>3, <1>4, <1>5

LEMMA FillSite ==
  ASSUME FillInv, MarkerInv', NEW r \in Remotes
  PROVE  TimePasses(r) \/ OwnerPublishes(r) \/ OwnerDeletes(r) => FillInv'
<1> USE FillTypes
<1>1. SUFFICES ASSUME TimePasses(r) \/ OwnerPublishes(r) \/ OwnerDeletes(r) PROVE FillInv'
  OBVIOUS
<1>2. /\ UNCHANGED <<mode, state, remoteId, img, markers, thread, usr, owner, siteTag, att>>
      /\ live' \subseteq live
      /\ siteTime' = siteTime \/ siteTime' = [siteTime EXCEPT ![r] = "past"]
      /\ setBy' = setBy \/ setBy' = [setBy EXCEPT ![r] = "owner"]
      /\ \A p \in Posts : pubAt'[p] # "none" => pubAt[p] # "none"
  BY <1>1 DEF TimePasses, OwnerPublishes, OwnerDeletes, local
<1>3. /\ \A s \in Remotes : siteTime'[s] = "none" => siteTime[s] = "none"
      /\ \A s \in Remotes : setBy'[s] = "push" => setBy[s] = "push"
  BY <1>2
<1>4. RowsTrue'
  BY <1>2, <1>3, RowsKept
<1>5. ThreadTrue'
  BY <1>2, <1>3, ThreadStays
<1>6. QED
  BY <1>4, <1>5 DEF FillInv

LEMMA FillNext ==
  ASSUME ~MixUps, ~TornDelete, FillInv, [Next]_vars
  PROVE  FillInv'
<1>0. MarkerInv'
  BY MarkerNext DEF FillInv
<1>1. CASE ThreadStep
  BY <1>0, <1>1, FillQuiet, FillFailSync, FillClaims, FillPreflight, FillRecordsAttempt,
     FillCreates, FillFinds, FillRecordsCreated, FillTags, FillUploads, FillAttaches,
     FillPublishes, FillRecordsTime, FillConfirms, FillFinishes DEF ThreadStep
<1>2. CASE UserStep
  BY <1>0, <1>2, FillQuiet, FillUser DEF UserStep
<1>3. CASE RequestStep
  BY <1>3 DEF RequestStep, DeleteFields, DeleteUploads, DeleteState, FillInv, RowsTrue,
     NoRequest, IdleUser
<1>4. CASE SiteStep
  BY <1>0, <1>4, FillSite DEF SiteStep
<1>5. CASE Crash \/ Recover
  BY <1>0, <1>5, FillQuiet
<1>6. CASE UNCHANGED vars
  <2>1. UNCHANGED <<mode, local, thread, usr, site>>
    BY <1>6 DEF vars
  <2>2. RowsTrue'
    BY <2>1, RowsKept DEF local, site
  <2>3. ThreadTrue'
    BY <2>1, ThreadStays DEF local, site
  <2>4. QED
    BY <1>0, <2>2, <2>3 DEF FillInv
<1>7. QED
  BY <1>1, <1>2, <1>3, <1>4, <1>5, <1>6 DEF Next

THEOREM FillInvariant ==
  ASSUME ~MixUps, ~TornDelete
  PROVE  Spec => []FillInv
<1>1. Init => FillInv
  BY FillInit
<1>2. FillInv /\ [Next]_vars => FillInv'
  BY FillNext
<1>3. QED
  BY <1>1, <1>2, PTL DEF Spec

(* "An interrupted upload can never leave a half-filled post scheduled to  *)
(* go public": a push sets the publish time of a post that has all its     *)
(* images, whichever attachments were repeated, lost or learned later.     *)
THEOREM NoHalfFilledPost ==
  ASSUME ~MixUps, ~TornDelete
  PROVE  Spec => []NeverHalfFilled
<1>1. FillInv => NeverHalfFilled
  BY DEF FillInv, RowsTrue
<1>2. QED
  BY <1>1, FillInvariant, PTL

-----------------------------------------------------------------------------
(* Only FinishPost makes an item `done`, and it has a full post in hand. *)
DoneRight == \A p \in Posts :
  status[p] = "running" /\ status'[p] = "done"
    => Whole(bound) /\ (mode[p] # "draft_only" => siteTime[bound] # "none")

LEMMA OthersLeaveDone ==
  ASSUME FillInv, Next, ~FinishPost
  PROVE  \A p \in Posts : status'[p] = "done" => status[p] = "done"
<1> USE DEF table
<1>0. status \in [Posts -> ItemStatus] /\ (pc \in AtWork => cur \in Posts)
  BY DEF FillInv, MarkerInv, IInv, TypeOK, TableTypes, Located
<1>1. CASE UNCHANGED status
  BY <1>1
<1>2. CASE (\E p \in Posts : TakePost(p)) \/ CancelRest \/ PreflightHolds \/ FailRecords \/ Recover
  BY <1>0, <1>2 DEF TakePost, CancelRest, PreflightHolds, FailRecords, Recover, AtWork, Labels
<1>3. CASE \E S \in SUBSET Posts : StartRun(S)
  BY <1>3 DEF StartRun
<1>4. CASE FinishRun \/ Claim \/ LookBack \/ (\E r \in Remotes : FindAdopts(r))
           \/ FindNothing \/ FindFails \/ Readopted \/ PreflightPasses \/ PreflightFails
           \/ RecordAttempt \/ CreateFails \/ (\E r \in Remotes : CreateLands(r))
           \/ RecordCreated
  BY <1>1, <1>4 DEF FinishRun, Claim, LookBack, FindAdopts, FindNothing, FindFails, Readopted,
     PreflightPasses, PreflightFails, RecordAttempt, CreateFails, CreateLands, RecordCreated
<1>5. CASE TagsPlain \/ TagsCleared
           \/ (\E dropped \in SUBSET Runs, removed \in BOOLEAN : TagsFail(dropped, removed))
           \/ (\E i \in Images : Upload(i)) \/ UploadFails \/ Uploaded
           \/ (\E i \in Images, times \in 1 .. 2 : AttachLands(i, times))
           \/ RecordAttachment \/ AttachFails \/ AttachedAll
  BY <1>1, <1>5 DEF TagsPlain, TagsCleared, TagsFail, Upload, UploadFails, Uploaded,
     AttachLands, RecordAttachment, AttachFails, AttachedAll
<1>6. CASE PublishNothing \/ PublishNow \/ ReadTime \/ SendTime \/ PublishFails \/ RecordTime
           \/ ConfirmReads \/ ConfirmFails \/ FailSync \/ Crash
  BY <1>1, <1>6 DEF PublishNothing, PublishNow, ReadTime, SendTime, PublishFails, RecordTime,
     ConfirmReads, ConfirmFails, FailSync, Crash
<1>7. CASE \/ \E p \in Posts, target \in {"ready", "draft", "archived"} : MarkState(p, target)
           \/ \E p \in Posts, r \in Remotes : AdoptByHand(p, r)
           \/ \E p \in Posts : SyncByHand(p) \/ Reschedule(p) \/ DeleteRemote(p)
           \/ RequestStep \/ SiteStep
  BY <1>1, <1>7 DEF MarkState, AdoptByHand, SyncByHand, Reschedule, DeleteRemote, RequestStep,
     DeleteFields, DeleteUploads, DeleteState, SiteStep, TimePasses, OwnerPublishes, OwnerDeletes
<1>8. QED
  BY <1>2, <1>3, <1>4, <1>5, <1>6, <1>7 DEF Next, ThreadStep, UserStep

LEMMA DoneStep ==
  ASSUME FillInv, Next
  PROVE  DoneRight
<1>1. CASE ~FinishPost
  BY <1>1, OthersLeaveDone DEF DoneRight
<1>2. CASE FinishPost
  <2>1. pc = "finish" /\ status' = [status EXCEPT ![cur] = "done"]
    BY <1>2 DEF FinishPost
  <2>2. \A p \in Posts : status[p] = "running" /\ status'[p] = "done" => p = cur
    BY <2>1 DEF FillInv, MarkerInv, IInv, TypeOK, TableTypes
  <2>3. siteTag[bound] = 0 /\ (mode[cur] # "draft_only" => siteTime[bound] # "none")
    BY <2>1 DEF FillInv, ThreadTrue, InHand, Settled
  <2>4. \A i \in Images : att[bound][i] > 0
    BY <2>1 DEF FillInv, ThreadTrue, Filled, Settled
  <2>5. Whole(bound)
    BY <2>3, <2>4 DEF Whole
  <2>6. QED
    BY <2>2, <2>3, <2>5 DEF DoneRight
<1>3. QED
  BY <1>1, <1>2

(* An item that ends as `done` stands for a complete post: every image     *)
(* hangs on it, the marker is off, and it has a publish time unless it was *)
(* to stay a draft.                                                        *)
THEOREM DoneIsComplete ==
  ASSUME ~MixUps, ~TornDelete
  PROVE  Spec => DoneMeansComplete
<1>1. FillInv /\ [Next]_vars => [DoneRight]_vars
  BY DoneStep
<1>2. [DoneRight]_vars =>
        [\A p \in Posts : status[p] = "running" /\ status'[p] = "done"
           => Whole(bound) /\ (mode[p] # "draft_only" => siteTime[bound] # "none")]_vars
  BY DEF DoneRight
<1>3. QED
  BY <1>1, <1>2, FillInvariant, PTL DEF Spec, DoneMeansComplete

-----------------------------------------------------------------------------
(* The refinement.  Of a post CivitAI holds one copy of, Publication sees  *)
(* that copy; of any other, nothing.                                       *)
SetBy(r) == IF setBy[r] = "push" THEN "push"
            ELSE IF setBy[r] \in {"reschedule", "owner"} THEN "hand" ELSE "no"
Face(r) == [copies |-> 1, whole |-> Whole(r), timed |-> SetBy(r)]

LEMMA ShownNone ==
  ASSUME NEW p \in Posts
  PROVE  /\ LivePosts(p) = {} => Shown(p) = Promise!Absent
         /\ LivePosts(p)' = {} => Shown(p)' = Promise!Absent
<1>1. ASSUME LivePosts(p) = {} PROVE Shown(p) = Promise!Absent
  <2>1. (\E r \in LivePosts(p) : Whole(r)) = FALSE
    BY <1>1
  <2>2. /\ ~ \E r \in LivePosts(p) : setBy[r] = "push"
        /\ ~ \E r \in LivePosts(p) : setBy[r] \in {"reschedule", "owner"}
    BY <1>1
  <2>3. QED
    BY <1>1, <2>1, <2>2 DEF Shown, Promise!Absent
<1>2. ASSUME LivePosts(p)' = {} PROVE Shown(p)' = Promise!Absent
  <2>1. (\E r \in LivePosts(p)' : Whole(r)') = FALSE
    BY <1>2
  <2>2. /\ ~ \E r \in LivePosts(p)' : setBy'[r] = "push"
        /\ ~ \E r \in LivePosts(p)' : setBy'[r] \in {"reschedule", "owner"}
    BY <1>2
  <2>3. QED
    BY <1>2, <2>1, <2>2 DEF Shown, Promise!Absent
<1>3. QED
  BY <1>1, <1>2

LEMMA ShownOne ==
  ASSUME NEW p \in Posts, NEW r, LivePosts(p) = {r}
  PROVE  Shown(p) = Face(r)
<1>1. (\E s \in LivePosts(p) : Whole(s)) = Whole(r)
  BY DEF Whole
<1>2. /\ (\E s \in LivePosts(p) : setBy[s] = "push") <=> setBy[r] = "push"
      /\ (\E s \in LivePosts(p) : setBy[s] \in {"reschedule", "owner"})
           <=> setBy[r] \in {"reschedule", "owner"}
  OBVIOUS
<1>3. QED
  BY <1>1, <1>2 DEF Shown, Face, SetBy

LEMMA ShownOneNext ==
  ASSUME NEW p \in Posts, NEW r, LivePosts(p)' = {r}
  PROVE  Shown(p)' = Face(r)'
<1>1. (\E s \in LivePosts(p)' : Whole(s)') = Whole(r)'
  BY DEF Whole
<1>2. /\ (\E s \in LivePosts(p)' : setBy'[s] = "push") <=> setBy'[r] = "push"
      /\ (\E s \in LivePosts(p)' : setBy'[s] \in {"reschedule", "owner"})
           <=> setBy'[r] \in {"reschedule", "owner"}
  OBVIOUS
<1>3. QED
  BY <1>1, <1>2 DEF Shown, Face, SetBy

Seen == [p \in Posts |-> Shown(p)]

LEMMA Alone ==
  ASSUME IInv, NEW p \in Posts
  PROVE  LivePosts(p) = {} \/ \E r \in live : owner[r] = p /\ LivePosts(p) = {r}
  BY DEF IInv, AtMostOneRemotePost, LivePosts

(* A post of which nothing changes that Publication sees. *)
LEMMA KeptFace ==
  ASSUME IInv, NEW p \in Posts, LivePosts(p)' = LivePosts(p),
         \A r \in LivePosts(p) : Whole(r)' = Whole(r) /\ setBy'[r] = setBy[r]
  PROVE  Shown(p)' = Shown(p)
<1>1. CASE LivePosts(p) = {}
  BY <1>1, ShownNone
<1>2. ASSUME NEW r \in live, LivePosts(p) = {r} PROVE Shown(p)' = Shown(p)
  <2>1. Face(r)' = Face(r)
    BY <1>2 DEF Face, SetBy
  <2>2. QED
    BY <1>2, <2>1, ShownOne, ShownOneNext
<1>3. QED
  BY <1>1, <1>2, Alone

(* Nothing of a post on CivitAI changes that Publication sees. *)
LEMMA SameFaces ==
  ASSUME IInv, UNCHANGED <<owner, live>>,
         \A r \in live : Whole(r)' = Whole(r) /\ setBy'[r] = setBy[r]
  PROVE  Seen' = Seen
<1>1. ASSUME NEW p \in Posts PROVE Shown(p)' = Shown(p)
  <2>1. LivePosts(p)' = LivePosts(p)
    BY DEF LivePosts
  <2>2. QED
    BY <2>1, KeptFace DEF LivePosts
<1>2. QED
  BY <1>1 DEF Seen

(* One post on CivitAI changes its face, and the others keep theirs. *)
LEMMA OneFace ==
  ASSUME IInv, NEW r \in live, NEW p \in Posts, owner[r] = p, UNCHANGED <<owner, live>>,
         \A s \in live \ {r} : Whole(s)' = Whole(s) /\ setBy'[s] = setBy[s]
  PROVE  Seen[p] = Face(r) /\ Seen' = [Seen EXCEPT ![p] = Face(r)']
<1>1. LivePosts(p) = {r}
  BY DEF IInv, AtMostOneRemotePost, LivePosts
<1>2. LivePosts(p)' = {r}
  BY <1>1 DEF LivePosts
<1>3. Shown(p) = Face(r)
  BY <1>1, ShownOne
<1>4. Shown(p)' = Face(r)'
  BY <1>2, ShownOneNext
<1>5. ASSUME NEW q \in Posts, q # p PROVE Shown(q)' = Shown(q)
  <2>1. LivePosts(q)' = LivePosts(q) /\ LivePosts(q) \subseteq live \ {r}
    BY <1>5 DEF LivePosts
  <2>2. QED
    BY <2>1, KeptFace
<1>6. QED
  BY <1>3, <1>4, <1>5 DEF Seen

(* A field of a face overwritten.  The value is named, since the translation to *)
(* the solver does not take EXCEPT with a Boolean literal.                      *)
LEMMA MadeWhole ==
  ASSUME NEW f, NEW w, NEW t, f = [copies |-> 1, whole |-> w, timed |-> t]
  PROVE  [f EXCEPT !.whole = TRUE] = [copies |-> 1, whole |-> TRUE, timed |-> t]
<1>1. PICK v : v = TRUE
  OBVIOUS
<1>2. f \in [copies : Int, whole : {w, v}, timed : {t}]
  OBVIOUS
<1>3. [f EXCEPT !.whole = v] = [copies |-> f.copies, whole |-> v, timed |-> f.timed]
  BY ONLY <1>2
<1>4. [f EXCEPT !.whole = v] = [copies |-> 1, whole |-> v, timed |-> t]
  BY <1>3
<1>5. QED
  BY <1>1, <1>4

(* What one post on CivitAI may do to its face. *)
LEMMA FaceStep ==
  ASSUME IInv, NEW r \in live, UNCHANGED <<owner, live>>,
         \A s \in live \ {r} : Whole(s)' = Whole(s) /\ setBy'[s] = setBy[s],
         \/ Whole(r)' = Whole(r) /\ setBy'[r] = setBy[r]
         \/ ~Whole(r) /\ Whole(r)' /\ setBy'[r] = setBy[r]
         \/ Whole(r) /\ Whole(r)' = Whole(r) /\ setBy'[r] = "push"
         \/ Whole(r)' = Whole(r) /\ setBy'[r] \in {"reschedule", "owner"}
  PROVE  Promise!Next \/ Seen' = Seen
<1>1. PICK p \in Posts : owner[r] = p
  BY DEF IInv, OwnIds, TypeOK, SiteTypes
<1>2. Seen[p] = Face(r) /\ Seen' = [Seen EXCEPT ![p] = Face(r)']
  BY <1>1, OneFace
<1>3. CASE Whole(r)' = Whole(r) /\ setBy'[r] = setBy[r]
  BY <1>3, SameFaces
<1>4. CASE ~Whole(r) /\ Whole(r)' /\ setBy'[r] = setBy[r]
  <2>1. Face(r).copies = 1 /\ ~Face(r).whole
    BY <1>4 DEF Face
  <2>2. Seen[p].copies = 1 /\ ~Seen[p].whole
    BY <1>2, <2>1, Zenon
  <2>3. Whole(r)' = TRUE /\ setBy'[r] = setBy[r]
    BY <1>4 DEF Whole
  <2>4. Face(r)' = [Face(r) EXCEPT !.whole = TRUE]
    <3>1. Face(r)' = [copies |-> 1, whole |-> TRUE, timed |-> SetBy(r)]
      BY <2>3, Zenon DEF Face, SetBy
    <3>2. Face(r) = [copies |-> 1, whole |-> Whole(r), timed |-> SetBy(r)]
      BY DEF Face
    <3>3. [Face(r) EXCEPT !.whole = TRUE] = [copies |-> 1, whole |-> TRUE, timed |-> SetBy(r)]
      BY <3>2, MadeWhole
    <3>4. QED
      BY <3>1, <3>3, Zenon
  <2>5. Seen' = [Seen EXCEPT ![p].whole = TRUE]
    BY <1>2, <2>4
  <2>6. Promise!Complete(p)
    BY <2>2, <2>5 DEF Promise!Complete, Seen
  <2>7. QED
    BY <1>1, <2>6 DEF Promise!Next
<1>5. CASE Whole(r) /\ Whole(r)' = Whole(r) /\ setBy'[r] = "push"
  <2>1. Face(r).copies = 1 /\ Face(r).whole
    BY <1>5 DEF Face
  <2>2. Seen[p].copies = 1 /\ Seen[p].whole
    BY <1>2, <2>1, Zenon
  <2>3. Whole(r)' = Whole(r) /\ setBy'[r] = "push"
    BY <1>5
  <2>4. Face(r)' = [Face(r) EXCEPT !.timed = "push"]
    BY ONLY <2>3 DEF Face, SetBy
  <2>5. Seen' = [Seen EXCEPT ![p].timed = "push"]
    BY <1>2, <2>4
  <2>6. Promise!Announce(p)
    BY <2>2, <2>5 DEF Promise!Announce, Seen
  <2>7. QED
    BY <1>1, <2>6 DEF Promise!Next
<1>6. CASE Whole(r)' = Whole(r) /\ setBy'[r] \in {"reschedule", "owner"}
  <2>1. Face(r).copies = 1
    BY DEF Face
  <2>2. Face(r)' = [Face(r) EXCEPT !.timed = "hand"]
    BY <1>6 DEF Face, SetBy
  <2>3. Promise!SetTimeByHand(p)
    BY <1>2, <2>1, <2>2 DEF Promise!SetTimeByHand, Seen
  <2>4. QED
    BY <1>1, <2>3 DEF Promise!Next
<1>7. QED
  BY <1>3, <1>4, <1>5, <1>6

(* A step of the thread that brings the post in hand nearer to being whole. *)
LEMMA Completes ==
  ASSUME IInv, NEW r \in live, UNCHANGED <<owner, live, setBy>>,
         \A s \in live \ {r} : siteTag'[s] = siteTag[s] /\ att'[s] = att[s],
         Whole(r) => Whole(r)'
  PROVE  Promise!Next \/ Seen' = Seen
<1>1. \A s \in live \ {r} : Whole(s)' = Whole(s) /\ setBy'[s] = setBy[s]
  BY DEF Whole
<1>2. Whole(r)' = Whole(r) \/ (~Whole(r) /\ Whole(r)')
  BY DEF Whole
<1>3. QED
  BY <1>1, <1>2, FaceStep

(* A step that sets a publish time. *)
LEMMA SetsTime ==
  ASSUME IInv, NEW r \in live, UNCHANGED <<owner, live, siteTag, att>>,
         \/ setBy' = setBy
         \/ setBy' = [setBy EXCEPT ![r] = "push"] /\ Whole(r)
         \/ \E who \in {"reschedule", "owner"} : setBy' = [setBy EXCEPT ![r] = who]
  PROVE  Promise!Next \/ Seen' = Seen
<1>1. setBy \in [Remotes -> {"nobody", "push", "reschedule", "owner"}] /\ live \subseteq Remotes
  BY DEF IInv, TypeOK, SiteTypes
<1>2. \A s \in live : Whole(s)' = Whole(s)
  BY DEF Whole
<1>3. \A s \in live \ {r} : Whole(s)' = Whole(s) /\ setBy'[s] = setBy[s]
  BY <1>1, <1>2
<1>4. \/ Whole(r)' = Whole(r) /\ setBy'[r] = setBy[r]
      \/ Whole(r) /\ Whole(r)' = Whole(r) /\ setBy'[r] = "push"
      \/ Whole(r)' = Whole(r) /\ setBy'[r] \in {"reschedule", "owner"}
  BY <1>1, <1>2
<1>5. QED
  BY <1>3, <1>4, FaceStep

(* A post goes from CivitAI. *)
LEMMA Removes ==
  ASSUME IInv, NEW r \in live, live' = live \ {r},
         UNCHANGED <<owner, siteTag, setBy, att>>
  PROVE  Promise!Next
<1>1. PICK p \in Posts : owner[r] = p
  BY DEF IInv, OwnIds, TypeOK, SiteTypes
<1>2. LivePosts(p) = {r} /\ LivePosts(p)' = {}
  BY <1>1 DEF IInv, AtMostOneRemotePost, LivePosts
<1>3. Seen[p].copies = 1
  <2>1. Seen[p] = Face(r)
    BY <1>2, ShownOne DEF Seen
  <2>2. Face(r).copies = 1
    BY DEF Face
  <2>3. QED
    BY <2>1, <2>2, Zenon
<1>4. Shown(p)' = Promise!Absent
  BY <1>2, ShownNone
<1>5. ASSUME NEW q \in Posts, q # p PROVE Shown(q)' = Shown(q)
  <2>1. LivePosts(q)' = LivePosts(q)
    BY <1>1, <1>5 DEF LivePosts
  <2>2. \A s \in LivePosts(q) : Whole(s)' = Whole(s) /\ setBy'[s] = setBy[s]
    BY DEF Whole
  <2>3. QED
    BY <2>1, <2>2, KeptFace
<1>6. Seen' = [Seen EXCEPT ![p] = Promise!Absent]
  BY <1>4, <1>5 DEF Seen
<1>7. Promise!Remove(p)
  BY <1>3, <1>6 DEF Promise!Remove, Seen
<1>8. QED
  BY <1>7 DEF Promise!Next

(* A post comes to CivitAI: it carries its marker, and nobody set a time. *)
LEMMA MadeHere ==
  ASSUME NEW f, f = Promise!Absent
  PROVE  [f EXCEPT !.copies = 1] = [copies |-> 1, whole |-> FALSE, timed |-> "no"]
<1>1. f \in [copies : Int, whole : {FALSE}, timed : {"no"}] /\ f.whole = FALSE /\ f.timed = "no"
  BY DEF Promise!Absent
<1>2. [f EXCEPT !.copies = 1] = [copies |-> 1, whole |-> f.whole, timed |-> f.timed]
  BY <1>1
<1>3. QED
  BY <1>1, <1>2

LEMMA Creates ==
  ASSUME FillInv, NEW r \in Remotes, CreateLands(r)
  PROVE  Promise!Next
<1> USE FillTypes DEF FillInv, MarkerInv
<1>1. PICK p \in Posts : cur = p
  BY DEF CreateLands, IInv, Located, AtWork, Labels
<1>2. runs \in Runs /\ LivePosts(p) = {} /\ setBy[r] = "nobody" /\ r \notin live
  BY <1>1 DEF CreateLands, IInv, Located, Unbound, NothingThere, OwnIds, Untouched
<1>3. /\ owner' = [owner EXCEPT ![r] = p] /\ live' = live \cup {r}
      /\ siteTag' = [siteTag EXCEPT ![r] = runs] /\ UNCHANGED <<setBy, att>>
  BY <1>1 DEF CreateLands
<1>4. /\ owner \in [Remotes -> Posts \cup {NoPost}] /\ siteTag \in [Remotes -> 0 .. MaxRuns]
      /\ live \subseteq Remotes /\ NoPost \notin Posts /\ owner[r] = NoPost
  BY NoneAssumption DEF IInv, TypeOK, SiteTypes, CreateLands
<1>5. LivePosts(p)' = {r}
  BY <1>1, <1>2, <1>3, <1>4 DEF LivePosts
<1>6. Whole(r)' = FALSE
  BY <1>2, <1>3, <1>4 DEF Whole, Runs
<1>7. SetBy(r)' = "no"
  BY <1>2, <1>3 DEF SetBy
<1>8. Face(r)' = [copies |-> 1, whole |-> FALSE, timed |-> "no"]
  BY <1>6, <1>7, Zenon DEF Face
<1>9. Shown(p)' = [copies |-> 1, whole |-> FALSE, timed |-> "no"]
  BY <1>5, <1>8, ShownOneNext
<1>10. ASSUME NEW q \in Posts, q # p PROVE Shown(q)' = Shown(q)
  <2>1. LivePosts(q)' = LivePosts(q)
    BY <1>2, <1>3, <1>4, <1>10 DEF LivePosts
  <2>2. \A s \in LivePosts(q) : s \in Remotes /\ s # r
    BY <1>2, <1>4 DEF LivePosts
  <2>3. \A s \in LivePosts(q) : Whole(s)' = Whole(s) /\ setBy'[s] = setBy[s]
    BY <1>3, <1>4, <2>2 DEF Whole
  <2>4. QED
    BY <2>1, <2>3, KeptFace
<1>11. Seen[p] = Promise!Absent
  BY <1>2, ShownNone DEF Seen
<1>12. [Seen[p] EXCEPT !.copies = 1] = Shown(p)'
  BY <1>9, <1>11, MadeHere
<1>13. Seen' = [Seen EXCEPT ![p] = Shown(p)']
  BY <1>10 DEF Seen
<1>14. Seen' = [Seen EXCEPT ![p].copies = 1]
  BY <1>12, <1>13
<1>15. Promise!Create(p)
  BY <1>11, <1>14 DEF Promise!Create, Seen
<1>16. QED
  BY <1>15 DEF Promise!Next

-----------------------------------------------------------------------------
(* Every step of the pipeline is a step of Publication, or none. *)

LEMMA SameSite ==
  ASSUME IInv, UNCHANGED <<owner, live, siteTag, setBy, att>>
  PROVE  Seen' = Seen
  BY SameFaces DEF Whole

LEMMA TagsPromise ==
  ASSUME FillInv, TagsCleared \/ \E dropped \in SUBSET Runs, removed \in BOOLEAN :
                                   TagsFail(dropped, removed)
  PROVE  Promise!Next \/ Seen' = Seen
<1> USE FillTypes DEF FillInv, MarkerInv
<1>1. /\ UNCHANGED <<owner, live, setBy, att>>
      /\ \/ siteTag' = siteTag
         \/ siteTag' = [siteTag EXCEPT ![bound] = 0] /\ bound \in live
  BY DEF TagsCleared, TagsFail
<1>2. siteTag \in [Remotes -> 0 .. MaxRuns] /\ live \subseteq Remotes
  BY DEF IInv, TypeOK, SiteTypes
<1>3. CASE siteTag' = siteTag
  BY <1>1, <1>3, SameSite
<1>4. CASE siteTag' = [siteTag EXCEPT ![bound] = 0] /\ bound \in live
  <2>1. PICK r \in live : r = bound
    BY <1>4
  <2>2. \A s \in live \ {r} : siteTag'[s] = siteTag[s] /\ att'[s] = att[s]
    BY <1>1, <1>2, <1>4, <2>1
  <2>3. Whole(r) => Whole(r)'
    BY <1>1, <1>2, <1>4, <2>1 DEF Whole
  <2>4. QED
    BY <1>1, <2>2, <2>3, Completes
<1>5. QED
  BY <1>1, <1>3, <1>4

LEMMA AttachPromise ==
  ASSUME FillInv, NEW i \in Images, NEW times \in 1 .. 2, AttachLands(i, times)
  PROVE  Promise!Next \/ Seen' = Seen
<1> USE FillTypes DEF FillInv, MarkerInv
<1>1. /\ UNCHANGED <<owner, live, setBy, siteTag>> /\ bound \in live
      /\ att' = [att EXCEPT ![bound][i] = IF @ + times > 2 THEN 2 ELSE @ + times]
  BY DEF AttachLands
<1>2. att \in [Remotes -> [Images -> 0 .. 2]] /\ live \subseteq Remotes
  BY DEF IInv, TypeOK, SiteTypes
<1>3. PICK r \in live : r = bound
  BY <1>1
<1>4. \A s \in live \ {r} : att'[s] = att[s]
  BY <1>1, <1>2, <1>3
<1>5. \A j \in Images : att[r][j] > 0 => att'[r][j] > 0
  BY <1>1, <1>2, <1>3
<1>6. Whole(r) => Whole(r)'
  BY <1>1, <1>5 DEF Whole
<1>7. QED
  BY <1>1, <1>4, <1>6, Completes

LEMMA PublishPromise ==
  ASSUME FillInv, PublishNow \/ SendTime
  PROVE  Promise!Next \/ Seen' = Seen
<1> USE FillTypes DEF FillInv, MarkerInv
<1>1. /\ UNCHANGED <<owner, live, siteTag, att>> /\ bound \in live
      /\ pc \in {"publish", "stamp"}
      /\ setBy' = [setBy EXCEPT ![bound] = @] \/ setBy' = [setBy EXCEPT ![bound] = "push"]
  BY DEF PublishNow, SendTime
<1>2. Whole(bound)
  BY <1>1 DEF ThreadTrue, Filled, InHand, Settled, AfterTags, Whole
<1>3. setBy \in [Remotes -> {"nobody", "push", "reschedule", "owner"}]
  BY DEF IInv, TypeOK, SiteTypes
<1>4. setBy' = setBy \/ setBy' = [setBy EXCEPT ![bound] = "push"]
  BY <1>1, <1>3
<1>5. QED
  BY <1>1, <1>2, <1>4, SetsTime

LEMMA UserPromise ==
  ASSUME FillInv, NEW p \in Posts, Reschedule(p) \/ DeleteRemote(p)
  PROVE  Promise!Next \/ Seen' = Seen
<1> USE DEF FillInv, MarkerInv
<1>1. CASE Reschedule(p)
  <2>1. PICK r \in live : r = remoteId[p]
    BY <1>1 DEF Reschedule
  <2>2. UNCHANGED <<owner, live, siteTag, att>> /\ setBy' = [setBy EXCEPT ![r] = "reschedule"]
    BY <1>1, <2>1 DEF Reschedule
  <2>3. QED
    BY <2>2, SetsTime
<1>2. CASE DeleteRemote(p)
  <2>1. live' = live \ {remoteId[p]} /\ UNCHANGED <<owner, siteTag, setBy, att>>
    BY <1>2 DEF DeleteRemote, Gone
  <2>2. CASE remoteId[p] \in live
    BY <2>1, <2>2, Removes
  <2>3. CASE remoteId[p] \notin live
    <3>1. live' = live
      BY <2>1, <2>3
    <3>2. QED
      BY <2>1, <3>1, SameSite
  <2>4. QED
    BY <2>2, <2>3
<1>3. QED
  BY <1>1, <1>2

LEMMA SitePromise ==
  ASSUME FillInv, NEW r \in Remotes, TimePasses(r) \/ OwnerPublishes(r) \/ OwnerDeletes(r)
  PROVE  Promise!Next \/ Seen' = Seen
<1> USE DEF FillInv, MarkerInv
<1>1. CASE TimePasses(r)
  BY <1>1, SameSite DEF TimePasses
<1>2. CASE OwnerPublishes(r)
  <2>1. /\ r \in live /\ UNCHANGED <<owner, live, siteTag, att>>
        /\ setBy' = [setBy EXCEPT ![r] = "owner"]
    BY <1>2 DEF OwnerPublishes
  <2>2. QED
    BY <2>1, SetsTime
<1>3. CASE OwnerDeletes(r)
  BY <1>3, Removes DEF OwnerDeletes
<1>4. QED
  BY <1>1, <1>2, <1>3

LEMMA OthersPromise ==
  ASSUME FillInv, UNCHANGED site
  PROVE  Seen' = Seen
  BY SameSite DEF FillInv, MarkerInv, site

LEMMA PromiseStep ==
  ASSUME FillInv, [Next]_vars
  PROVE  Promise!Next \/ Seen' = Seen
<1>1. CASE ThreadStep
  <2>1. CASE \/ \E p \in Posts : TakePost(p)
             \/ CancelRest \/ FinishRun \/ Claim \/ LookBack
             \/ \E r \in Remotes : FindAdopts(r)
             \/ FindNothing \/ FindFails \/ Readopted
             \/ PreflightPasses \/ PreflightFails \/ PreflightHolds
             \/ RecordAttempt \/ CreateFails \/ RecordCreated
    BY <2>1, OthersPromise DEF TakePost, CancelRest, FinishRun, Claim, LookBack, FindAdopts,
       FindNothing, FindFails, Readopted, PreflightPasses, PreflightFails, PreflightHolds,
       RecordAttempt, CreateFails, RecordCreated
  <2>2. CASE \/ TagsPlain \/ \E i \in Images : Upload(i)
             \/ UploadFails \/ Uploaded \/ RecordAttachment \/ AttachFails \/ AttachedAll
             \/ PublishNothing \/ ReadTime \/ PublishFails \/ RecordTime
             \/ ConfirmReads \/ ConfirmFails \/ FinishPost \/ FailSync \/ FailRecords
    BY <2>2, OthersPromise DEF TagsPlain, Upload, UploadFails, Uploaded, RecordAttachment,
       AttachFails, AttachedAll, PublishNothing, ReadTime, PublishFails, RecordTime,
       ConfirmReads, ConfirmFails, FinishPost, FailSync, FailRecords
  <2>3. CASE \E r \in Remotes : CreateLands(r)
    BY <2>3, Creates
  <2>4. CASE \/ TagsCleared
             \/ \E dropped \in SUBSET Runs, removed \in BOOLEAN : TagsFail(dropped, removed)
    BY <2>4, TagsPromise
  <2>5. CASE \E i \in Images, times \in 1 .. 2 : AttachLands(i, times)
    BY <2>5, AttachPromise
  <2>6. CASE PublishNow \/ SendTime
    BY <2>6, PublishPromise
  <2>7. QED
    BY <1>1, <2>1, <2>2, <2>3, <2>4, <2>5, <2>6 DEF ThreadStep
<1>2. CASE UserStep
  <2>1. CASE \/ \E S \in SUBSET Posts : StartRun(S)
             \/ \E p \in Posts, target \in {"ready", "draft", "archived"} : MarkState(p, target)
             \/ \E p \in Posts, r \in Remotes : AdoptByHand(p, r)
             \/ \E p \in Posts : SyncByHand(p)
    BY <2>1, OthersPromise DEF StartRun, MarkState, AdoptByHand, SyncByHand
  <2>2. QED
    BY <1>2, <2>1, UserPromise DEF UserStep
<1>3. CASE RequestStep
  BY <1>3, OthersPromise DEF RequestStep, DeleteFields, DeleteUploads, DeleteState
<1>4. CASE SiteStep
  BY <1>4, SitePromise DEF SiteStep
<1>5. CASE Crash \/ Recover \/ UNCHANGED vars
  BY <1>5, OthersPromise DEF Crash, Recover, vars
<1>6. QED
  BY <1>1, <1>2, <1>3, <1>4, <1>5 DEF Next

(* The pipeline keeps what Publication promises: whatever runs, requests,  *)
(* lost answers and crashes do to a post, people see one copy of it at the *)
(* most, and a publish time the program sets of its own accord is set on a *)
(* copy with every image and without the internal marker.                  *)
THEOREM PublicationKept ==
  ASSUME ~MixUps, ~TornDelete
  PROVE  Spec => PublicationSpec
<1>1. Init => Promise!Init
  <2>1. ASSUME Init PROVE \A p \in Posts : Shown(p) = Promise!Absent
    BY <2>1, ShownNone DEF Init, LivePosts
  <2>2. QED
    BY <2>1 DEF Promise!Init
<1>2. FillInv /\ [Next]_vars => [Promise!Next]_([p \in Posts |-> Shown(p)])
  BY PromiseStep DEF Seen
<1>3. QED
  BY <1>1, <1>2, FillInvariant, PTL DEF Spec, PublicationSpec, Promise!Spec
=============================================================================
